------------------------- MODULE IpForwardingProofs -------------------------
(***************************************************************************)
(* What the loop does with IP packets keeps every variable of its type, on *)
(* every network and with every change of the tables; and where every link *)
(* joins two stations, a probe is never in two places, and what a host     *)
(* hears about its probe agrees with the path the settled tables give.     *)
(***************************************************************************)
EXTENDS IpForwarding, FiniteSetTheorems, SequenceTheorems, WellFoundedInduction, TLAPS

Station == Addr \cup Host \X {0}
PacketKind == {"data", "echo", "reply", "exceeded", "unreachable"}
Packets ==
  [kind : PacketKind, src : Station, dst : Station, ttl : Nat \ {0}, probe : Probe]
Frames == [mac : Station, pkt : Packets]
Buffers == [Router -> [Iface -> Seq(Frames)]]

-----------------------------------------------------------------------------
(* Types *)

\* The strengthening of TypeOK: buffers are sequences of frames.
Types ==
  /\ scenario \in Scenario
  /\ DOMAIN table = Router /\ \A r \in Router : IsRoutingTable(table[r])
  /\ rx \in Buffers
  /\ arp \in [Router -> SUBSET (Iface \X Station)]
  /\ asked \in [Router -> SUBSET (Iface \X Station)]
  /\ inbox \in [Host -> SUBSET Packets]
  /\ \A h \in Host : \A pkt \in inbox[h] : pkt.dst = <<h, 0>>
  /\ reroutes \in 0 .. scenario.reroutes
  /\ losses \in 0 .. scenario.losses

LEMMA TypesTypeOK == Types => TypeOK
<1> SUFFICES ASSUME Types PROVE TypeOK
  OBVIOUS
<1>1. ASSUME NEW pkt \in Packets PROVE IsPacket(pkt)
  BY DEF Packets, IsPacket, PacketKind, Station
<1>2. ASSUME NEW pkt \in InFlight PROVE pkt \in Packets
  <2>1. PICK r \in Router, i \in Iface : \E n \in DOMAIN rx[r][i] : pkt = rx[r][i][n].pkt
    BY DEF InFlight
  <2>2. PICK n \in DOMAIN rx[r][i] : pkt = rx[r][i][n].pkt
    BY <2>1
  <2>3. rx[r][i] \in Seq(Frames)
    BY DEF Types, Buffers
  <2>4. rx[r][i][n] \in Frames
    BY <2>2, <2>3
  <2> QED
    BY <2>2, <2>4 DEF Frames
<1>3. \A h \in Host : \A pkt \in inbox[h] : pkt \in Packets /\ pkt.dst = <<h, 0>>
  BY DEF Types
<1>4. \A r \in Router : \A x \in arp[r] \cup asked[r] : x \in Iface \X (Addr \cup Host \X {0})
  BY DEF Types, Station
<1> QED
  BY <1>1, <1>2, <1>3, <1>4 DEF Types, TypeOK

\* The probes and where they come from.
LEMMA Probes ==
  ASSUME NEW p \in Probe
  PROVE  /\ p.host \in Host /\ p.kind \in {"data", "echo"}
         /\ p.dst \in Station /\ p.ttl \in Nat \ {0}
BY HostAssumption DEF Station

LEMMA MadePacket ==
  ASSUME NEW kind \in PacketKind, NEW src \in Station, NEW dst \in Station,
         NEW ttl \in Nat \ {0}, NEW probe \in Probe
  PROVE  Packet(kind, src, dst, ttl, probe) \in Packets
BY DEF Packet, Packets

LEMMA MadeFrame ==
  ASSUME NEW mac \in Station, NEW pkt \in Packets PROVE Frame(mac, pkt) \in Frames
BY DEF Frame, Frames

\* The frame that is taken, and the buffers without it.
LEMMA TakenTypes ==
  ASSUME Types, NEW r \in Router, NEW i \in Iface, Arrived(r, i)
  PROVE  /\ Head(rx[r][i]) \in Frames
         /\ Head(rx[r][i]).mac \in Station /\ Head(rx[r][i]).pkt \in Packets
         /\ [rx EXCEPT ![r][i] = Tail(@)] \in Buffers
<1>1. rx[r][i] \in Seq(Frames) /\ rx[r][i] # <<>> /\ rx \in Buffers
  BY DEF Types, Buffers, Arrived
<1>2. Head(rx[r][i]) \in Frames /\ Tail(rx[r][i]) \in Seq(Frames)
  BY <1>1, HeadTailProperties
<1>3. Head(rx[r][i]).mac \in Station /\ Head(rx[r][i]).pkt \in Packets
  BY <1>2 DEF Frames
<1> HIDE DEF Frames
<1>4. [rx EXCEPT ![r][i] = Tail(@)] \in Buffers
  BY <1>1, <1>2 DEF Buffers
<1> QED
  BY <1>2, <1>3, <1>4

LEMMA CapturedTypes ==
  ASSUME NEW bufs \in Buffers, NEW r \in Router, NEW j \in Iface, NEW pkt \in Packets
  PROVE  Captured(bufs, r, j, pkt) \in Buffers
<1>1. Frame(<<r, j>>, pkt) \in Frames
  BY MadeFrame DEF Station, Addr
<1>2. \A s \in Router, k \in Iface :
         bufs[s][k] \in Seq(Frames) /\ Append(bufs[s][k], Frame(<<r, j>>, pkt)) \in Seq(Frames)
  BY <1>1, AppendProperties DEF Buffers
<1> QED
  BY <1>2 DEF Captured, Buffers

LEMMA DeliveredTypes ==
  ASSUME Types, NEW r \in Router, NEW j \in Iface, NEW mac \in Station, NEW pkt \in Packets
  PROVE  /\ Delivered(r, j, mac, pkt) \in [Host -> SUBSET Packets]
         /\ \A h \in Host : \A x \in Delivered(r, j, mac, pkt)[h] : x.dst = <<h, 0>>
BY DEF Delivered, Types

\* A step that takes a frame and sends a packet or none, and leaves the rest alone.
LEMMA AnswerTypes ==
  ASSUME Types, NEW r \in Router, NEW i \in Iface, Arrived(r, i),
         NEW j \in Iface, NEW mac \in Station, NEW pkt \in Packets, Answer(r, i, j, mac, pkt)
  PROVE  /\ rx' \in Buffers /\ inbox' \in [Host -> SUBSET Packets]
         /\ \A h \in Host : \A x \in inbox'[h] : x.dst = <<h, 0>>
<1> DEFINE left == [rx EXCEPT ![r][i] = Tail(@)]
<1>1. left \in Buffers
  BY TakenTypes
<1>2. rx' = Captured(left, r, j, pkt) /\ inbox' = Delivered(r, j, mac, pkt)
  BY DEF Answer
<1> HIDE DEF left
<1> QED
  BY <1>1, <1>2, CapturedTypes, DeliveredTypes

LEMMA DiscardTypes ==
  ASSUME Types, NEW r \in Router, NEW i \in Iface, Arrived(r, i), Discard(r, i)
  PROVE  /\ rx' \in Buffers /\ inbox' \in [Host -> SUBSET Packets]
         /\ \A h \in Host : \A x \in inbox'[h] : x.dst = <<h, 0>>
BY TakenTypes DEF Discard, Types

\* The fields of a packet.
LEMMA PacketFields ==
  ASSUME NEW pkt \in Packets
  PROVE  /\ pkt.kind \in PacketKind /\ pkt.src \in Station /\ pkt.dst \in Station
         /\ pkt.ttl \in Nat \ {0} /\ pkt.probe \in Probe
BY DEF Packets

LEMMA LocalTypes ==
  ASSUME Types, NEW r \in Router, NEW i \in Iface, Local(r, i) PROVE Types'
<1> DEFINE f == Head(rx[r][i])
<1>1. Arrived(r, i) /\ f.mac \in Station /\ f.pkt \in Packets
  BY TakenTypes DEF Local
<1>2. /\ f.pkt.src \in Station /\ f.pkt.dst \in Station /\ f.pkt.probe \in Probe
      /\ DefaultTtl \in Nat \ {0} /\ "reply" \in PacketKind
  BY <1>1, PacketFields, HostAssumption DEF PacketKind
<1>3. Packet("reply", f.pkt.dst, f.pkt.src, DefaultTtl, f.pkt.probe) \in Packets
  BY <1>2, MadePacket
<1>4. \/ Answer(r, i, i, f.mac, Packet("reply", f.pkt.dst, f.pkt.src, DefaultTtl, f.pkt.probe))
      \/ Discard(r, i)
  BY DEF Local
<1> HIDE DEF f
<1>5. /\ rx' \in Buffers /\ inbox' \in [Host -> SUBSET Packets]
      /\ \A h \in Host : \A x \in inbox'[h] : x.dst = <<h, 0>>
  BY <1>1, <1>3, <1>4, AnswerTypes, DiscardTypes
<1> QED
  BY <1>5 DEF Local, Types

LEMMA ErrorTypes ==
  ASSUME Types, NEW r \in Router, NEW i \in Iface, Arrived(r, i),
         NEW kind \in PacketKind, Error(r, i, kind)
  PROVE  /\ rx' \in Buffers /\ inbox' \in [Host -> SUBSET Packets]
         /\ \A h \in Host : \A x \in inbox'[h] : x.dst = <<h, 0>>
<1> DEFINE f == Head(rx[r][i])
           pkt == Packet(kind, <<r, i>>, f.pkt.src, DefaultTtl, f.pkt.probe)
<1>1. f.mac \in Station /\ f.pkt \in Packets
  BY TakenTypes
<1>2. /\ f.pkt.src \in Station /\ f.pkt.probe \in Probe
      /\ DefaultTtl \in Nat \ {0} /\ <<r, i>> \in Station
  BY <1>1, PacketFields, HostAssumption DEF Station, Addr
<1>3. pkt \in Packets
  BY <1>2, MadePacket
<1>4. Answer(r, i, i, f.mac, pkt)
  BY DEF Error
<1> HIDE DEF f, pkt
<1> QED
  BY <1>1, <1>3, <1>4, AnswerTypes

\* A router with a route knows where to send.
LEMMA NextHopTypes ==
  ASSUME Types, NEW r \in Router, NEW dst \in Station, Subnet(dst) \in DOMAIN table[r]
  PROVE  /\ NextHop(r, dst) \in Iface \X Station
         /\ NextHop(r, dst)[1] \in Iface /\ NextHop(r, dst)[2] \in Station
<1> DEFINE e == table[r][Subnet(dst)]
<1>1. e \in RoutingTableEntry
  BY DEF Types, IsRoutingTable
<1>2. e.if_index \in Iface /\ e.nexthop \in Addr \cup {Direct}
  BY <1>1 DEF RoutingTableEntry
<1> QED
  BY <1>2 DEF NextHop, Station

LEMMA ForwardedTypes ==
  ASSUME NEW pkt \in Packets, ~Expired(pkt) PROVE Forwarded(pkt) \in Packets
<1>1. pkt.ttl \in Nat /\ pkt.ttl - 1 \in Nat \ {0}
  BY PacketFields DEF Expired
<1> QED
  BY <1>1 DEF Forwarded, Packets

LEMMA ForwardTypes ==
  ASSUME Types, NEW r \in Router, NEW i \in Iface, Forward(r, i) PROVE Types'
<1> DEFINE pkt == Head(rx[r][i]).pkt
           next == NextHop(r, pkt.dst)
<1>1. Arrived(r, i) /\ pkt \in Packets
  BY TakenTypes DEF Forward
<1>2. ~Expired(pkt) /\ Subnet(pkt.dst) \in DOMAIN table[r]
  BY DEF Forward
<1>3. pkt.dst \in Station
  BY <1>1, PacketFields
<1>4. next \in Iface \X Station /\ next[1] \in Iface /\ next[2] \in Station
  BY <1>2, <1>3, NextHopTypes
<1>5. Forwarded(pkt) \in Packets
  BY <1>1, <1>2, ForwardedTypes
<1>6. \/ Answer(r, i, next[1], next[2], Forwarded(pkt)) /\ UNCHANGED asked
      \/ Discard(r, i) /\ asked' = [asked EXCEPT ![r] = @ \cup {next}]
  BY DEF Forward
<1> HIDE DEF pkt, next
<1>7. /\ rx' \in Buffers /\ inbox' \in [Host -> SUBSET Packets]
      /\ \A h \in Host : \A x \in inbox'[h] : x.dst = <<h, 0>>
  BY <1>1, <1>4, <1>5, <1>6, AnswerTypes, DiscardTypes
<1>8. asked' \in [Router -> SUBSET (Iface \X Station)]
  BY <1>4, <1>6 DEF Types
<1> QED
  BY <1>7, <1>8 DEF Forward, Types

LEMMA SendTypes ==
  ASSUME Types, NEW p \in Probe, Send(p) PROVE Types'
<1> DEFINE src == <<p.host, 0>>
           f == Frame(src, Packet(p.kind, src, p.dst, p.ttl, p))
<1>1. src \in Station /\ p.kind \in PacketKind /\ p.dst \in Station /\ p.ttl \in Nat \ {0}
  BY Probes DEF Station, PacketKind
<1>2. f \in Frames
  BY <1>1, MadePacket, MadeFrame
<1>3. rx' = [s \in Router |-> [j \in Iface |->
        IF Attach[s][j] = HostLink[p.host] THEN Append(rx[s][j], f) ELSE rx[s][j]]]
  BY DEF Send
<1> HIDE DEF f
<1>4. \A s \in Router, j \in Iface : rx[s][j] \in Seq(Frames) /\ Append(rx[s][j], f) \in Seq(Frames)
  BY <1>2, AppendProperties DEF Types, Buffers
<1>5. rx' \in Buffers
  BY <1>3, <1>4 DEF Buffers
<1> QED
  BY <1>5 DEF Send, Types

LEMMA ArpReplyTypes ==
  ASSUME Types, NEW r \in Router, NEW i \in Iface, NEW a \in Station, ArpReply(r, i, a)
  PROVE  Types'
<1>1. <<r, i>> \in Station
  BY DEF Station, Addr
<1>2. arp' \in [Router -> SUBSET (Iface \X Station)]
  BY <1>1 DEF ArpReply, Types
<1>3. asked' \in [Router -> SUBSET (Iface \X Station)]
  BY DEF ArpReply, Types
<1> QED
  BY <1>2, <1>3 DEF ArpReply, Types

LEMMA RerouteTypes ==
  ASSUME Types, NEW r \in Router, Reroute(r) PROVE Types'
<1>1. PICK p \in Prefix \ OwnSubnets(r) :
         \/ table' = [table EXCEPT ![r] = [q \in DOMAIN @ \ {p} |-> @[q]]]
         \/ \E i, k \in Iface, s \in Router, j \in Iface :
            /\ Hears(s, j, r, k)
            /\ table' = [table EXCEPT ![r] = [q \in DOMAIN @ \cup {p} |->
                 IF q = p THEN [if_index |-> i, nexthop |-> <<s, j>>, metric |-> 2] ELSE @[q]]]
  BY DEF Reroute
<1>2. IsRoutingTable(table[r])
  BY DEF Types
<1>3. PICK t : table' = [table EXCEPT ![r] = t] /\ IsRoutingTable(t)
  <2>1. CASE table' = [table EXCEPT ![r] = [q \in DOMAIN @ \ {p} |-> @[q]]]
    <3> DEFINE t == [q \in DOMAIN table[r] \ {p} |-> table[r][q]]
    <3>1. IsRoutingTable(t)
      BY <1>2 DEF IsRoutingTable
    <3>2. table' = [table EXCEPT ![r] = t]
      BY <2>1
    <3> QED
      BY <3>1, <3>2
  <2>2. ASSUME NEW i \in Iface, NEW s \in Router, NEW j \in Iface,
               table' = [table EXCEPT ![r] = [q \in DOMAIN @ \cup {p} |->
                 IF q = p THEN [if_index |-> i, nexthop |-> <<s, j>>, metric |-> 2] ELSE @[q]]]
        PROVE  \E t : table' = [table EXCEPT ![r] = t] /\ IsRoutingTable(t)
    <3> DEFINE e == [if_index |-> i, nexthop |-> <<s, j>>, metric |-> 2]
               t == [q \in DOMAIN table[r] \cup {p} |-> IF q = p THEN e ELSE table[r][q]]
    <3>1. 2 \in 1 .. Infinity - 1
      BY HostAssumption, TableAssumption
    <3>2. e \in RoutingTableEntry
      BY <3>1 DEF RoutingTableEntry, Addr
    <3>3. table' = [table EXCEPT ![r] = t]
      BY <2>2
    <3> HIDE DEF e
    <3>4. IsRoutingTable(t)
      BY <1>2, <3>2 DEF IsRoutingTable
    <3> QED
      BY <3>3, <3>4
  <2> QED
    BY <1>1, <2>1, <2>2
<1>4. reroutes' \in 0 .. scenario.reroutes
  <2>1. scenario.reroutes \in Nat /\ reroutes \in 0 .. scenario.reroutes /\ reroutes < scenario.reroutes
    BY HostAssumption DEF Types, Reroute
  <2> QED
    BY <2>1 DEF Reroute
<1> QED
  BY <1>3, <1>4 DEF Reroute, Types

LEMMA DamagedTypes ==
  ASSUME Types, NEW r \in Router, NEW i \in Iface, Damaged(r, i) PROVE Types'
<1>1. losses' \in 0 .. scenario.losses
  <2>1. scenario.losses \in Nat /\ losses \in 0 .. scenario.losses /\ losses < scenario.losses
    BY HostAssumption DEF Types, Damaged
  <2> QED
    BY <2>1 DEF Damaged
<1>2. /\ rx' \in Buffers /\ inbox' \in [Host -> SUBSET Packets]
      /\ \A h \in Host : \A x \in inbox'[h] : x.dst = <<h, 0>>
  BY DiscardTypes DEF Damaged
<1> QED
  BY <1>1, <1>2 DEF Damaged, Types

LEMMA InitTypes == Init => Types
<1> SUFFICES ASSUME Init PROVE Types
  OBVIOUS
<1>1. rx \in Buffers
  BY DEF Init, Buffers
<1>2. arp \in [Router -> SUBSET (Iface \X Station)]
  BY DEF Init, Station, Addr
<1>3. scenario.reroutes \in Nat /\ scenario.losses \in Nat
  BY HostAssumption DEF Init
<1> QED
  BY <1>1, <1>2, <1>3, HostAssumption DEF Init, Types

LEMMA NextTypes == Types /\ [Next]_vars => Types'
<1> SUFFICES ASSUME Types, [Next]_vars PROVE Types'
  OBVIOUS
<1>1. ASSUME NEW p \in Probe, Send(p) PROVE Types'
  BY <1>1, SendTypes
<1>2. ASSUME NEW r \in Router, NEW i \in Iface, Receive(r, i) PROVE Types'
  <2>1. CASE Exceeded(r, i)
    <3>1. Arrived(r, i) /\ Error(r, i, "exceeded") /\ "exceeded" \in PacketKind
      BY <2>1 DEF Exceeded, PacketKind
    <3>2. /\ rx' \in Buffers /\ inbox' \in [Host -> SUBSET Packets]
          /\ \A h \in Host : \A x \in inbox'[h] : x.dst = <<h, 0>>
      BY <3>1, ErrorTypes
    <3> QED
      BY <2>1, <3>2 DEF Exceeded, Types
  <2>2. CASE Unreachable(r, i)
    <3>1. Arrived(r, i) /\ Error(r, i, "unreachable") /\ "unreachable" \in PacketKind
      BY <2>2 DEF Unreachable, PacketKind
    <3>2. /\ rx' \in Buffers /\ inbox' \in [Host -> SUBSET Packets]
          /\ \A h \in Host : \A x \in inbox'[h] : x.dst = <<h, 0>>
      BY <3>1, ErrorTypes
    <3> QED
      BY <2>2, <3>2 DEF Unreachable, Types
  <2> QED
    BY <1>2, <2>1, <2>2, LocalTypes, ForwardTypes DEF Receive
<1>3. ASSUME NEW r \in Router, NEW i \in Iface, Damaged(r, i) PROVE Types'
  BY <1>3, DamagedTypes
<1>4. ASSUME NEW r \in Router, NEW i \in Iface, NEW a \in Station, ArpReply(r, i, a) PROVE Types'
  BY <1>4, ArpReplyTypes
<1>5. ASSUME NEW r \in Router, Reroute(r) PROVE Types'
  BY <1>5, RerouteTypes
<1>6. CASE UNCHANGED vars
  BY <1>6 DEF vars, Types
<1> QED
  BY <1>1, <1>2, <1>3, <1>4, <1>5, <1>6 DEF Next, Station

\* Whatever the tables become, packets, ARP tables and inboxes keep their types,
\* and no packet with a TTL of 0 leaves a router.
THEOREM TypeCorrect == Spec => []TypeOK
BY InitTypes, NextTypes, TypesTypeOK, PTL DEF Spec

-----------------------------------------------------------------------------
(***************************************************************************)
(* Where every link joins two stations, a probe, what it has become and    *)
(* what is said about it are in one place: a frame that is sent is heard   *)
(* by the one other station of the link, and the one that was taken is     *)
(* gone.                                                                   *)
(***************************************************************************)

\* Frame n in a buffer stems from probe p; packet x in an inbox does.
Air(bufs, p, r, i, n) == n \in DOMAIN bufs[r][i] /\ bufs[r][i][n].pkt.probe = p
Got(boxes, p, h, x) == x \in boxes[h] /\ x.probe = p

\* There is one frame or packet of probe p at most.
OneFrame(bufs, p) ==
  \A r, s \in Router, i, j \in Iface, n, m \in Nat :
    Air(bufs, p, r, i, n) /\ Air(bufs, p, s, j, m) => r = s /\ i = j /\ n = m
OnePacket(boxes, p) ==
  \A h, g \in Host : \A x \in boxes[h], y \in boxes[g] :
    x.probe = p /\ y.probe = p => h = g /\ x = y
NotBoth(bufs, boxes, p) ==
  \A r \in Router, i \in Iface, n \in Nat, h \in Host : \A x \in boxes[h] :
    ~(Air(bufs, p, r, i, n) /\ x.probe = p)
One(bufs, boxes, p) == OneFrame(bufs, p) /\ OnePacket(boxes, p) /\ NotBoth(bufs, boxes, p)

NoneLeft(bufs, boxes, p) ==
  /\ \A r \in Router, i \in Iface, n \in Nat : ~Air(bufs, p, r, i, n)
  /\ \A h \in Host : \A x \in boxes[h] : x.probe # p

AllOne == \A p \in Probe : One(rx, inbox, p)

\* A set of which any two members are the same has one member at most.
LEMMA OneMember ==
  ASSUME NEW S, \A x, y \in S : x = y
  PROVE  Cardinality(S) \in {0, 1} /\ (S = {} => Cardinality(S) = 0)
<1>1. CASE S = {}
  BY <1>1, FS_EmptySet
<1>2. CASE S # {}
  <2>1. PICK x \in S : TRUE
    BY <1>2
  <2>2. S = {x}
    BY <2>1
  <2>3. Cardinality({x}) = 1
    BY FS_Singleton
  <2> QED
    BY <1>2, <2>2, <2>3
<1> QED
  BY <1>1, <1>2

LEMMA AllOneOneCopy == Types /\ AllOne => OneCopy
<1> SUFFICES ASSUME Types, AllOne, NEW p \in Probe PROVE Copies(p) <= 1
  BY DEF OneCopy
<1> DEFINE F == UNION {{<<r, i, n>> : n \in {k \in DOMAIN rx[r][i] : rx[r][i][k].pkt.probe = p}}
                        : r \in Router, i \in Iface}
           P == UNION {{<<h, pkt>> : pkt \in {q \in inbox[h] : q.probe = p}} : h \in Host}
<1>1. One(rx, inbox, p)
  BY DEF AllOne
<1>2. \A x \in F : \E r \in Router, i \in Iface, n \in Nat : x = <<r, i, n>> /\ Air(rx, p, r, i, n)
  <2> SUFFICES ASSUME NEW x \in F
               PROVE  \E r \in Router, i \in Iface, n \in Nat : x = <<r, i, n>> /\ Air(rx, p, r, i, n)
    OBVIOUS
  <2>1. PICK r \in Router, i \in Iface :
           x \in {<<r, i, n>> : n \in {k \in DOMAIN rx[r][i] : rx[r][i][k].pkt.probe = p}}
    OBVIOUS
  <2>2. PICK n \in DOMAIN rx[r][i] : x = <<r, i, n>> /\ rx[r][i][n].pkt.probe = p
    BY <2>1
  <2>3. rx[r][i] \in Seq(Frames)
    BY DEF Types, Buffers
  <2>4. n \in Nat
    BY <2>2, <2>3
  <2> QED
    BY <2>2, <2>4 DEF Air
<1>3. \A x \in P : \E h \in Host : \E q \in inbox[h] : x = <<h, q>> /\ q.probe = p
  OBVIOUS
<1>4. P # {} => F = {}
  BY <1>1, <1>2, <1>3 DEF One, NotBoth
<1>5. \A x, y \in F : x = y
  BY <1>1, <1>2 DEF One, OneFrame
<1>6. \A x, y \in P : x = y
  BY <1>1, <1>3 DEF One, OnePacket
<1>7. Copies(p) = Cardinality(F) + Cardinality(P)
  BY DEF Copies
<1> HIDE DEF F, P
<1>8. Cardinality(F) \in {0, 1} /\ Cardinality(P) \in {0, 1}
      /\ (F = {} => Cardinality(F) = 0) /\ (P = {} => Cardinality(P) = 0)
  BY <1>5, <1>6, OneMember
<1> QED
  BY <1>4, <1>7, <1>8

\* A frame that is taken moves those behind it up.
LEMMA TailAir ==
  ASSUME Types, NEW r \in Router, NEW i \in Iface, Arrived(r, i),
         NEW p, NEW s \in Router, NEW j \in Iface, NEW n \in Nat,
         Air([rx EXCEPT ![r][i] = Tail(@)], p, s, j, n)
  PROVE  IF s = r /\ j = i THEN Air(rx, p, s, j, n + 1) /\ n + 1 # 1 ELSE Air(rx, p, s, j, n)
<1> DEFINE left == [rx EXCEPT ![r][i] = Tail(@)]
           q == rx[r][i]
<1>1. q \in Seq(Frames) /\ q # <<>> /\ rx \in [Router -> [Iface -> Seq(Frames)]]
  BY DEF Types, Buffers, Arrived
<1>2. /\ Tail(q) \in Seq(Frames) /\ Len(Tail(q)) = Len(q) - 1
      /\ \A k \in 1 .. Len(q) - 1 : Tail(q)[k] = q[k + 1]
  BY <1>1, HeadTailProperties
<1>3. left[s][j] = IF s = r /\ j = i THEN Tail(q) ELSE rx[s][j]
  BY <1>1
<1>4. CASE s = r /\ j = i
  <2>0. n \in DOMAIN left[s][j] /\ left[s][j][n].pkt.probe = p
    BY DEF Air
  <2> HIDE DEF left, q
  <2>1. n \in 1 .. Len(q) - 1 /\ Tail(q)[n].pkt.probe = p
    BY <1>2, <1>3, <1>4, <2>0
  <2>2. n + 1 \in DOMAIN q /\ q[n + 1].pkt.probe = p
    BY <1>1, <1>2, <2>1
  <2> QED
    BY <1>4, <2>1, <2>2 DEF Air, q
<1>5. CASE ~(s = r /\ j = i)
  BY <1>3, <1>5 DEF Air
<1> QED
  BY <1>4, <1>5

\* Without the frame that was taken its probe is nowhere, the others as before.
LEMMA TakenOne ==
  ASSUME Types, AllOne, NEW r \in Router, NEW i \in Iface, Arrived(r, i), NEW p \in Probe
  PROVE  /\ One([rx EXCEPT ![r][i] = Tail(@)], inbox, p)
         /\ Head(rx[r][i]).pkt.probe = p => NoneLeft([rx EXCEPT ![r][i] = Tail(@)], inbox, p)
<1> DEFINE left == [rx EXCEPT ![r][i] = Tail(@)]
<1>1. One(rx, inbox, p)
  BY DEF AllOne
<1>2. \A s \in Router, j \in Iface, n \in Nat : Air(left, p, s, j, n) =>
         IF s = r /\ j = i THEN Air(rx, p, s, j, n + 1) /\ n + 1 # 1 ELSE Air(rx, p, s, j, n)
  BY TailAir
<1> HIDE DEF left
<1>3. OneFrame(left, p)
  <2> SUFFICES ASSUME NEW s \in Router, NEW t \in Router, NEW j \in Iface, NEW k \in Iface,
                      NEW n \in Nat, NEW m \in Nat, Air(left, p, s, j, n), Air(left, p, t, k, m)
               PROVE  s = t /\ j = k /\ n = m
    BY DEF OneFrame
  <2> DEFINE a == IF s = r /\ j = i THEN n + 1 ELSE n
             b == IF t = r /\ k = i THEN m + 1 ELSE m
  <2>1. a \in Nat /\ b \in Nat /\ Air(rx, p, s, j, a) /\ Air(rx, p, t, k, b)
    BY <1>2
  <2>2. s = t /\ j = k /\ a = b
    <3> HIDE DEF a, b
    <3> QED
      BY <1>1, <2>1 DEF One, OneFrame
  <2> QED
    BY <2>2
<1>4. \A s \in Router, j \in Iface, n \in Nat : Air(left, p, s, j, n) =>
         \E m \in Nat : Air(rx, p, s, j, m)
  <2>1. \A n \in Nat : n + 1 \in Nat
    OBVIOUS
  <2> QED
    BY <1>2, <2>1
<1>5. NotBoth(left, inbox, p) /\ OnePacket(inbox, p)
  BY <1>1, <1>4 DEF One, NotBoth
<1>6. ASSUME Head(rx[r][i]).pkt.probe = p PROVE NoneLeft(left, inbox, p)
  <2>1. rx[r][i] \in Seq(Frames) /\ rx[r][i] # <<>>
    BY DEF Types, Buffers, Arrived
  <2>2. Air(rx, p, r, i, 1) /\ 1 \in Nat
    BY <1>6, <2>1 DEF Air
  <2>3. ASSUME NEW s \in Router, NEW j \in Iface, NEW n \in Nat, Air(left, p, s, j, n) PROVE FALSE
    <3>1. CASE s = r /\ j = i
      <4>1. Air(rx, p, r, i, n + 1) /\ n + 1 # 1 /\ n + 1 \in Nat
        BY <1>2, <2>3, <3>1
      <4> QED
        BY <1>1, <2>2, <4>1 DEF One, OneFrame
    <3>2. CASE ~(s = r /\ j = i)
      <4>1. Air(rx, p, s, j, n)
        BY <1>2, <2>3, <3>2
      <4> QED
        BY <1>1, <2>2, <3>2, <4>1 DEF One, OneFrame
    <3> QED
      BY <3>1, <3>2
  <2>4. \A h \in Host : \A x \in inbox[h] : x.probe # p
    BY <1>1, <2>2 DEF One, NotBoth
  <2> QED
    BY <2>3, <2>4 DEF NoneLeft
<1> QED
  BY <1>3, <1>5, <1>6 DEF One, left

\* Frame f is heard at S and its packet delivered to H, which is one place at most.
Heard(bufs, S, f) ==
  [s \in Router |-> [j \in Iface |->
     IF <<s, j>> \in S THEN Append(bufs[s][j], f) ELSE bufs[s][j]]]
Taken(boxes, H, x) == [h \in Host |-> IF h \in H THEN boxes[h] \cup {x} ELSE boxes[h]]

LEMMA HeardOne ==
  ASSUME NEW bufs \in Buffers, NEW boxes, NEW f \in Frames,
         NEW S \in SUBSET Addr, NEW H \in SUBSET Host,
         \A a, b \in S : a = b, \A g, h \in H : g = h, S = {} \/ H = {},
         NoneLeft(bufs, boxes, f.pkt.probe),
         NEW p \in Probe, One(bufs, boxes, p)
  PROVE  One(Heard(bufs, S, f), Taken(boxes, H, f.pkt), p)
<1> DEFINE after == Heard(bufs, S, f)
           boxes2 == Taken(boxes, H, f.pkt)
           New(s, j, n) == <<s, j>> \in S /\ n = Len(bufs[s][j]) + 1 /\ p = f.pkt.probe
<1>1. ASSUME NEW s \in Router, NEW j \in Iface, NEW n \in Nat, Air(after, p, s, j, n)
      PROVE  Air(bufs, p, s, j, n) \/ New(s, j, n)
  <2> DEFINE q == bufs[s][j]
  <2>1. q \in Seq(Frames)
    BY DEF Buffers
  <2>2. after[s][j] = IF <<s, j>> \in S THEN Append(q, f) ELSE q
    BY DEF Heard
  <2>3. n \in DOMAIN after[s][j] /\ after[s][j][n].pkt.probe = p
    BY <1>1 DEF Air
  <2> HIDE DEF after
  <2>4. CASE <<s, j>> \in S
    <3>1. n \in DOMAIN Append(q, f) /\ Append(q, f)[n].pkt.probe = p
      BY <2>2, <2>3, <2>4
    <3>2. Len(q) \in Nat /\ DOMAIN q = 1 .. Len(q) /\ DOMAIN Append(q, f) = 1 .. Len(q) + 1
          /\ (\A k \in 1 .. Len(q) : Append(q, f)[k] = q[k]) /\ Append(q, f)[Len(q) + 1] = f
      BY <2>1, AppendProperties
    <3> HIDE DEF q
    <3>3. CASE n = Len(q) + 1
      BY <2>4, <3>1, <3>2, <3>3 DEF q
    <3>4. CASE n # Len(q) + 1
      <4>1. n \in 1 .. Len(q)
        BY <3>1, <3>2, <3>4
      <4> QED
        BY <3>1, <3>2, <4>1 DEF Air, q
    <3> QED
      BY <3>3, <3>4
  <2>5. CASE <<s, j>> \notin S
    BY <2>2, <2>3, <2>5 DEF Air
  <2> QED
    BY <2>4, <2>5
<1>2. ASSUME NEW h \in Host, NEW x \in boxes2[h], x.probe = p
      PROVE  x \in boxes[h] \/ (h \in H /\ x = f.pkt /\ p = f.pkt.probe)
  BY <1>2 DEF Taken
<1> HIDE DEF after, boxes2
<1>3. CASE p = f.pkt.probe
  <2>1. \A s \in Router, j \in Iface, n \in Nat : Air(after, p, s, j, n) => New(s, j, n)
    BY <1>1, <1>3 DEF NoneLeft
  <2>2. \A h \in Host : \A x \in boxes2[h] : x.probe = p => h \in H /\ x = f.pkt
    BY <1>2, <1>3 DEF NoneLeft
  <2>3. OneFrame(after, p)
    <3>1. ASSUME NEW s \in Router, NEW t \in Router, NEW j \in Iface, NEW k \in Iface,
                 NEW n \in Nat, NEW m \in Nat, New(s, j, n), New(t, k, m)
          PROVE  s = t /\ j = k /\ n = m
      <4>1. <<s, j>> = <<t, k>>
        BY <3>1
      <4>2. s = t /\ j = k
        BY <4>1
      <4> QED
        BY <3>1, <4>2
    <3> HIDE DEF New
    <3> QED
      BY <2>1, <3>1 DEF OneFrame
  <2>4. OnePacket(boxes2, p)
    BY <2>2 DEF OnePacket
  <2>5. NotBoth(after, boxes2, p)
    BY <2>1, <2>2 DEF NotBoth
  <2>6. One(after, boxes2, p)
    BY <2>3, <2>4, <2>5 DEF One
  <2> QED
    BY <2>6 DEF after, boxes2
<1>4. CASE p # f.pkt.probe
  <2>1. \A s \in Router, j \in Iface, n \in Nat : Air(after, p, s, j, n) => Air(bufs, p, s, j, n)
    BY <1>1, <1>4
  <2>2. \A h \in Host : \A x \in boxes2[h] : x.probe = p => x \in boxes[h]
    BY <1>2, <1>4
  <2>3. OneFrame(after, p)
    BY <2>1 DEF One, OneFrame
  <2>4. OnePacket(boxes2, p)
    BY <2>2 DEF One, OnePacket
  <2>5. NotBoth(after, boxes2, p)
    BY <2>1, <2>2 DEF One, NotBoth
  <2>6. One(after, boxes2, p)
    BY <2>3, <2>4, <2>5 DEF One
  <2> QED
    BY <2>6 DEF after, boxes2
<1> QED
  BY <1>3, <1>4

\* On a link of two stations one hears the other.
LEMMA OtherStation ==
  ASSUME TwoStations, NEW l \in Link, NEW a \in Stations(l), NEW b \in Stations(l),
         NEW c \in Stations(l), b # a, c # a
  PROVE  b = c
BY DEF TwoStations

LEMMA AnswerOne ==
  ASSUME TwoStations, Types, AllOne, NEW r \in Router, NEW i \in Iface, Arrived(r, i),
         NEW j \in Iface, NEW mac \in Station, NEW pkt \in Packets,
         pkt.probe = Head(rx[r][i]).pkt.probe, Answer(r, i, j, mac, pkt)
  PROVE  AllOne'
<1> DEFINE left == [rx EXCEPT ![r][i] = Tail(@)]
           f == Frame(<<r, j>>, pkt)
           S == {a \in Addr : Hears(a[1], a[2], r, j)}
           H == {h \in Host : mac = <<h, 0>> /\ pkt.dst = mac /\ HostLink[h] = Attach[r][j]}
           l == Attach[r][j]
<1>1. left \in Buffers /\ f \in Frames /\ f.pkt = pkt
  BY TakenTypes, MadeFrame DEF Station, Addr, Frame
<1>2. rx' = Heard(left, S, f) /\ inbox' = Taken(inbox, H, f.pkt)
  <2>1. rx' = Captured(left, r, j, pkt) /\ inbox' = Delivered(r, j, mac, pkt)
    BY DEF Answer
  <2>2. \A s \in Router, k \in Iface : <<s, k>> \in S <=> Hears(s, k, r, j)
    BY DEF Addr
  <2> HIDE DEF left, f, S
  <2>3. Captured(left, r, j, pkt) = Heard(left, S, f)
    BY <2>2 DEF Captured, Heard, f
  <2>4. Delivered(r, j, mac, pkt) = Taken(inbox, H, pkt)
    BY DEF Delivered, Taken
  <2> QED
    BY <1>1, <2>1, <2>3, <2>4
<1>3. l \in Link /\ <<r, j>> \in Stations(l)
  BY TopologyAssumption DEF Stations, Addr
<1>4. ASSUME NEW a \in S PROVE a \in Stations(l) /\ a # <<r, j>>
  BY DEF Stations, Hears, Addr
<1>5. ASSUME NEW h \in H PROVE <<h, 0>> \in Stations(l) /\ <<h, 0>> # <<r, j>>
  <2>1. h \in Host /\ HostLink[h] = l /\ h # r
    BY HostAssumption
  <2> QED
    BY <2>1 DEF Stations
<1>6. S \in SUBSET Addr /\ H \in SUBSET Host
  OBVIOUS
<1>7. \A a \in S, h \in H : a # <<h, 0>>
  <2> SUFFICES ASSUME NEW a \in S, NEW h \in H, a = <<h, 0>> PROVE FALSE
    OBVIOUS
  <2>1. a[1] \in Router /\ h \in Host
    BY DEF Addr
  <2> QED
    BY <2>1, HostAssumption
<1> HIDE DEF left, f, S, H, l
<1>8. \A a, b \in S : a = b
  BY <1>3, <1>4, OtherStation
<1>9. \A g, h \in H : g = h
  <2> SUFFICES ASSUME NEW g \in H, NEW h \in H PROVE g = h
    OBVIOUS
  <2>1. <<g, 0>> = <<h, 0>>
    BY <1>3, <1>5, OtherStation
  <2> QED
    BY <2>1
<1>10. S = {} \/ H = {}
  <2> SUFFICES ASSUME NEW a \in S, NEW h \in H PROVE FALSE
    OBVIOUS
  <2>1. a = <<h, 0>>
    BY <1>3, <1>4, <1>5, OtherStation
  <2> QED
    BY <1>7, <2>1
<1>11. pkt.probe \in Probe
  BY PacketFields
<1>12. \A p \in Probe : One(left, inbox, p)
  BY TakenOne DEF left
<1>13. NoneLeft(left, inbox, f.pkt.probe)
  BY <1>1, <1>11, TakenOne DEF left
<1>14. \A p \in Probe : One(Heard(left, S, f), Taken(inbox, H, f.pkt), p)
  BY <1>1, <1>6, <1>8, <1>9, <1>10, <1>12, <1>13, HeardOne
<1> QED
  BY <1>2, <1>14 DEF AllOne

LEMMA DiscardOne ==
  ASSUME Types, AllOne, NEW r \in Router, NEW i \in Iface, Arrived(r, i), Discard(r, i)
  PROVE  AllOne'
<1>1. rx' = [rx EXCEPT ![r][i] = Tail(@)] /\ inbox' = inbox
  BY DEF Discard
<1> QED
  BY <1>1, TakenOne DEF AllOne

LEMMA SendOne ==
  ASSUME TwoStations, Types, AllOne, NEW p \in Probe, Send(p) PROVE AllOne'
<1> DEFINE src == <<p.host, 0>>
           f == Frame(src, Packet(p.kind, src, p.dst, p.ttl, p))
           l == HostLink[p.host]
           S == {a \in Addr : Attach[a[1]][a[2]] = l}
<1>1. src \in Station /\ p.kind \in PacketKind /\ p.dst \in Station /\ p.ttl \in Nat \ {0}
      /\ p.host \in Host
  BY Probes DEF Station, PacketKind
<1>2. f \in Frames /\ f.pkt.probe = p
  <2>1. Packet(p.kind, src, p.dst, p.ttl, p) \in Packets
    BY <1>1, MadePacket
  <2>2. f.pkt.probe = p
    BY DEF Frame, Packet
  <2> QED
    BY <1>1, <2>1, <2>2, MadeFrame
<1>3. rx' = Heard(rx, S, f) /\ inbox' = inbox
  <2>1. rx' = [s \in Router |-> [j \in Iface |->
          IF Attach[s][j] = HostLink[p.host] THEN Append(rx[s][j], f) ELSE rx[s][j]]]
    BY DEF Send
  <2>2. \A s \in Router, k \in Iface : <<s, k>> \in S <=> Attach[s][k] = HostLink[p.host]
    BY DEF Addr
  <2> HIDE DEF f, S
  <2>3. rx' = Heard(rx, S, f)
    BY <2>1, <2>2 DEF Heard
  <2> QED
    BY <2>3 DEF Send
<1>4. Taken(inbox, {}, f.pkt) = inbox
  <2>1. inbox \in [Host -> SUBSET Packets]
    BY DEF Types
  <2> HIDE DEF f
  <2> QED
    BY <2>1 DEF Taken
<1>5. NoneLeft(rx, inbox, p)
  <2>1. ASSUME NEW r \in Router, NEW i \in Iface, NEW n \in Nat, Air(rx, p, r, i, n) PROVE FALSE
    <3> DEFINE In(s, j) == {rx[s][j][k].pkt : k \in DOMAIN rx[s][j]}
    <3>1. rx[r][i][n].pkt \in In(r, i)
      BY <2>1 DEF Air
    <3>2. InFlight = UNION {In(s, j) : s \in Router, j \in Iface}
      BY DEF InFlight
    <3> HIDE DEF In
    <3>3. rx[r][i][n].pkt \in InFlight
      BY <3>1, <3>2
    <3> QED
      BY <2>1, <3>3 DEF Send, UnderWay, Air
  <2>2. \A h \in Host : \A x \in inbox[h] : x.probe # p
    BY DEF Send, Answered
  <2> QED
    BY <2>1, <2>2 DEF NoneLeft
<1>6. \A a, b \in S : a = b
  <2>1. l \in Link /\ src \in Stations(l)
    BY <1>1, HostAssumption DEF Stations
  <2>2. ASSUME NEW a \in S PROVE a \in Stations(l) /\ a # src
    <3>1. a \in Addr /\ a \in Stations(l) /\ a[1] \in Router
      BY DEF Stations, Addr
    <3> QED
      BY <1>1, <3>1, HostAssumption
  <2> HIDE DEF S, l, src
  <2> QED
    BY <2>1, <2>2, OtherStation
<1>7. S \in SUBSET Addr /\ rx \in Buffers
  BY DEF Types
<1> HIDE DEF f, S
<1>8. \A q \in Probe : One(Heard(rx, S, f), Taken(inbox, {}, f.pkt), q)
  <2>1. \A q \in Probe : One(rx, inbox, q)
    BY DEF AllOne
  <2>2. {} \in SUBSET Host /\ \A g, h \in {} : g = h
    OBVIOUS
  <2> QED
    BY <1>2, <1>5, <1>6, <1>7, <2>1, <2>2, HeardOne
<1> QED
  BY <1>3, <1>4, <1>8 DEF AllOne

\* What a router makes of a packet stems from the same probe.
LEMMA ReceiveOne ==
  ASSUME TwoStations, Types, AllOne, NEW r \in Router, NEW i \in Iface, Receive(r, i)
  PROVE  AllOne'
<1> DEFINE f == Head(rx[r][i])
<1>1. /\ Arrived(r, i) /\ f.mac \in Station /\ f.pkt \in Packets
      /\ f.pkt.src \in Station /\ f.pkt.dst \in Station /\ f.pkt.probe \in Probe
      /\ DefaultTtl \in Nat \ {0} /\ <<r, i>> \in Station
  <2>1. Arrived(r, i)
    BY DEF Receive, Local, Exceeded, Unreachable, Forward
  <2> QED
    BY <2>1, TakenTypes, PacketFields, HostAssumption DEF Station, Addr
<1>2. ASSUME NEW kind \in PacketKind, NEW src \in Station,
             Answer(r, i, i, f.mac, Packet(kind, src, f.pkt.src, DefaultTtl, f.pkt.probe))
      PROVE  AllOne'
  <2> DEFINE pkt == Packet(kind, src, f.pkt.src, DefaultTtl, f.pkt.probe)
  <2> HIDE DEF f
  <2>1. pkt \in Packets /\ pkt.probe = f.pkt.probe
    BY <1>1, MadePacket DEF Packet
  <2> HIDE DEF pkt
  <2>2. Answer(r, i, i, f.mac, pkt)
    BY <1>2 DEF pkt
  <2> QED
    BY <1>1, <2>1, <2>2, AnswerOne DEF f
<1>3. {"reply", "exceeded", "unreachable"} \subseteq PacketKind
  BY DEF PacketKind
<1>4. CASE Local(r, i)
  <2>1. Answer(r, i, i, f.mac, Packet("reply", f.pkt.dst, f.pkt.src, DefaultTtl, f.pkt.probe))
        \/ Discard(r, i)
    BY <1>4 DEF Local
  <2> HIDE DEF f
  <2> QED
    BY <1>1, <1>2, <1>3, <2>1, DiscardOne
<1>5. CASE Exceeded(r, i) \/ Unreachable(r, i)
  <2>1. PICK kind \in {"exceeded", "unreachable"} :
           Answer(r, i, i, f.mac, Packet(kind, <<r, i>>, f.pkt.src, DefaultTtl, f.pkt.probe))
    BY <1>5 DEF Exceeded, Unreachable, Error
  <2> HIDE DEF f
  <2> QED
    BY <1>1, <1>2, <1>3, <2>1
<1>6. CASE Forward(r, i)
  <2> DEFINE next == NextHop(r, f.pkt.dst)
  <2>1. ~Expired(f.pkt) /\ Subnet(f.pkt.dst) \in DOMAIN table[r]
        /\ (Answer(r, i, next[1], next[2], Forwarded(f.pkt)) \/ Discard(r, i))
    BY <1>6 DEF Forward
  <2>2. next[1] \in Iface /\ next[2] \in Station
    BY <1>1, <2>1, NextHopTypes
  <2>3. Forwarded(f.pkt) \in Packets /\ Forwarded(f.pkt).probe = f.pkt.probe
    BY <1>1, <2>1, ForwardedTypes DEF Forwarded, Packets
  <2> HIDE DEF next
  <2> QED
    BY <1>1, <2>1, <2>2, <2>3, AnswerOne, DiscardOne
<1> QED
  BY <1>4, <1>5, <1>6 DEF Receive

LEMMA InitOne == Init => AllOne
BY DEF Init, AllOne, One, OneFrame, OnePacket, NotBoth, Air

LEMMA NextOne == ASSUME TwoStations PROVE Types /\ AllOne /\ [Next]_vars => AllOne'
<1> SUFFICES ASSUME Types, AllOne, [Next]_vars PROVE AllOne'
  OBVIOUS
<1>1. ASSUME NEW p \in Probe, Send(p) PROVE AllOne'
  BY <1>1, SendOne
<1>2. ASSUME NEW r \in Router, NEW i \in Iface, Receive(r, i) PROVE AllOne'
  BY <1>2, ReceiveOne
<1>3. ASSUME NEW r \in Router, NEW i \in Iface, Damaged(r, i) PROVE AllOne'
  BY <1>3, DiscardOne DEF Damaged
<1>4. CASE UNCHANGED <<rx, inbox>>
  BY <1>4 DEF AllOne
<1>5. ASSUME NEW r \in Router, NEW i \in Iface, NEW a \in Station, ArpReply(r, i, a)
      PROVE  UNCHANGED <<rx, inbox>>
  BY <1>5 DEF ArpReply
<1>6. ASSUME NEW r \in Router, Reroute(r) PROVE UNCHANGED <<rx, inbox>>
  BY <1>6 DEF Reroute
<1> QED
  BY <1>1, <1>2, <1>3, <1>4, <1>5, <1>6 DEF Next, vars, Station

\* Where every link joins two stations, a probe never multiplies, although every
\* router takes every frame it hears, whatever RIP makes of the tables.
THEOREM NeverMultiplied == ASSUME TwoStations PROVE Spec => []OneCopy
BY InitTypes, NextTypes, InitOne, NextOne, AllOneOneCopy, PTL DEF Spec

-----------------------------------------------------------------------------
(***************************************************************************)
(* While the tables stay as they are, where a probe is and what is said    *)
(* about it agree with the path the tables give: the frame router n of the *)
(* path sends is heard by router n + 1 alone.                              *)
(***************************************************************************)

LEMMA Least ==
  ASSUME NEW T \in SUBSET Nat, T # {}
  PROVE  \E x \in T : \A y \in T : x <= y
<1>1. PICK x \in T : \A y \in T : <<y, x>> \notin OpToRel(<, Nat)
  BY WFMin, NatLessThanWellFounded, Zenon
<1>2. \A y \in T : ~(y < x)
  BY <1>1, Zenon DEF OpToRel
<1> QED
  BY <1>2

\* Hops for any tables t.
OnwardIn(t, r, dst) ==
  LET e == t[r][Subnet(dst)] IN <<e.if_index, IF e.nexthop = Direct THEN dst ELSE e.nexthop>>
First(p) == {s \in Router : \E j \in Iface : Attach[s][j] = HostLink[p.host]}
After(t, p, S) ==
  {s \in Router : \E r \in S :
     /\ ~ToMe(r, p) /\ Subnet(p.dst) \in DOMAIN t[r] /\ OnwardIn(t, r, p.dst)[2][1] = s}
HopsIn(t, p) ==
  LET hops[n \in 1 .. p.ttl] == IF n = 1 THEN First(p) ELSE After(t, p, hops[n - 1]) IN hops

\* The tables to start with.
Path(p) == HopsIn(Settled, p)

LEMMA HopsAre == table = Settled => \A p : Hops(p) = Path(p)
<1>1. \A p : Hops(p) = HopsIn(table, p)
  BY DEF Hops, HopsIn, First, After, OnwardIn, NextHop
<1> QED
  BY <1>1 DEF Path

LEMMA PathIs ==
  ASSUME NEW p \in Probe
  PROVE  /\ DOMAIN Path(p) = 1 .. p.ttl
         /\ Path(p)[1] = First(p)
         /\ \A n \in 2 .. p.ttl : Path(p)[n] = After(Settled, p, Path(p)[n - 1])
<1> DEFINE Is(f) == f = [n \in 1 .. p.ttl |->
                           IF n = 1 THEN First(p) ELSE After(Settled, p, f[n - 1])]
           Upto(s, m) == s[1] = First(p) /\ \A n \in 2 .. m : s[n] = After(Settled, p, s[n - 1])
           T == {m \in 1 .. p.ttl : ~\E s \in [1 .. p.ttl -> SUBSET Router] : Upto(s, m)}
<1>0. p.ttl \in Nat \ {0} /\ p.ttl \in 1 .. p.ttl
  BY Probes
<1>1. First(p) \in SUBSET Router /\ \A S : After(Settled, p, S) \in SUBSET Router
  BY DEF First, After
<1>2. T = {}
  <2> SUFFICES ASSUME T # {} PROVE FALSE
    OBVIOUS
  <2>1. PICK m \in T : \A k \in T : m <= k
    <3>1. T \in SUBSET Nat
      OBVIOUS
    <3> HIDE DEF T
    <3> QED
      BY <3>1, Least
  <2>2. CASE m = 1
    <3> DEFINE z == [n \in 1 .. p.ttl |-> First(p)]
    <3>1. z \in [1 .. p.ttl -> SUBSET Router] /\ z[1] = First(p)
      BY <1>0, <1>1
    <3>2. Upto(z, 1)
      BY <3>1
    <3> HIDE DEF z
    <3> QED
      BY <2>2, <3>1, <3>2
  <2>3. CASE m # 1
    <3>1. m - 1 \in 1 .. p.ttl /\ m - 1 < m /\ m \in 2 .. p.ttl /\ m \in Nat
      BY <2>3, <1>0
    <3>2. PICK s \in [1 .. p.ttl -> SUBSET Router] : Upto(s, m - 1)
      BY <2>1, <3>1
    <3> DEFINE u == [s EXCEPT ![m] = After(Settled, p, s[m - 1])]
    <3>3. u \in [1 .. p.ttl -> SUBSET Router]
      BY <1>1
    <3>4. u[m] = After(Settled, p, s[m - 1]) /\ \A n \in 1 .. m - 1 : u[n] = s[n]
      BY <3>1
    <3> HIDE DEF u
    <3>5. u[1] = First(p)
      BY <3>1, <3>2, <3>4
    <3>6. ASSUME NEW n \in 2 .. m PROVE u[n] = After(Settled, p, u[n - 1])
      <4>1. CASE n = m
        BY <3>1, <3>4, <4>1
      <4>2. CASE n # m
        <5>1. n \in 2 .. m - 1 /\ n \in 1 .. m - 1 /\ n - 1 \in 1 .. m - 1
          BY <3>1, <4>2
        <5> QED
          BY <3>2, <3>4, <5>1
      <4> QED
        BY <4>1, <4>2
    <3> QED
      BY <3>3, <3>5, <3>6
  <2> QED
    BY <2>2, <2>3
<1>3. PICK s \in [1 .. p.ttl -> SUBSET Router] : Upto(s, p.ttl)
  <2>1. p.ttl \notin T
    <3> HIDE DEF T
    <3> QED
      BY <1>2
  <2> QED
    BY <1>0, <2>1
<1>4. Is(s)
  <2> DEFINE rhs == [n \in 1 .. p.ttl |->
                       IF n = 1 THEN First(p) ELSE After(Settled, p, s[n - 1])]
  <2>1. ASSUME NEW n \in 1 .. p.ttl PROVE s[n] = rhs[n]
    <3>1. rhs[n] = IF n = 1 THEN First(p) ELSE After(Settled, p, s[n - 1])
      OBVIOUS
    <3>2. n = 1 \/ n \in 2 .. p.ttl
      BY <1>0
    <3> HIDE DEF rhs
    <3> QED
      BY <1>3, <3>1, <3>2
  <2>2. s = [n \in 1 .. p.ttl |-> s[n]] /\ rhs = [n \in 1 .. p.ttl |-> rhs[n]]
    OBVIOUS
  <2>3. s = rhs
    <3> HIDE DEF rhs
    <3> QED
      BY <2>1, <2>2
  <2> QED
    BY <2>3
<1>5. Is(Path(p))
  <2> DEFINE f == CHOOSE f : Is(f)
  <2>1. Is(f)
    <3> HIDE DEF Is
    <3> QED
      BY <1>4
  <2>2. Path(p) = f
    BY DEF Path, HopsIn
  <2> HIDE DEF Is, f
  <2> QED
    BY <2>1, <2>2
<1> DEFINE rhs == [n \in 1 .. p.ttl |->
                     IF n = 1 THEN First(p) ELSE After(Settled, p, Path(p)[n - 1])]
<1>6. /\ DOMAIN rhs = 1 .. p.ttl /\ rhs[1] = First(p)
      /\ \A n \in 2 .. p.ttl : rhs[n] = After(Settled, p, Path(p)[n - 1])
  BY <1>0
<1>7. Path(p) = rhs
  BY <1>5
<1> HIDE DEF rhs
<1> QED
  BY <1>6, <1>7

\* Once the path has ended it does not go on.
LEMMA PathEnds ==
  ASSUME NEW p \in Probe, NEW n \in 1 .. p.ttl, Path(p)[n] = {}
  PROVE  \A m \in n .. p.ttl : Path(p)[m] = {}
<1> DEFINE T == {m \in n .. p.ttl : Path(p)[m] # {}}
<1> SUFFICES ASSUME T # {} PROVE FALSE
  OBVIOUS
<1>0. p.ttl \in Nat
  BY Probes
<1>1. PICK m \in T : \A k \in T : m <= k
  <2>1. T \in SUBSET Nat
    OBVIOUS
  <2> HIDE DEF T
  <2> QED
    BY <2>1, Least
<1>2. m # n /\ m \in n .. p.ttl /\ Path(p)[m] # {}
  OBVIOUS
<1>3. m \in 2 .. p.ttl /\ m - 1 \in n .. p.ttl /\ m - 1 < m
  BY <1>0, <1>2
<1>4. Path(p)[m - 1] = {}
  BY <1>1, <1>3
<1>5. Path(p)[m] = After(Settled, p, {})
  BY <1>3, <1>4, PathIs
<1> QED
  BY <1>2, <1>5 DEF After

\* A router of the path whose next hop is on the link it is sent to is heard by the next
\* router of the path, or by a host behind which the path ends.
LEMMA PathGoesOn ==
  ASSUME TwoStations, NEW p \in Probe, NEW n \in 1 .. p.ttl - 1, NEW r \in Router,
         Path(p)[n] = {r}, ~ToMe(r, p), Subnet(p.dst) \in DOMAIN Settled[r],
         NEW i \in Iface, NEW a \in Station, OnwardIn(Settled, r, p.dst) = <<i, a>>,
         Subnet(a) = Attach[r][i]
  PROVE  /\ \A s \in Router, k \in Iface : Hears(s, k, r, i) => Path(p)[n + 1] = {s}
         /\ a[1] \in Host => Path(p)[n + 1] = {}
<1> DEFINE l == Attach[r][i]
           e == Settled[r][Subnet(p.dst)]
<1>1. Path(p)[n + 1] = {s \in Router : s = a[1]}
  <2>1. n + 1 \in 2 .. p.ttl /\ (n + 1) - 1 = n
    BY Probes
  <2>2. Path(p)[n + 1] = After(Settled, p, {r})
    BY <2>1, PathIs
  <2> QED
    BY <2>2 DEF After
<1>2. a[1] # r
  <2>1. a = IF e.nexthop = Direct THEN p.dst ELSE e.nexthop
    BY DEF OnwardIn
  <2>2. e.nexthop = Direct \/ e.nexthop[1] # r
    BY HostAssumption
  <2> QED
    BY <2>1, <2>2 DEF ToMe
<1>3. l \in Link /\ <<r, i>> \in Stations(l) /\ <<r, i>> # a
  BY <1>2, TopologyAssumption DEF Stations, Addr
<1>4. a \in Stations(l)
  <2>1. CASE a \in Addr
    <3>1. a[1] \in Router
      BY <2>1 DEF Addr
    <3>2. Subnet(a) = Attach[a[1]][a[2]]
      BY <3>1, HostAssumption DEF Subnet
    <3> QED
      BY <2>1, <3>2 DEF Stations
  <2>2. CASE a \in Host \X {0}
    <3>1. a[1] \in Host /\ a = <<a[1], 0>> /\ Subnet(a) = HostLink[a[1]]
      BY <2>2 DEF Subnet
    <3> QED
      BY <3>1 DEF Stations
  <2> QED
    BY <2>1, <2>2 DEF Station
<1>5. ASSUME NEW s \in Router, NEW k \in Iface, Hears(s, k, r, i)
      PROVE  Path(p)[n + 1] = {s}
  <2>1. <<s, k>> \in Stations(l) /\ <<s, k>> # <<r, i>>
    BY <1>5 DEF Stations, Hears, Addr
  <2>2. <<s, k>> = a
    BY <1>3, <1>4, <2>1, OtherStation
  <2> QED
    BY <1>1, <2>2
<1>6. a[1] \in Host => Path(p)[n + 1] = {}
  BY <1>1, HostAssumption
<1> QED
  BY <1>5, <1>6

-----------------------------------------------------------------------------
\* What a packet that says something about its probe p says is right: a reply comes from the
\* address asked, a time exceeded from the last router the TTL of p lets it get to, a net
\* unreachable from a router before that without a route.  What is said about such a
\* packet goes to a router.
Home(p) == <<p.host, 0>>
RightReply(pkt) ==
  LET p == pkt.probe IN
    pkt.dst = Home(p) /\ pkt.src = p.dst /\ pkt.src \in Addr /\ p.kind = "echo"
RightExceeded(pkt) ==
  LET p == pkt.probe IN
    \/ pkt.dst \in Addr
    \/ (pkt.dst = Home(p) /\ Path(p)[p.ttl] = {pkt.src[1]})
RightUnreachable(pkt) ==
  LET p == pkt.probe IN
    \/ pkt.dst \in Addr
    \/ (/\ pkt.dst = Home(p) /\ Subnet(p.dst) \notin DOMAIN Settled[pkt.src[1]]
        /\ \E n \in 1 .. p.ttl - 1 : pkt.src[1] \in Path(p)[n])
Telling(pkt) ==
  /\ pkt.kind = "reply" => RightReply(pkt)
  /\ pkt.kind = "exceeded" => pkt.src \in Addr /\ RightExceeded(pkt)
  /\ pkt.kind = "unreachable" => pkt.src \in Addr /\ RightUnreachable(pkt)

\* A packet that is its probe, at the router that is the n-th to see it, and where it ends.
Probing(pkt) == pkt.kind \in {"data", "echo"}
IsProbe(pkt) ==
  LET p == pkt.probe IN pkt.kind = p.kind /\ pkt.src = Home(p) /\ pkt.dst = p.dst
OnPath(p, n, s) ==
  n \in 1 .. p.ttl /\ Path(p)[n] = {s} /\ \A m \in 1 .. n : Path(p)[m] # {}
Place(pkt) == (pkt.probe.ttl - pkt.ttl) + 1
AtRouter(pkt, s) ==
  Telling(pkt) /\ (Probing(pkt) => IsProbe(pkt) /\ OnPath(pkt.probe, Place(pkt), s))
AtHost(pkt) ==
  /\ Telling(pkt)
  /\ Probing(pkt) =>
       LET p == pkt.probe IN
       IsProbe(pkt) /\ {n \in 1 .. p.ttl : Path(p)[n] # {}} = 1 .. p.ttl - pkt.ttl

AllRight(bufs, boxes) ==
  /\ \A s \in Router, k \in Iface : \A n \in DOMAIN bufs[s][k] : AtRouter(bufs[s][k][n].pkt, s)
  /\ \A h \in Host : \A pkt \in boxes[h] : AtHost(pkt)

\* While no table changes, all packets are right; ARP tables always are.
Steady == scenario.reroutes = 0 => table = Settled /\ AllRight(rx, inbox)
ArpRight == \A r \in Router : \A x \in arp[r] : OnLink(x[2], r, x[1])

\* What is left when a frame is taken is right, and what comes is if the frame is.
LEMMA TakenRight ==
  ASSUME Types, AllRight(rx, inbox), NEW r \in Router, NEW i \in Iface, Arrived(r, i)
  PROVE  /\ AllRight([rx EXCEPT ![r][i] = Tail(@)], inbox)
         /\ AtRouter(Head(rx[r][i]).pkt, r)
<1> DEFINE left == [rx EXCEPT ![r][i] = Tail(@)]
<1>1. rx[r][i] \in Seq(Frames) /\ rx[r][i] # <<>> /\ rx \in Buffers
  BY DEF Types, Buffers, Arrived
<1>2. 1 \in DOMAIN rx[r][i] /\ Head(rx[r][i]) = rx[r][i][1]
  BY <1>1, HeadTailProperties
<1>3. \A n \in DOMAIN Tail(rx[r][i]) :
        n + 1 \in DOMAIN rx[r][i] /\ Tail(rx[r][i])[n] = rx[r][i][n + 1]
  BY <1>1, HeadTailProperties
<1>4. ASSUME NEW s \in Router, NEW k \in Iface, NEW n \in DOMAIN left[s][k]
      PROVE  \E m \in DOMAIN rx[s][k] : left[s][k][n] = rx[s][k][m]
  <2>1. CASE s = r /\ k = i
    <3>1. left[s][k] = Tail(rx[r][i])
      BY <1>1, <2>1 DEF Buffers
    <3> HIDE DEF left
    <3> QED
      BY <1>3, <2>1, <3>1
  <2>2. CASE ~(s = r /\ k = i)
    <3>1. left[s][k] = rx[s][k]
      BY <1>1, <2>2 DEF Buffers
    <3> HIDE DEF left
    <3> QED
      BY <3>1
  <2> QED
    BY <2>1, <2>2
<1> HIDE DEF left
<1>5. AllRight(left, inbox)
  <2>1. ASSUME NEW s \in Router, NEW k \in Iface, NEW n \in DOMAIN left[s][k]
        PROVE  AtRouter(left[s][k][n].pkt, s)
    BY <1>4 DEF AllRight
  <2> QED
    BY <2>1 DEF AllRight
<1> QED
  BY <1>2, <1>5 DEF AllRight, left

LEMMA HeardRight ==
  ASSUME NEW bufs \in Buffers, NEW boxes, AllRight(bufs, boxes), NEW f \in Frames,
         NEW S \in SUBSET Addr, NEW H \in SUBSET Host,
         \A a \in S : AtRouter(f.pkt, a[1]), H # {} => AtHost(f.pkt)
  PROVE  AllRight(Heard(bufs, S, f), Taken(boxes, H, f.pkt))
<1> DEFINE after == Heard(bufs, S, f)
           boxes2 == Taken(boxes, H, f.pkt)
<1>1. ASSUME NEW s \in Router, NEW j \in Iface, NEW n \in DOMAIN after[s][j]
      PROVE  AtRouter(after[s][j][n].pkt, s)
  <2> DEFINE q == bufs[s][j]
  <2>1. q \in Seq(Frames)
    BY DEF Buffers
  <2>2. after[s][j] = IF <<s, j>> \in S THEN Append(q, f) ELSE q
    BY DEF Heard
  <2> HIDE DEF after
  <2>3. \A m \in DOMAIN q : AtRouter(q[m].pkt, s)
    BY DEF AllRight
  <2>4. CASE <<s, j>> \in S
    <3>1. n \in DOMAIN Append(q, f) /\ after[s][j][n] = Append(q, f)[n]
      BY <2>2, <2>4
    <3>2. Len(q) \in Nat /\ DOMAIN q = 1 .. Len(q) /\ DOMAIN Append(q, f) = 1 .. Len(q) + 1
          /\ (\A k \in 1 .. Len(q) : Append(q, f)[k] = q[k]) /\ Append(q, f)[Len(q) + 1] = f
      BY <2>1, AppendProperties
    <3> HIDE DEF q
    <3>3. n = Len(q) + 1 \/ n \in 1 .. Len(q)
      BY <3>1, <3>2
    <3>4. AtRouter(f.pkt, s)
      <4>1. <<s, j>>[1] = s
        OBVIOUS
      <4> QED
        BY <2>4, <4>1
    <3>5. CASE n = Len(q) + 1
      BY <3>1, <3>2, <3>4, <3>5
    <3>6. CASE n \in 1 .. Len(q)
      BY <2>3, <3>1, <3>2, <3>6
    <3> QED
      BY <3>3, <3>5, <3>6
  <2>5. CASE <<s, j>> \notin S
    BY <2>2, <2>3, <2>5
  <2> QED
    BY <2>4, <2>5
<1>2. ASSUME NEW h \in Host, NEW x \in boxes2[h] PROVE AtHost(x)
  BY <1>2 DEF Taken, AllRight
<1> HIDE DEF after, boxes2
<1>3. AllRight(after, boxes2)
  BY <1>1, <1>2 DEF AllRight
<1> QED
  BY <1>3 DEF after, boxes2

\* A packet that is right where it is heard and where it is delivered.
LEMMA AnswerRight ==
  ASSUME Types, AllRight(rx, inbox), NEW r \in Router, NEW i \in Iface, Arrived(r, i),
         NEW j \in Iface, NEW mac \in Station, NEW pkt \in Packets,
         Answer(r, i, j, mac, pkt),
         \A s \in Router, k \in Iface : Hears(s, k, r, j) => AtRouter(pkt, s),
         \A h \in Host : mac = <<h, 0>> /\ pkt.dst = mac => AtHost(pkt)
  PROVE  AllRight(rx', inbox')
<1> DEFINE left == [rx EXCEPT ![r][i] = Tail(@)]
           f == Frame(<<r, j>>, pkt)
           S == {a \in Addr : Hears(a[1], a[2], r, j)}
           H == {h \in Host : mac = <<h, 0>> /\ pkt.dst = mac /\ HostLink[h] = Attach[r][j]}
<1>1. left \in Buffers /\ f \in Frames /\ f.pkt = pkt
  BY TakenTypes, MadeFrame DEF Station, Addr, Frame
<1>2. rx' = Heard(left, S, f) /\ inbox' = Taken(inbox, H, f.pkt)
  <2>1. rx' = Captured(left, r, j, pkt) /\ inbox' = Delivered(r, j, mac, pkt)
    BY DEF Answer
  <2>2. \A s \in Router, k \in Iface : <<s, k>> \in S <=> Hears(s, k, r, j)
    BY DEF Addr
  <2> HIDE DEF left, f, S
  <2>3. Captured(left, r, j, pkt) = Heard(left, S, f)
    BY <2>2 DEF Captured, Heard, f
  <2>4. Delivered(r, j, mac, pkt) = Taken(inbox, H, pkt)
    BY DEF Delivered, Taken
  <2> QED
    BY <1>1, <2>1, <2>3, <2>4
<1>3. S \in SUBSET Addr /\ H \in SUBSET Host
  OBVIOUS
<1>4. \A a \in S : AtRouter(f.pkt, a[1])
  BY <1>1 DEF Addr
<1>5. H # {} => AtHost(f.pkt)
  BY <1>1
<1>6. AllRight(left, inbox)
  BY TakenRight
<1> HIDE DEF left, f, S, H
<1>7. AllRight(Heard(left, S, f), Taken(inbox, H, f.pkt))
  BY <1>1, <1>3, <1>4, <1>5, <1>6, HeardRight
<1> QED
  BY <1>2, <1>7

LEMMA DiscardRight ==
  ASSUME Types, AllRight(rx, inbox), NEW r \in Router, NEW i \in Iface, Arrived(r, i),
         Discard(r, i)
  PROVE  AllRight(rx', inbox')
BY TakenRight DEF Discard

\* What says something right is right wherever it is.
LEMMA TellingRight ==
  ASSUME NEW pkt, ~Probing(pkt), Telling(pkt)
  PROVE  AtHost(pkt) /\ \A s : AtRouter(pkt, s)
BY DEF AtHost, AtRouter

LEMMA TellRight ==
  ASSUME Types, AllRight(rx, inbox), NEW r \in Router, NEW i \in Iface, Arrived(r, i),
         NEW kind \in {"reply", "exceeded", "unreachable"}, NEW src \in Station,
         LET f == Head(rx[r][i])
             pkt == Packet(kind, src, f.pkt.src, DefaultTtl, f.pkt.probe)
         IN Answer(r, i, i, f.mac, pkt) /\ Telling(pkt)
  PROVE  AllRight(rx', inbox')
<1> DEFINE f == Head(rx[r][i])
           pkt == Packet(kind, src, f.pkt.src, DefaultTtl, f.pkt.probe)
<1>1. f.mac \in Station /\ f.pkt \in Packets /\ DefaultTtl \in Nat \ {0}
  BY TakenTypes, HostAssumption
<1>2. f.pkt.src \in Station /\ f.pkt.probe \in Probe
  BY <1>1, PacketFields
<1>3. pkt \in Packets
  BY <1>1, <1>2, MadePacket DEF PacketKind
<1>4. Answer(r, i, i, f.mac, pkt) /\ Telling(pkt)
  OBVIOUS
<1>5. ~Probing(pkt)
  BY DEF Probing, Packet
<1> HIDE DEF f, pkt
<1> QED
  BY <1>1, <1>3, <1>4, <1>5, TellingRight, AnswerRight

\* A router is not asked about what it says: it answers the sender of a probe, or a router.
LEMMA SourceIs ==
  ASSUME NEW pkt \in Packets, NEW s, AtRouter(pkt, s)
  PROVE  pkt.src \in Addr \/ (Probing(pkt) /\ pkt.src = Home(pkt.probe))
BY DEF Packets, PacketKind, AtRouter, Telling, RightReply, Probing, IsProbe

LEMMA LocalRight ==
  ASSUME Types, AllRight(rx, inbox), NEW r \in Router, NEW i \in Iface, Local(r, i)
  PROVE  AllRight(rx', inbox')
<1> DEFINE f == Head(rx[r][i])
           pkt == Packet("reply", f.pkt.dst, f.pkt.src, DefaultTtl, f.pkt.probe)
<1>1. Arrived(r, i) /\ ToMe(r, f.pkt)
  BY DEF Local
<1>2. f.pkt \in Packets /\ f.pkt.dst \in Station /\ AtRouter(f.pkt, r)
  BY <1>1, TakenTypes, TakenRight, PacketFields
<1>3. CASE f.pkt.kind = "echo" /\ Answer(r, i, i, f.mac, pkt)
  <2>1. f.pkt.dst \in Addr
    BY <1>1, <1>2, HostAssumption DEF ToMe, Station
  <2>2. IsProbe(f.pkt)
    BY <1>2, <1>3 DEF AtRouter, Probing
  <2>3. pkt.kind = "reply" /\ pkt.src = f.pkt.dst /\ pkt.dst = f.pkt.src
        /\ pkt.probe = f.pkt.probe
    BY DEF Packet
  <2>4. Telling(pkt)
    <3> HIDE DEF pkt
    <3> QED
      BY <1>3, <2>1, <2>2, <2>3 DEF Telling, RightReply, IsProbe
  <2> QED
    BY <1>1, <1>2, <1>3, <2>4, TellRight
<1>4. CASE Discard(r, i)
  BY <1>1, <1>4, DiscardRight
<1> QED
  BY <1>3, <1>4 DEF Local

\* A probe that a router takes, its TTL and how far it has come.
LEMMA ProbeAt ==
  ASSUME NEW pkt \in Packets, NEW r \in Router, AtRouter(pkt, r), Probing(pkt),
         NEW p, p = pkt.probe
  PROVE  /\ p \in Probe /\ p.ttl \in Nat /\ pkt.ttl \in Nat \ {0}
         /\ IsProbe(pkt) /\ pkt.dst = p.dst /\ pkt.src = Home(p)
         /\ Place(pkt) \in 1 .. p.ttl /\ Place(pkt) = (p.ttl - pkt.ttl) + 1
         /\ Path(p)[Place(pkt)] = {r} /\ \A m \in 1 .. Place(pkt) : Path(p)[m] # {}
BY PacketFields, Probes DEF AtRouter, IsProbe, OnPath, Place

LEMMA ExceededRight ==
  ASSUME Types, AllRight(rx, inbox), NEW r \in Router, NEW i \in Iface, Exceeded(r, i)
  PROVE  AllRight(rx', inbox')
<1> DEFINE f == Head(rx[r][i])
           p == f.pkt.probe
           pkt == Packet("exceeded", <<r, i>>, f.pkt.src, DefaultTtl, p)
<1>1. Arrived(r, i) /\ Expired(f.pkt) /\ Answer(r, i, i, f.mac, pkt)
  BY DEF Exceeded, Error
<1>2. f.pkt \in Packets /\ AtRouter(f.pkt, r)
  BY <1>1, TakenTypes, TakenRight
<1>3. pkt.kind = "exceeded" /\ pkt.src = <<r, i>> /\ pkt.dst = f.pkt.src /\ pkt.probe = p
  BY DEF Packet
<1>4. <<r, i>> \in Addr /\ <<r, i>> \in Station /\ <<r, i>>[1] = r
  BY DEF Addr, Station
<1>5. ASSUME Probing(f.pkt), f.pkt.src = Home(p) PROVE Path(p)[p.ttl] = {r}
  <2>1. /\ p.ttl \in Nat /\ f.pkt.ttl \in Nat \ {0} /\ Place(f.pkt) = (p.ttl - f.pkt.ttl) + 1
        /\ Path(p)[Place(f.pkt)] = {r}
    BY <1>2, <1>5, ProbeAt
  <2> HIDE DEF f, p, pkt
  <2>2. f.pkt.ttl = 1
    BY <1>1, <2>1 DEF Expired
  <2> QED
    BY <2>1, <2>2
<1>6. Telling(pkt)
  <2>1. RightExceeded(pkt)
    <3>1. f.pkt.src \in Addr \/ (Probing(f.pkt) /\ f.pkt.src = Home(p))
      BY <1>2, SourceIs
    <3> HIDE DEF pkt, f
    <3> QED
      BY <1>3, <1>4, <1>5, <3>1 DEF RightExceeded
  <2> HIDE DEF pkt, f
  <2> QED
    BY <1>3, <1>4, <2>1 DEF Telling
<1> QED
  BY <1>1, <1>4, <1>6, TellRight

LEMMA UnreachableRight ==
  ASSUME Types, AllRight(rx, inbox), table = Settled, NEW r \in Router, NEW i \in Iface,
         Unreachable(r, i)
  PROVE  AllRight(rx', inbox')
<1> DEFINE f == Head(rx[r][i])
           p == f.pkt.probe
           pkt == Packet("unreachable", <<r, i>>, f.pkt.src, DefaultTtl, p)
<1>1. /\ Arrived(r, i) /\ ~Expired(f.pkt) /\ Subnet(f.pkt.dst) \notin DOMAIN Settled[r]
      /\ Answer(r, i, i, f.mac, pkt)
  BY DEF Unreachable, Error
<1>2. f.pkt \in Packets /\ AtRouter(f.pkt, r)
  BY <1>1, TakenTypes, TakenRight
<1>3. pkt.kind = "unreachable" /\ pkt.src = <<r, i>> /\ pkt.dst = f.pkt.src /\ pkt.probe = p
  BY DEF Packet
<1>4. <<r, i>> \in Addr /\ <<r, i>> \in Station /\ <<r, i>>[1] = r
  BY DEF Addr, Station
<1>5. ASSUME Probing(f.pkt), f.pkt.src = Home(p)
      PROVE  /\ Subnet(p.dst) \notin DOMAIN Settled[r]
             /\ \E n \in 1 .. p.ttl - 1 : r \in Path(p)[n]
  <2>1. /\ p.ttl \in Nat /\ f.pkt.ttl \in Nat \ {0} /\ Place(f.pkt) = (p.ttl - f.pkt.ttl) + 1
        /\ Path(p)[Place(f.pkt)] = {r} /\ Place(f.pkt) \in 1 .. p.ttl /\ f.pkt.dst = p.dst
    BY ZenonT(60), <1>2, <1>5, ProbeAt
  <2> HIDE DEF f, p, pkt
  <2>2. f.pkt.ttl \in Nat /\ f.pkt.ttl > 1
    BY <1>1, <2>1 DEF Expired
  <2>3. Place(f.pkt) \in 1 .. p.ttl - 1
    BY <2>1, <2>2
  <2> QED
    BY <1>1, <2>1, <2>3
<1>6. Telling(pkt)
  <2>1. RightUnreachable(pkt)
    <3>1. f.pkt.src \in Addr \/ (Probing(f.pkt) /\ f.pkt.src = Home(p))
      BY <1>2, SourceIs
    <3> HIDE DEF pkt, f
    <3> QED
      BY <1>3, <1>4, <1>5, <3>1 DEF RightUnreachable
  <2> HIDE DEF pkt, f
  <2> QED
    BY <1>3, <1>4, <2>1 DEF Telling
<1> QED
  BY <1>1, <1>4, <1>6, TellRight

\* A packet forwarded along the path.
LEMMA ForwardedRight ==
  ASSUME TwoStations, NEW pkt \in Packets, NEW r \in Router, AtRouter(pkt, r), ~Expired(pkt),
         ~ToMe(r, pkt), Subnet(pkt.dst) \in DOMAIN Settled[r],
         NEW i \in Iface, NEW a \in Station, OnwardIn(Settled, r, pkt.dst) = <<i, a>>,
         OnLink(a, r, i)
  PROVE  /\ \A s \in Router, k \in Iface : Hears(s, k, r, i) => AtRouter(Forwarded(pkt), s)
         /\ a[1] \in Host => AtHost(Forwarded(pkt))
<1> DEFINE p == pkt.probe
           q == Forwarded(pkt)
           n == Place(pkt)
<1>1. /\ q.kind = pkt.kind /\ q.src = pkt.src /\ q.dst = pkt.dst /\ q.probe = p
      /\ q.ttl = pkt.ttl - 1
  BY DEF Forwarded, Packets
<1> HIDE DEF q
<1>2. Telling(pkt)
  BY DEF AtRouter
<1>3. Telling(q) /\ (Probing(q) <=> Probing(pkt)) /\ (IsProbe(q) <=> IsProbe(pkt))
  <2>1. RightReply(q) <=> RightReply(pkt)
    BY <1>1 DEF RightReply
  <2>2. RightExceeded(q) <=> RightExceeded(pkt)
    BY <1>1 DEF RightExceeded
  <2>3. RightUnreachable(q) <=> RightUnreachable(pkt)
    BY <1>1 DEF RightUnreachable
  <2>4. Telling(q)
    BY <1>1, <1>2, <2>1, <2>2, <2>3 DEF Telling
  <2> QED
    BY <1>1, <2>4 DEF Probing, IsProbe
<1>4. CASE ~Probing(pkt)
  BY <1>3, <1>4, TellingRight DEF q
<1>5. CASE Probing(pkt)
  <2>1. /\ p \in Probe /\ p.ttl \in Nat /\ pkt.ttl \in Nat \ {0}
        /\ IsProbe(pkt) /\ pkt.dst = p.dst
        /\ n \in 1 .. p.ttl /\ n = (p.ttl - pkt.ttl) + 1
        /\ Path(p)[n] = {r} /\ \A m \in 1 .. n : Path(p)[m] # {}
    BY <1>5, ProbeAt
  <2>2. n \in 1 .. p.ttl - 1 /\ n + 1 \in 1 .. p.ttl
    BY <2>1 DEF Expired
  <2>3. Place(q) = n + 1 /\ n = p.ttl - q.ttl
    BY <1>1, <2>1 DEF Place
  <2>4. ~ToMe(r, p)
    BY <2>1 DEF ToMe
  <2> HIDE DEF n, p
  <2>5. /\ \A s \in Router, k \in Iface : Hears(s, k, r, i) => Path(p)[n + 1] = {s}
        /\ a[1] \in Host => Path(p)[n + 1] = {}
    BY <2>1, <2>2, <2>4, PathGoesOn DEF OnLink
  <2>6. ASSUME NEW s \in Router, NEW k \in Iface, Hears(s, k, r, i) PROVE AtRouter(q, s)
    <3>1. Path(p)[n + 1] = {s}
      BY <2>5, <2>6
    <3>2. \A m \in 1 .. n + 1 : m = n + 1 \/ m \in 1 .. n
      BY <2>1
    <3>3. \A m \in 1 .. n + 1 : Path(p)[m] # {}
      BY <2>1, <3>1, <3>2
    <3>4. OnPath(p, n + 1, s)
      BY <2>2, <3>1, <3>3 DEF OnPath
    <3> QED
      BY <1>1, <1>3, <2>1, <2>3, <3>4 DEF AtRouter, p
  <2>7. ASSUME a[1] \in Host PROVE AtHost(q)
    <3>1. \A m \in n + 1 .. p.ttl : Path(p)[m] = {}
      BY <2>1, <2>2, <2>5, <2>7, PathEnds
    <3>2. \A m \in 1 .. p.ttl : m \in 1 .. n \/ m \in n + 1 .. p.ttl
      BY <2>1
    <3>3. 1 .. n \subseteq 1 .. p.ttl
      BY <2>1
    <3>4. {m \in 1 .. p.ttl : Path(p)[m] # {}} = 1 .. n
      BY <2>1, <3>1, <3>2, <3>3
    <3> QED
      BY <1>1, <1>3, <2>1, <2>3, <3>4 DEF AtHost, p
  <2> QED
    BY <2>6, <2>7 DEF q
<1> QED
  BY <1>4, <1>5

LEMMA ForwardRight ==
  ASSUME TwoStations, Types, AllRight(rx, inbox), table = Settled, ArpRight,
         NEW r \in Router, NEW i \in Iface, Forward(r, i)
  PROVE  AllRight(rx', inbox')
<1> DEFINE pkt == Head(rx[r][i]).pkt
           next == NextHop(r, pkt.dst)
<1>1. /\ Arrived(r, i) /\ ~ToMe(r, pkt) /\ ~Expired(pkt)
      /\ Subnet(pkt.dst) \in DOMAIN table[r]
  BY DEF Forward
<1>2. pkt \in Packets /\ pkt.dst \in Station /\ AtRouter(pkt, r)
  BY <1>1, TakenTypes, TakenRight, PacketFields
<1>3. next \in Iface \X Station /\ next[1] \in Iface /\ next[2] \in Station
  BY <1>1, <1>2, NextHopTypes
<1>4. CASE next \in arp[r] /\ Answer(r, i, next[1], next[2], Forwarded(pkt))
  <2>1. OnLink(next[2], r, next[1])
    BY <1>4 DEF ArpRight
  <2>2. OnwardIn(Settled, r, pkt.dst) = <<next[1], next[2]>>
    BY DEF OnwardIn, NextHop
  <2> HIDE DEF pkt, next
  <2>3. /\ \A s \in Router, k \in Iface : Hears(s, k, r, next[1]) => AtRouter(Forwarded(pkt), s)
        /\ next[2][1] \in Host => AtHost(Forwarded(pkt))
    BY <1>1, <1>2, <1>3, <2>1, <2>2, ForwardedRight
  <2>4. \A h \in Host : next[2] = <<h, 0>> => AtHost(Forwarded(pkt))
    BY <2>3
  <2>5. Forwarded(pkt) \in Packets
    BY <1>1, <1>2, ForwardedTypes
  <2> QED
    BY <1>1, <1>3, <1>4, <2>3, <2>4, <2>5, AnswerRight
<1>5. CASE Discard(r, i)
  BY <1>1, <1>5, DiscardRight
<1> QED
  BY <1>4, <1>5 DEF Forward

\* The router that hears a host is the first of the path.
LEMMA SendRight ==
  ASSUME TwoStations, Types, AllRight(rx, inbox), NEW p \in Probe, Send(p)
  PROVE  AllRight(rx', inbox')
<1> DEFINE src == <<p.host, 0>>
           pkt == Packet(p.kind, src, p.dst, p.ttl, p)
           f == Frame(src, pkt)
           l == HostLink[p.host]
           S == {a \in Addr : Attach[a[1]][a[2]] = l}
<1>1. src \in Station /\ p.kind \in {"data", "echo"} /\ p.kind \in PacketKind
      /\ p.dst \in Station /\ p.ttl \in Nat \ {0} /\ p.host \in Host
  BY Probes DEF Station, PacketKind
<1>2. f \in Frames /\ f.pkt = pkt
  <2>1. pkt \in Packets
    BY <1>1, MadePacket
  <2> QED
    BY <1>1, <2>1, MadeFrame DEF Frame
<1>3. rx' = Heard(rx, S, f) /\ inbox' = inbox
  <2>1. rx' = [s \in Router |-> [j \in Iface |->
          IF Attach[s][j] = HostLink[p.host] THEN Append(rx[s][j], f) ELSE rx[s][j]]]
    BY DEF Send
  <2>2. \A s \in Router, k \in Iface : <<s, k>> \in S <=> Attach[s][k] = HostLink[p.host]
    BY DEF Addr
  <2> HIDE DEF f, S
  <2>3. rx' = Heard(rx, S, f)
    BY <2>1, <2>2 DEF Heard
  <2> QED
    BY <2>3 DEF Send
<1>4. Taken(inbox, {}, f.pkt) = inbox
  <2>1. inbox \in [Host -> SUBSET Packets]
    BY DEF Types
  <2> HIDE DEF f
  <2> QED
    BY <2>1 DEF Taken
<1>5. ASSUME NEW a \in S PROVE AtRouter(pkt, a[1])
  <2>1. l \in Link /\ src \in Stations(l)
    BY <1>1, HostAssumption DEF Stations
  <2>2. \A b \in S : b \in Stations(l) /\ b # src
    <3> SUFFICES ASSUME NEW b \in S PROVE b \in Stations(l) /\ b # src
      OBVIOUS
    <3>1. b \in Addr /\ b \in Stations(l) /\ b[1] \in Router
      BY DEF Stations, Addr
    <3> QED
      BY <1>1, <3>1, HostAssumption
  <2>3. \A b \in S : b = a
    <3> HIDE DEF S, l, src
    <3> QED
      BY <2>1, <2>2, OtherStation
  <2>4. First(p) = {a[1]}
    <3>1. a[1] \in First(p)
      BY DEF First, Addr
    <3>2. ASSUME NEW s \in First(p) PROVE s = a[1]
      <4>1. PICK j \in Iface : Attach[s][j] = l
        BY <3>2 DEF First
      <4>2. <<s, j>> \in S
        BY <3>2, <4>1 DEF First, Addr
      <4>3. <<s, j>> = a
        BY <2>3, <4>2
      <4> QED
        BY <4>3
    <3> QED
      BY <3>1, <3>2
  <2>5. /\ pkt.kind = p.kind /\ pkt.src = src /\ pkt.dst = p.dst /\ pkt.ttl = p.ttl
        /\ pkt.probe = p
    BY DEF Packet
  <2>6. Place(pkt) = 1
    BY <1>1, <2>5 DEF Place
  <2>7. OnPath(p, 1, a[1])
    BY <1>1, <2>4, PathIs DEF OnPath
  <2> HIDE DEF pkt, S
  <2> QED
    BY <1>1, <2>5, <2>6, <2>7 DEF AtRouter, Telling, IsProbe, Home
<1>6. S \in SUBSET Addr /\ rx \in Buffers
  BY DEF Types
<1> HIDE DEF f, S
<1>7. AllRight(Heard(rx, S, f), Taken(inbox, {}, f.pkt))
  BY <1>2, <1>5, <1>6, HeardRight
<1> QED
  BY <1>3, <1>4, <1>7

LEMMA ArpReplyRight ==
  ASSUME Types, ArpRight, NEW r \in Router, NEW i \in Iface, NEW a \in Station,
         ArpReply(r, i, a)
  PROVE  ArpRight'
<1>1. arp' = [s \in Router |-> arp[s] \cup
        {<<j, b>> : j \in {k \in Iface : Attach[s][k] = Attach[r][i]}, b \in {a, <<r, i>>}}]
  BY DEF ArpReply
<1>2. Subnet(a) = Attach[r][i] /\ Subnet(<<r, i>>) = Attach[r][i]
  BY HostAssumption DEF ArpReply, OnLink, Subnet
<1>3. ASSUME NEW s \in Router, NEW x \in arp'[s] PROVE Subnet(x[2]) = Attach[s][x[1]]
  <2>1. x \in arp[s] \/ \E j \in {k \in Iface : Attach[s][k] = Attach[r][i]},
                           b \in {a, <<r, i>>} : x = <<j, b>>
    BY <1>1, <1>3
  <2> QED
    BY <1>2, <2>1 DEF ArpRight, OnLink
<1> QED
  BY <1>3 DEF ArpRight, OnLink, Subnet

LEMMA InitRight == Init => Steady /\ ArpRight
<1> SUFFICES ASSUME Init PROVE Steady /\ ArpRight
  OBVIOUS
<1>1. AllRight(rx, inbox)
  BY DEF Init, AllRight
<1>2. ASSUME NEW r \in Router, NEW x \in arp[r] PROVE OnLink(x[2], r, x[1])
  <2>1. PICK i \in Iface : x = <<i, <<r, i>>>>
    BY <1>2 DEF Init
  <2> QED
    BY <2>1, HostAssumption DEF OnLink, Subnet
<1> QED
  BY <1>1, <1>2 DEF Init, Steady, ArpRight

LEMMA NextRight ==
  ASSUME TwoStations PROVE Types /\ Steady /\ ArpRight /\ [Next]_vars => Steady' /\ ArpRight'
<1> SUFFICES ASSUME Types, Steady, ArpRight, [Next]_vars PROVE Steady' /\ ArpRight'
  OBVIOUS
<1>1. scenario' = scenario
  <2>1. ASSUME NEW p \in Probe, Send(p) PROVE scenario' = scenario
    BY <2>1 DEF Send
  <2>2. ASSUME NEW r \in Router, NEW i \in Iface, Receive(r, i) PROVE scenario' = scenario
    BY <2>2 DEF Receive, Local, Exceeded, Unreachable, Forward
  <2>3. ASSUME NEW r \in Router, NEW i \in Iface, Damaged(r, i) PROVE scenario' = scenario
    BY <2>3 DEF Damaged
  <2>4. ASSUME NEW r \in Router, NEW i \in Iface, NEW a, ArpReply(r, i, a)
        PROVE  scenario' = scenario
    BY <2>4 DEF ArpReply
  <2>5. ASSUME NEW r \in Router, Reroute(r) PROVE scenario' = scenario
    BY <2>5 DEF Reroute
  <2> QED
    BY <2>1, <2>2, <2>3, <2>4, <2>5 DEF Next, vars
<1>2. ArpRight'
  <2>1. CASE UNCHANGED arp
    BY <2>1 DEF ArpRight, OnLink, Subnet
  <2>2. ASSUME NEW r \in Router, NEW i \in Iface, NEW a \in Station, ArpReply(r, i, a)
        PROVE  ArpRight'
    BY <2>2, ArpReplyRight
  <2> QED
    BY ZenonT(60), <2>1, <2>2 DEF Next, vars, Send, Receive, Local, Exceeded, Unreachable, Forward,
                      Damaged, Reroute, Station
<1>3. ASSUME scenario.reroutes = 0 PROVE table' = Settled /\ AllRight(rx', inbox')
  <2>1. table = Settled /\ AllRight(rx, inbox)
    BY <1>3 DEF Steady
  <2>2. ASSUME NEW r \in Router PROVE ~Reroute(r)
    BY <1>3 DEF Types, Reroute
  <2>3. ASSUME NEW p \in Probe, Send(p) PROVE table' = Settled /\ AllRight(rx', inbox')
    BY <2>1, <2>3, SendRight DEF Send
  <2>4. ASSUME NEW r \in Router, NEW i \in Iface, Receive(r, i)
        PROVE  table' = Settled /\ AllRight(rx', inbox')
    <3>1. table' = table
      BY <2>4 DEF Receive, Local, Exceeded, Unreachable, Forward
    <3> QED
      BY <2>1, <2>4, <3>1, LocalRight, ExceededRight, UnreachableRight, ForwardRight
      DEF Receive
  <2>5. ASSUME NEW r \in Router, NEW i \in Iface, Damaged(r, i)
        PROVE  table' = Settled /\ AllRight(rx', inbox')
    BY <2>1, <2>5, DiscardRight DEF Damaged
  <2>6. CASE UNCHANGED <<table, rx, inbox>>
    BY <2>1, <2>6
  <2>7. ASSUME NEW r \in Router, NEW i \in Iface, NEW a \in Station, ArpReply(r, i, a)
        PROVE  UNCHANGED <<table, rx, inbox>>
    BY <2>7 DEF ArpReply
  <2> QED
    BY <2>2, <2>3, <2>4, <2>5, <2>6, <2>7 DEF Next, vars, Station
<1> QED
  BY <1>1, <1>2, <1>3 DEF Steady, AllRight, AtRouter, AtHost, Telling, RightReply

LEMMA SteadyRightAnswer == Types /\ Steady => RightAnswer
<1> SUFFICES ASSUME Types, Steady, scenario.reroutes = 0, NEW h \in Host, NEW pkt \in inbox[h]
             PROVE  LET p == pkt.probe
                        hops == Hops(p)
                    IN CASE pkt.kind = "exceeded" -> h = p.host /\ hops[p.ttl] = {pkt.src[1]}
                         [] pkt.kind = "unreachable" ->
                              /\ h = p.host /\ Subnet(p.dst) \notin DOMAIN table[pkt.src[1]]
                              /\ \E n \in DOMAIN hops : n < p.ttl /\ pkt.src[1] \in hops[n]
                         [] pkt.kind = "reply" -> h = p.host /\ pkt.src = p.dst /\ p.kind = "echo"
                         [] OTHER -> /\ <<h, 0>> = p.dst /\ pkt.kind = p.kind
                                     /\ {n \in DOMAIN hops : hops[n] # {}} = 1 .. p.ttl - pkt.ttl
  BY DEF RightAnswer
<1> DEFINE p == pkt.probe
<1>1. table = Settled /\ AtHost(pkt)
  BY DEF Steady, AllRight
<1>2. pkt \in Packets /\ p \in Probe /\ pkt.kind \in PacketKind /\ pkt.dst = <<h, 0>>
  BY PacketFields DEF Types
<1>3. Hops(p) = Path(p) /\ DOMAIN Path(p) = 1 .. p.ttl /\ p.ttl \in Nat
  BY <1>1, <1>2, HopsAre, PathIs, Probes
<1>4. pkt.dst \notin Addr
  BY <1>2, HostAssumption DEF Addr
<1>5. pkt.dst = Home(p) => h = p.host
  BY <1>2 DEF Home
<1>6. ASSUME pkt.kind = "exceeded" PROVE h = p.host /\ Path(p)[p.ttl] = {pkt.src[1]}
  BY <1>1, <1>4, <1>5, <1>6 DEF AtHost, Telling, RightExceeded
<1>7. ASSUME pkt.kind = "unreachable"
      PROVE  /\ h = p.host /\ Subnet(p.dst) \notin DOMAIN table[pkt.src[1]]
             /\ \E n \in DOMAIN Path(p) : n < p.ttl /\ pkt.src[1] \in Path(p)[n]
  <2>1. RightUnreachable(pkt)
    BY <1>1, <1>7 DEF AtHost, Telling
  <2>2. /\ pkt.dst = Home(p) /\ Subnet(p.dst) \notin DOMAIN Settled[pkt.src[1]]
        /\ \E n \in 1 .. p.ttl - 1 : pkt.src[1] \in Path(p)[n]
    BY <1>4, <2>1 DEF RightUnreachable
  <2>3. \A n \in 1 .. p.ttl - 1 : n \in 1 .. p.ttl /\ n < p.ttl
    BY <1>3
  <2> QED
    BY <1>1, <1>3, <1>5, <2>2, <2>3
<1>8. ASSUME pkt.kind = "reply" PROVE h = p.host /\ pkt.src = p.dst /\ p.kind = "echo"
  BY <1>1, <1>5, <1>8 DEF AtHost, Telling, RightReply
<1>9. ASSUME pkt.kind \in {"data", "echo"}
      PROVE  /\ <<h, 0>> = p.dst /\ pkt.kind = p.kind
             /\ {n \in DOMAIN Path(p) : Path(p)[n] # {}} = 1 .. p.ttl - pkt.ttl
  BY <1>1, <1>2, <1>3, <1>9 DEF AtHost, Probing, IsProbe
<1> HIDE DEF p
<1> QED
  BY <1>2, <1>3, <1>6, <1>7, <1>8, <1>9 DEF PacketKind, p

\* Where every link joins two stations and RIP has settled, ping and traceroute tell the
\* truth: what comes back to a host is what the path the tables give makes of the probe.
THEOREM RightAnswers == ASSUME TwoStations PROVE Spec => []RightAnswer
BY InitTypes, NextTypes, InitRight, NextRight, SteadyRightAnswer, PTL DEF Spec

=============================================================================
