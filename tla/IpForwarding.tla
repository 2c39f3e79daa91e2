---------------------------- MODULE IpForwarding ----------------------------
(***************************************************************************)
(* What the loop of Homework/router/main.cpp does with IP packets that are *)
(* not RIP: echo requests to the router itself, packets to forward, and    *)
(* the ICMP errors about them.  RIP is seen from outside here: a table may *)
(* change to anything RipNetwork does not rule out, stale interfaces and   *)
(* loops included, but direct routes stay.                                 *)
(*                                                                         *)
(* Hosts send probes and keep each other company on the links; all subnets *)
(* are /24, so the table is asked for the subnet of the destination.  A    *)
(* host sends a probe again when it got no answer and nothing of the probe *)
(* is under way any more.                                                  *)
(***************************************************************************)
EXTENDS RipTable

CONSTANTS
  Host,        \* stations that are not routers; their interface is number 0
  HostLink,    \* HostLink[h]: the link of host h
  Scenario,    \* records probes: the packets hosts send (host, kind, dst, ttl);
               \* reroutes, losses: bounds on the changes of tables by RIP and on
               \* the packets that fail validateIPChecksum
  DefaultTtl,  \* TTL of the packets a router makes itself, 64 in the code
  Settled      \* the tables to start with

Probe == UNION {s.probes : s \in Scenario}

ASSUME HostAssumption ==
  /\ Host \cap Router = {}
  /\ HostLink \in [Host -> Link]
  /\ Probe \subseteq [host : Host, kind : {"data", "echo"},
                      dst : Addr \cup Host \X {0}, ttl : Nat \ {0}]
  /\ DefaultTtl \in Nat \ {0}
  /\ DOMAIN Settled = Router /\ \A r \in Router : IsRoutingTable(Settled[r])
  /\ \A r \in Router : \A q \in DOMAIN Settled[r] :     \* no router hears itself
       LET a == Settled[r][q].nexthop IN a = Direct \/ a[1] # r
  /\ Infinity >= 3                  \* a route through a neighbour has metric 2
  /\ \A s \in Scenario : s.reroutes \in Nat /\ s.losses \in Nat

VARIABLES
  scenario,   \* what happens in this behaviour, chosen at the start
  table,      \* table[r]: routerTable
  rx,         \* rx[r][i]: frames captured on interface i
  arp,        \* arp[r]: arp_table, the pairs (interface, address) it holds
  asked,      \* asked[r]: addresses r has sent an ARP request for
  inbox,      \* inbox[h]: packets host h received
  reroutes,   \* changes of tables so far
  losses      \* damaged packets so far

vars == <<scenario, table, rx, arp, asked, inbox, reroutes, losses>>

\* The subnet an address is in.
Subnet(a) == IF a[1] \in Host THEN HostLink[a[1]] ELSE Attach[a[1]][a[2]]

Packet(kind, src, dst, ttl, probe) ==
  [kind |-> kind, src |-> src, dst |-> dst, ttl |-> ttl, probe |-> probe]

\* The payload of a frame and the interface that sent it (src_mac).
Frame(mac, pkt) == [mac |-> mac, pkt |-> pkt]

InFlight == UNION {{rx[r][i][n].pkt : n \in DOMAIN rx[r][i]} : r \in Router, i \in Iface}

UnderWay(p) == \E pkt \in InFlight : pkt.probe = p

Answered(p) == \E h \in Host : \E pkt \in inbox[h] : pkt.probe = p

-----------------------------------------------------------------------------
(* Sending                                                                 *)

Captured_Bug(bufs, r, i, pkt) ==                        \* own frames not skipped
  [s \in Router |-> [j \in Iface |->
     IF Attach[s][j] = Attach[r][i]
       THEN Append(bufs[s][j], Frame(<<r, i>>, pkt)) ELSE bufs[s][j]]]

\* HAL_SendIPPacket: the routers on the link of interface i of r capture the
\* frame whatever its destination MAC is; a host takes it when it is the
\* destination of frame and packet.
Captured(bufs, r, i, pkt) ==
  [s \in Router |-> [j \in Iface |->
     IF Hears(s, j, r, i) THEN Append(bufs[s][j], Frame(<<r, i>>, pkt)) ELSE bufs[s][j]]]

Delivered(r, i, mac, pkt) ==
  [h \in Host |->
     IF mac = <<h, 0>> /\ pkt.dst = mac /\ HostLink[h] = Attach[r][i]
       THEN inbox[h] \cup {pkt} ELSE inbox[h]]

\* Router r takes a frame off interface i and sends pkt on interface j to mac.
Answer(r, i, j, mac, pkt) ==
  /\ rx' = Captured([rx EXCEPT ![r][i] = Tail(@)], r, j, pkt)
  /\ inbox' = Delivered(r, j, mac, pkt)

\* Router r takes a frame off interface i and sends nothing.
Discard(r, i) ==
  /\ rx' = [rx EXCEPT ![r][i] = Tail(@)]
  /\ UNCHANGED inbox

-----------------------------------------------------------------------------
(* The loop of main                                                        *)

Init ==
  /\ scenario \in Scenario
  /\ table = Settled
  /\ rx = [r \in Router |-> [i \in Iface |-> <<>>]]
  /\ arp = [r \in Router |-> {<<i, <<r, i>>>> : i \in Iface}]
  /\ asked = [r \in Router |-> {}]
  /\ inbox = [h \in Host |-> {}]
  /\ reroutes = 0
  /\ losses = 0

\* A host sends a probe for the first time, or again.
Send(p) ==
  /\ p \in scenario.probes /\ ~UnderWay(p) /\ ~Answered(p)
  /\ LET src == <<p.host, 0>> IN
       rx' = [s \in Router |-> [j \in Iface |->
         IF Attach[s][j] = HostLink[p.host]
           THEN Append(rx[s][j], Frame(src, Packet(p.kind, src, p.dst, p.ttl, p)))
           ELSE rx[s][j]]]
  /\ UNCHANGED <<scenario, table, arp, asked, inbox, reroutes, losses>>

Arrived(r, i) == rx[r][i] # <<>>

ToMe(r, pkt) == pkt.dst[1] = r

\* A packet to one of the router's addresses: only an echo request is answered.
Local(r, i) ==
  /\ Arrived(r, i)
  /\ LET f == Head(rx[r][i]) IN
       /\ ToMe(r, f.pkt)
       /\ IF f.pkt.kind = "echo"
            THEN Answer(r, i, i, f.mac,
                        Packet("reply", f.pkt.dst, f.pkt.src, DefaultTtl, f.pkt.probe))
            ELSE Discard(r, i)
  /\ UNCHANGED <<scenario, table, arp, asked, reroutes, losses>>

\* sendIcmp: an error about the packet goes back to the interface it came from.
Error(r, i, kind) ==
  LET f == Head(rx[r][i]) IN
    Answer(r, i, i, f.mac, Packet(kind, <<r, i>>, f.pkt.src, DefaultTtl, f.pkt.probe))

Expired_Bug1(pkt) == pkt.ttl < 1                         \* off by one
Expired_Bug2(pkt) == FALSE                               \* never looked at
Expired(pkt) == pkt.ttl <= 1

Exceeded(r, i) ==
  /\ Arrived(r, i)
  /\ LET pkt == Head(rx[r][i]).pkt IN ~ToMe(r, pkt) /\ Expired(pkt)
  /\ Error(r, i, "exceeded")
  /\ UNCHANGED <<scenario, table, arp, asked, reroutes, losses>>

Unreachable(r, i) ==
  /\ Arrived(r, i)
  /\ LET pkt == Head(rx[r][i]).pkt IN
       ~ToMe(r, pkt) /\ ~Expired(pkt) /\ Subnet(pkt.dst) \notin DOMAIN table[r]
  /\ Error(r, i, "unreachable")
  /\ UNCHANGED <<scenario, table, arp, asked, reroutes, losses>>

NextHop_Bug(r, dst) ==                                   \* 0 taken for an address
  LET e == table[r][Subnet(dst)] IN <<e.if_index, e.nexthop>>

\* The interface and the next hop prefix_query finds, 0 standing for dst itself.
NextHop(r, dst) ==
  LET e == table[r][Subnet(dst)] IN <<e.if_index, IF e.nexthop = Direct THEN dst ELSE e.nexthop>>

Forwarded_Bug(pkt) == pkt                                \* TTL not lowered

\* forward: the packet with a TTL one lower.
Forwarded(pkt) == [pkt EXCEPT !.ttl = @ - 1]

Forward(r, i) ==
  /\ Arrived(r, i)
  /\ LET pkt == Head(rx[r][i]).pkt IN
       /\ ~ToMe(r, pkt) /\ ~Expired(pkt) /\ Subnet(pkt.dst) \in DOMAIN table[r]
       /\ LET next == NextHop(r, pkt.dst) IN
            IF next \in arp[r]
              THEN /\ Answer(r, i, next[1], next[2], Forwarded(pkt))
                   /\ UNCHANGED asked
              ELSE /\ Discard(r, i)
                   /\ asked' = [asked EXCEPT ![r] = @ \cup {next}]
  /\ UNCHANGED <<scenario, table, arp, reroutes, losses>>

\* validateIPChecksum refuses a damaged packet.
Damaged(r, i) ==
  /\ Arrived(r, i)
  /\ losses < scenario.losses
  /\ Discard(r, i)
  /\ losses' = losses + 1
  /\ UNCHANGED <<scenario, table, arp, asked, reroutes>>

Receive(r, i) == Local(r, i) \/ Exceeded(r, i) \/ Unreachable(r, i) \/ Forward(r, i)

-----------------------------------------------------------------------------
(* The other stations                                                      *)

\* Whether the station with address a is on the link of interface i of r.
OnLink(a, r, i) == Subnet(a) = Attach[r][i]

\* An ARP request of r is answered, if the address exists on that link.  Every
\* router on the link hears both and learns both stations.
ArpReply(r, i, a) ==
  /\ <<i, a>> \in asked[r] /\ <<i, a>> \notin arp[r]
  /\ OnLink(a, r, i)
  /\ arp' = [s \in Router |-> arp[s] \cup
       {<<j, b>> : j \in {k \in Iface : Attach[s][k] = Attach[r][i]}, b \in {a, <<r, i>>}}]
  /\ asked' = [asked EXCEPT ![r] = @ \ {<<i, a>>}]
  /\ UNCHANGED <<scenario, table, rx, inbox, reroutes, losses>>

\* RIP loses the route to a subnet that is not the router's own, or gives it the
\* address of some neighbour as next hop and some interface.
OwnSubnets(r) == {Attach[r][i] : i \in Iface}

Reroute(r) ==
  /\ reroutes < scenario.reroutes
  /\ \E p \in Prefix \ OwnSubnets(r) :
       \/ table' = [table EXCEPT ![r] = [q \in DOMAIN @ \ {p} |-> @[q]]]
       \/ \E i, k \in Iface, s \in Router, j \in Iface :
            /\ Hears(s, j, r, k)
            /\ table' = [table EXCEPT ![r] = [q \in DOMAIN @ \cup {p} |->
                 IF q = p THEN [if_index |-> i, nexthop |-> <<s, j>>, metric |-> 2] ELSE @[q]]]
  /\ reroutes' = reroutes + 1
  /\ UNCHANGED <<scenario, rx, arp, asked, inbox, losses>>

Next ==
  \/ \E p \in Probe : Send(p)
  \/ \E r \in Router, i \in Iface : Receive(r, i) \/ Damaged(r, i)
  \/ \E r \in Router, i \in Iface, a \in Addr \cup Host \X {0} : ArpReply(r, i, a)
  \/ \E r \in Router : Reroute(r)

\* The loop keeps polling, stations answer ARP, hosts repeat their probes.
Fairness ==
  /\ \A p \in Probe : WF_vars(Send(p))
  /\ \A r \in Router, i \in Iface : WF_vars(Receive(r, i))
  /\ \A r \in Router, i \in Iface : WF_vars(\E a \in Addr \cup Host \X {0} : ArpReply(r, i, a))

Spec == Init /\ [][Next]_vars
FairSpec == Spec /\ Fairness

-----------------------------------------------------------------------------
(* Properties                                                              *)

IsPacket(pkt) ==
  /\ pkt.kind \in {"data", "echo", "reply", "exceeded", "unreachable"}
  /\ pkt.src \in Addr \cup Host \X {0} /\ pkt.dst \in Addr \cup Host \X {0}
  /\ pkt.ttl \in Nat \ {0}
  /\ pkt.probe \in Probe

\* Every variable has its type; no packet on a link has a TTL of 0.
TypeOK ==
  /\ \A r \in Router : IsRoutingTable(table[r])
  /\ \A pkt \in InFlight : IsPacket(pkt)
  /\ \A r \in Router : \A x \in arp[r] \cup asked[r] : x \in Iface \X (Addr \cup Host \X {0})
  /\ \A h \in Host : \A pkt \in inbox[h] : IsPacket(pkt) /\ pkt.dst = <<h, 0>>
  /\ reroutes \in 0 .. scenario.reroutes
  /\ losses \in 0 .. scenario.losses

\* The packets on the links and in the inboxes that stem from probe p.
Copies(p) ==
  Cardinality(UNION {{<<r, i, n>> : n \in {k \in DOMAIN rx[r][i] : rx[r][i][k].pkt.probe = p}}
                       : r \in Router, i \in Iface})
    + Cardinality(UNION {{<<h, pkt>> : pkt \in {q \in inbox[h] : q.probe = p}} : h \in Host})

\* The stations on link l, and networks in which links join two.
Stations(l) == {a \in Addr : Attach[a[1]][a[2]] = l} \cup {<<h, 0>> : h \in {g \in Host : HostLink[g] = l}}
TwoStations == \A l \in Link : \A a, b, c \in Stations(l) : a = b \/ a = c \/ b = c

\* Between two stations on every link a probe never multiplies, although every
\* router takes every frame it hears: it is forwarded or answered, never both,
\* and an error is never in the network together with what it is about.
OneCopy == \A p \in Probe : Copies(p) <= 1

\* Whatever the tables are and become, a packet with its answers, and the errors
\* about those, leaves the links again: routing loops and retries end.
Drains == \A p \in Probe : []<>~UnderWay(p)

\* Hops(p)[n]: the router that is the n-th to see probe p, if any, as {} or {r}; no
\* more routers see it than its TTL allows.
Hops(p) ==
  LET hops[n \in 1 .. p.ttl] ==
        IF n = 1 THEN {s \in Router : \E j \in Iface : Attach[s][j] = HostLink[p.host]}
        ELSE {s \in Router : \E r \in hops[n - 1] :
                /\ ~ToMe(r, p) /\ Subnet(p.dst) \in DOMAIN table[r]
                /\ NextHop(r, p.dst)[2][1] = s}
  IN hops

\* When the tables have settled and stay, ping and traceroute tell the truth.  A probe
\* reaches its host with one off its TTL for every router on the way, an echo
\* reply comes from the address that was asked, a time exceeded from the router
\* as many hops away as the TTL of the probe was, and a net unreachable from a
\* router on the way that has no route.
RightAnswer ==
  scenario.reroutes = 0 => \A h \in Host : \A pkt \in inbox[h] :
    LET p == pkt.probe
        hops == Hops(p)
    IN CASE pkt.kind = "exceeded" -> h = p.host /\ hops[p.ttl] = {pkt.src[1]}
         [] pkt.kind = "unreachable" ->
              /\ h = p.host /\ Subnet(p.dst) \notin DOMAIN table[pkt.src[1]]
              /\ \E n \in DOMAIN hops : n < p.ttl /\ pkt.src[1] \in hops[n]
         [] pkt.kind = "reply" -> h = p.host /\ pkt.src = p.dst /\ p.kind = "echo"
         [] OTHER -> /\ <<h, 0>> = p.dst /\ pkt.kind = p.kind
                     /\ {n \in DOMAIN hops : hops[n] # {}} = 1 .. p.ttl - pkt.ttl

\* When the tables have settled and stay, every probe gets through or gets its answer in
\* the end, although a packet whose next hop is not in the ARP table is dropped.
AllAnswered ==
  <>(scenario.reroutes > 0 \/ \A p \in scenario.probes : Answered(p))

=============================================================================
