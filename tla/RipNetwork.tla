----------------------------- MODULE RipNetwork -----------------------------
(***************************************************************************)
(* Routers running Homework/router/main.cpp, joined by Ethernet links.     *)
(*                                                                         *)
(* A router is one thread: it boots (direct routes, then one RIP request   *)
(* per interface) and then loops over "has the 5 s timer expired" and      *)
(* "receive one packet".  Both orders of the two happen, so the timer and  *)
(* the handlers are actions of their own; the 5 s are not counted.  The    *)
(* frames that wait in the capture buffer of an interface are a queue.     *)
(* Which port is polled first is left open: a router may take the oldest   *)
(* frame of any of its interfaces.                                         *)
(*                                                                         *)
(* Only the subnets in Prefix are tracked: the handlers treat every key on *)
(* its own, so the others can be left out.                                 *)
(***************************************************************************)
EXTENDS RipTable

CONSTANTS
  Distance,   \* Distance[r][p]: hops from r to the subnet p, 1 when direct
  QueueCap,   \* frames the capture buffer of an interface holds
  MaxCrash,   \* bound: how often routers crash, altogether
  MaxLoss     \* bound: how many frames the links lose, altogether

BoundAssumption ==
  QueueCap \in Nat \ {0} /\ MaxCrash \in Nat /\ MaxLoss \in Nat

\* Distance is the hop count in the graph of the routers and links.
DistanceAssumption ==
  /\ Distance \in [Router -> [Prefix -> Nat \ {0}]]
  /\ \A r \in Router, p \in Prefix :
       /\ Distance[r][p] = 1 <=> \E i \in Iface : Attach[r][i] = p
       /\ \A s \in Router : Neighbours(r, s) => Distance[r][p] <= Distance[s][p] + 1
       /\ Distance[r][p] > 1 =>
            \E s \in Router : Neighbours(r, s) /\ Distance[r][p] = Distance[s][p] + 1

ASSUME NetAssumption == BoundAssumption /\ DistanceAssumption

VARIABLES
  up,         \* up[r]: the program runs on router r
  table,      \* table[r]: routerTable
  rx,         \* rx[r][i]: packets in the capture buffer of interface i
  crashes,    \* crashes so far
  losses      \* frames lost so far

vars == <<up, table, rx, crashes, losses>>

Request == [type |-> "request"]

Response(from, es) == [type |-> "response", from |-> from, entries |-> es]

IsMessage(m) ==
  \/ m = Request
  \/ \E from \in Addr : m = Response(from, m.entries) /\ IsRipEntries(m.entries)

-----------------------------------------------------------------------------
(* The wire                                                                *)

\* The buffer q after the packets ms arrived; what finds it full is dropped.
Enqueue(q, ms) ==
  IF Len(q) + Len(ms) <= QueueCap THEN q \o ms ELSE SubSeq(q \o ms, 1, QueueCap)

\* Buffers `bufs` after router r sent the packets out[i] on every interface i.
\* A router that is down captures nothing.
Transmit(bufs, r, out) ==
  [s \in Router |-> [j \in Iface |->
     IF up[s] /\ \E i \in Iface : Hears(s, j, r, i)
       THEN Enqueue(bufs[s][j], out[CHOOSE i \in Iface : Hears(s, j, r, i)])
       ELSE bufs[s][j]]]

\* Buffers `bufs` without the n-th packet of interface i of router r.
Remove(q, n) == SubSeq(q, 1, n - 1) \o SubSeq(q, n + 1, Len(q))

Without(bufs, r, i, n) == [bufs EXCEPT ![r][i] = Remove(@, n)]

RipResponses_Bug(r, ports) ==                                \* one source address
  [i \in Iface |->
     IF i \in ports
       THEN [n \in DOMAIN Responses(table[r], i) |->
               Response(<<r, 0>>, Responses(table[r], i)[n])]
       ELSE <<>>]

\* sendRipResp: the table of r to the interfaces in ports, every packet from
\* the address of the interface it leaves.
RipResponses(r, ports) ==
  [i \in Iface |->
     IF i \in ports
       THEN [n \in DOMAIN Responses(table[r], i) |->
               Response(<<r, i>>, Responses(table[r], i)[n])]
       ELSE <<>>]

-----------------------------------------------------------------------------
(* The routers                                                             *)

DirectRoutes(r) ==
  [p \in {Attach[r][i] : i \in Iface} \cap Prefix |->
     [if_index |-> CHOOSE i \in Iface : Attach[r][i] = p,
      nexthop  |-> Direct,
      metric   |-> 1]]

Init ==
  /\ up = [r \in Router |-> FALSE]
  /\ table = [r \in Router |-> <<>>]
  /\ rx = [r \in Router |-> [i \in Iface |-> <<>>]]
  /\ crashes = 0
  /\ losses = 0

\* main up to its loop: direct routes, then a request on every interface.
Boot(r) ==
  /\ ~up[r]
  /\ up' = [up EXCEPT ![r] = TRUE]
  /\ table' = [table EXCEPT ![r] = DirectRoutes(r)]
  /\ rx' = Transmit(rx, r, [i \in Iface |-> <<Request>>])
  /\ UNCHANGED <<crashes, losses>>

\* The periodic update: the whole table to every interface.
Timer(r) ==
  /\ up[r]
  /\ rx' = Transmit(rx, r, RipResponses(r, Iface))
  /\ UNCHANGED <<up, table, crashes, losses>>

\* A request for the whole table is answered on the interface it came from.
HandleRequest(r, i) ==
  /\ up[r] /\ rx[r][i] # <<>>
  /\ Head(rx[r][i]).type = "request"
  /\ rx' = Transmit(Without(rx, r, i, 1), r, RipResponses(r, {i}))
  /\ UNCHANGED <<up, table, crashes, losses>>

\* A response is worked into the table; nothing is sent (no triggered update).
HandleResponse(r, i) ==
  /\ up[r] /\ rx[r][i] # <<>>
  /\ LET m == Head(rx[r][i]) IN
       /\ m.type = "response"
       /\ table' = [table EXCEPT ![r] = Learn(@, i, m.from, m.entries)]
  /\ rx' = Without(rx, r, i, 1)
  /\ UNCHANGED <<up, crashes, losses>>

Receive(r, i) == HandleRequest(r, i) \/ HandleResponse(r, i)

\* The program ends or its host dies: table and buffers are gone.
Crash(r) ==
  /\ up[r] /\ crashes < MaxCrash
  /\ up' = [up EXCEPT ![r] = FALSE]
  /\ table' = [table EXCEPT ![r] = <<>>]
  /\ rx' = [rx EXCEPT ![r] = [i \in Iface |-> <<>>]]
  /\ crashes' = crashes + 1
  /\ UNCHANGED losses

\* A frame is lost on the link, or damaged there and refused by
\* validateIPChecksum, which drops the packet.
Lose(r, i) ==
  /\ losses < MaxLoss
  /\ \E n \in DOMAIN rx[r][i] : rx' = Without(rx, r, i, n)
  /\ losses' = losses + 1
  /\ UNCHANGED <<up, table, crashes>>

Next ==
  \/ \E r \in Router : Boot(r) \/ Timer(r) \/ Crash(r)
  \/ \E r \in Router, i \in Iface : Receive(r, i) \/ Lose(r, i)

\* A router that is down is started again, the 5 s timer keeps expiring, and
\* the loop polls every port often enough to take what waits there.
Fairness ==
  /\ \A r \in Router : WF_vars(Boot(r)) /\ WF_vars(Timer(r))
  /\ \A r \in Router, i \in Iface : WF_vars(Receive(r, i))

Spec == Init /\ [][Next]_vars
FairSpec == Spec /\ Fairness

-----------------------------------------------------------------------------
(* Properties                                                              *)

IsBuffer(q) ==
  /\ q \in Seq({q[n] : n \in DOMAIN q}) /\ Len(q) <= QueueCap
  /\ \A n \in DOMAIN q : IsMessage(q[n])

\* Every variable has its type: a table holds live routes only (metrics
\* 1 .. 15), a buffer holds well-formed packets.
TypeOK ==
  /\ up \in [Router -> BOOLEAN]
  /\ DOMAIN table = Router /\ \A r \in Router : IsRoutingTable(table[r])
  /\ DOMAIN rx = Router
  /\ \A r \in Router : DOMAIN rx[r] = Iface /\ \A i \in Iface : IsBuffer(rx[r][i])
  /\ crashes \in 0 .. MaxCrash
  /\ losses \in 0 .. MaxLoss

\* A router that is down has no table.
DownEmpty == \A r \in Router : ~up[r] => table[r] = <<>>

\* A response in a buffer comes from another router on the same link.
FromNeighbour ==
  \A r \in Router, i \in Iface : \A n \in DOMAIN rx[r][i] :
    LET m == rx[r][i][n] IN
      m.type = "response" => Hears(r, i, m.from[1], m.from[2])

\* Whatever its neighbours announce, and in whatever order, a running router
\* keeps the routes to its own subnets as it made them at boot, and it takes
\* no other route for a direct one.
DirectRoutesKept ==
  \A r \in Router : up[r] =>
    /\ \A p \in DOMAIN DirectRoutes(r) :
         p \in DOMAIN table[r] /\ table[r][p] = DirectRoutes(r)[p]
    /\ \A p \in DOMAIN table[r] \ DOMAIN DirectRoutes(r) : table[r][p].nexthop # Direct

\* No table and no packet ever claims a subnet to be nearer than it is, however
\* old the packet: crashes, losses and stale announcements included.
NeverTooNear ==
  \A r \in Router :
    /\ \A p \in DOMAIN table[r] : table[r][p].metric >= Distance[r][p]
    /\ \A i \in Iface : \A n \in DOMAIN rx[r][i] :
         LET m == rx[r][i][n] IN
           m.type = "response" =>
             \A p \in DOMAIN m.entries :
               m.entries[p] < Infinity => m.entries[p] >= Distance[m.from[1]][p]

\* The inductive invariant behind the three: a route is as near as its sender
\* claimed plus one, so the claims in flight and who made them must be known.
IInv ==
  TypeOK /\ DownEmpty /\ FromNeighbour /\ DirectRoutesKept /\ NeverTooNear

\* The next hop of a route can be reached on the interface of the route: it is
\* the address of another router on that link.  Forwarding asks ARP for it there.
NexthopOnInterface ==
  \A r \in Router : \A p \in DOMAIN table[r] :
    LET e == table[r][p] IN
      e.nexthop # Direct => Hears(e.nexthop[1], e.nexthop[2], r, e.if_index)

\* Poisoned reverse: the router a route goes through is told, on every link it
\* shares with the owner of the route, that the subnet is unreachable this way.
PoisonedReverse ==
  \A r \in Router : \A p \in DOMAIN table[r] : \A i \in Iface :
    LET e == table[r][p] IN
      e.nexthop # Direct /\ (\E j \in Iface : Hears(e.nexthop[1], j, r, i))
        => Advertised(e, i) = Infinity

\* The router that r hands packets for p to, if any: {} or {s}.
NextRouter(r, p) ==
  {s \in Router : p \in DOMAIN table[r] /\ \E i \in Iface : table[r][p].nexthop = <<s, i>>}

\* Split horizon with poisoned reverse (main.cpp:264) is there to keep two
\* routers from taking each other's routes back.  Where two routers do hand each
\* other their packets for a subnet, each of them tells the other, on the link
\* between them, that the subnet is unreachable, so that the circle ends with
\* the next update.
PairsPoisoned ==
  \A r, s \in Router : \A p \in Prefix : \A i, j \in Iface :
    s \in NextRouter(r, p) /\ r \in NextRouter(s, p) /\ Hears(s, j, r, i)
      => Advertised(table[r][p], i) = Infinity

\* Following the next hops for a subnet from router to router one never goes in
\* a circle: in every set of routers one hands the packet to none of the set.
\* True where the links form no circle.
LoopFree ==
  \A p \in Prefix : \A S \in (SUBSET Router) \ {{}} :
    \E r \in S : NextRouter(r, p) \cap S = {}

\* Where they do, a router that comes back with an empty table may close a
\* circle; up to the first crash there is none, in whatever order the rival
\* announcements come, be interfaces stale or frames lost.
LoopFreeAtFirst == crashes = 0 => LoopFree

\* What keeps the next hops out of circles until the first crash.  A claim in a
\* buffer still holds of its sender, or was beaten by it since; of two claims
\* by one sender the later is not worse; a route is longer than the route of its
\* next hop, and than what that next hop has told since.
Held(bufs, tab) ==
  \A r \in Router, i \in Iface : \A n \in DOMAIN bufs[r][i] :
    LET m == bufs[r][i][n]
        sent == tab[m.from[1]]
    IN m.type = "response" => \A p \in DOMAIN m.entries :
         /\ p \in DOMAIN sent
         /\ IF sent[p].if_index = m.from[2]
              THEN m.entries[p] = Infinity
              ELSE m.entries[p] \in sent[p].metric .. Infinity - 1

Improving(bufs) ==
  \A r \in Router, i \in Iface : \A n, k \in DOMAIN bufs[r][i] :
    LET m == bufs[r][i][n]
        l == bufs[r][i][k]
    IN n < k /\ m.type = "response" /\ l.type = "response" /\ l.from = m.from
         => \A p \in DOMAIN m.entries \cap DOMAIN l.entries : l.entries[p] <= m.entries[p]

Chained(tab) ==
  \A r \in Router : \A p \in DOMAIN tab[r] :
    LET e == tab[r][p]
        next == tab[e.nexthop[1]]
    IN e.nexthop # Direct =>
         /\ p \in DOMAIN next
         /\ next[p].if_index # e.nexthop[2] /\ next[p].metric < e.metric

Nearing(bufs, tab) ==
  \A r \in Router, i \in Iface : \A n \in DOMAIN bufs[r][i] :
    LET m == bufs[r][i][n]
    IN m.type = "response" => \A p \in DOMAIN m.entries \cap DOMAIN tab[r] :
         tab[r][p].nexthop = m.from => m.entries[p] < tab[r][p].metric

Orderly(bufs, tab) ==
  Held(bufs, tab) /\ Improving(bufs) /\ Chained(tab) /\ Nearing(bufs, tab)

NearerInv == crashes = 0 => Orderly(rx, table)

\* As long as no router crashed, nothing that happens -- packets that overtake
\* each other on different links or get lost included -- makes a router give up
\* a route or take a longer one.
RoutesOnlyImprove ==
  [][crashes' = 0 => \A r \in Router : \A p \in DOMAIN table[r] :
       p \in DOMAIN table'[r] /\ table'[r][p].metric <= table[r][p].metric]_vars

\* Along `toward` every router has one interface that leads to p: its own if it
\* is on p; and unless a link is the way of r, it is the way of all others on it.
LeadsTo(toward) ==
  \A r \in Router, i \in Iface, p \in Prefix :
    /\ Attach[r][i] = p => toward[r][p] = i
    /\ toward[r][p] # i =>
         \A s \in Router, j \in Iface : Hears(s, j, r, i) => toward[s][p] = j

\* The routers and links form no circle: there is one way to every subnet.
NoCircle == \E toward \in [Router -> [Prefix -> Iface]] : LeadsTo(toward)

\* What makes that way the only one that is ever taken: routes follow it to a
\* next hop it leads on from, and it leads on from whoever claims a subnet.
OnTheWay(toward, tab) ==
  \A r \in Router : \A p \in DOMAIN tab[r] :
    LET e == tab[r][p] IN
      /\ e.if_index = toward[r][p]
      /\ e.nexthop # Direct => /\ Hears(e.nexthop[1], e.nexthop[2], r, e.if_index)
                               /\ toward[e.nexthop[1]][p] # e.nexthop[2]

ClaimedOnTheWay(toward, bufs) ==
  \A r \in Router, i \in Iface : \A n \in DOMAIN bufs[r][i] :
    LET m == bufs[r][i][n] IN
      m.type = "response" => \A p \in DOMAIN m.entries :
        m.entries[p] < Infinity => toward[m.from[1]][p] # m.from[2]

\* Crashes and losses stop in the end (they are bounded); then every router
\* comes to know for good exactly the subnets that are less than Infinity hops
\* away, at their true distance, although nothing is acknowledged or repeated
\* but the periodic update.
Converged ==
  \A r \in Router :
    /\ DOMAIN table[r] = {p \in Prefix : Distance[r][p] < Infinity}
    /\ \A p \in DOMAIN table[r] : table[r][p].metric = Distance[r][p]

Converges == <>[]Converged

\* Every router runs, no packet is under way, and what the routers would tell
\* each other next changes no table: without a crash it stays so for ever.
AtRest ==
  \A r \in Router : up[r] /\ \A i \in Iface :
    /\ rx[r][i] = <<>>
    /\ \A s \in Router, j \in Iface : Hears(s, j, r, i) =>
         LET told == [p \in DOMAIN table[r] |-> Advertised(table[r][p], i)]
         IN Learn(table[s], j, <<r, i>>, told) = table[s]

\* Tables come to rest only at the true distances: no route that a reboot made
\* longer than need be survives the updates that follow (main.cpp:294 has a
\* response update metric, interface and next hop alike).  Stale interfaces make
\* it false of four routers with a circle.
RightAtRest == AtRest => Converged

\* The packets of one periodic update list every route once, no packet is empty
\* and none holds more than RIP_MAX_ENTRY entries.
CompleteUpdate ==
  \A r \in Router, i \in Iface :
    LET out == Responses(table[r], i) IN
      /\ \A n \in DOMAIN out : Cardinality(DOMAIN out[n]) \in 1 .. MaxEntry
      /\ \A p \in DOMAIN table[r] : Cardinality({n \in DOMAIN out : p \in DOMAIN out[n]}) = 1

\* The network implements RouteService: a router believes the metric of its
\* route, and Infinity without one.
Believed ==
  [r \in Router |-> [p \in Prefix |->
     IF p \in DOMAIN table[r] THEN table[r][p].metric ELSE Infinity]]

Service == INSTANCE RouteService WITH metric <- Believed

ImplementsRouteService == Service!Spec

=============================================================================
