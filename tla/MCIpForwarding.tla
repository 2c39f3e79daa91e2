--------------------------- MODULE MCIpForwarding ---------------------------
(***************************************************************************)
(* Instances of IpForwarding: hosts 101 on link 11 and 103 on link 33, and *)
(* host 199 on a link no router has a route to.                            *)
(***************************************************************************)
EXTENDS IpForwarding, MCTopology

MCHostLink == [h \in Host |-> CASE h = 101 -> 11 [] h = 103 -> 33 [] OTHER -> 99]

\* Converged tables: the shortest way to every subnet.
Shortest ==
  [r \in Router |-> [p \in Prefix |->
     IF HopCount[r][p] = 1
       THEN [if_index |-> CHOOSE i \in Iface : Attach[r][i] = p, nexthop |-> Direct, metric |-> 1]
     ELSE LET x == CHOOSE x \in Iface \X Addr :
                     /\ Hears(x[2][1], x[2][2], r, x[1])
                     /\ HopCount[x[2][1]][p] = HopCount[r][p] - 1
          IN [if_index |-> x[1], nexthop |-> x[2], metric |-> HopCount[r][p]]]]

\* The bound of OneCopy is met.
ASSUME LinksJoinTwo == TwoStations

P(host, kind, dst, ttl) == [host |-> host, kind |-> kind, dst |-> dst, ttl |-> ttl]

\* A packet and a traceroute probe across the line, a ping the other way to the
\* far side of the last router, and a packet nobody has a route for.
LineProbes ==
  {P(101, "data", <<103, 0>>, 4), P(101, "data", <<103, 0>>, 2),
   P(103, "echo", <<1, 0>>, 4), P(101, "data", <<199, 0>>, 4)}

\* One packet each way.
CrossProbes == {P(101, "data", <<103, 0>>, 4), P(103, "echo", <<1, 0>>, 4)}

\* The tables stay and a packet gets damaged, or RIP changes two tables.
Scenarios ==
  {[probes |-> LineProbes, reroutes |-> 0, losses |-> 1],
   [probes |-> CrossProbes, reroutes |-> 2, losses |-> 0]}

=============================================================================
