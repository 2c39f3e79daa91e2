------------------------------ MODULE Topology ------------------------------
(***************************************************************************)
(* The Ethernet links the interfaces of the routers are plugged into.      *)
(* Setup/netns joins the routers by veth pairs; every link carries one /24 *)
(* subnet, and the subnet is named by its link.                            *)
(***************************************************************************)
EXTENDS Integers, FiniteSets, Sequences

CONSTANTS
  Router,     \* the routers
  Iface,      \* interface numbers, 0 .. N_IFACE_ON_BOARD - 1
  Link,       \* links, numbered in the order of the addresses of their subnets
  Attach      \* Attach[r][i]: the link interface i of router r is plugged into

\* No router has two interfaces on one link: its addresses are in four subnets.
ASSUME TopologyAssumption ==
  /\ Attach \in [Router -> [Iface -> Link]]
  /\ \A r \in Router : \A i, j \in Iface : Attach[r][i] = Attach[r][j] => i = j

\* The addresses of the routers (addrs in main.cpp), one for each interface.
Addr == Router \X Iface

\* Interface j of s hears what interface i of r sends.  The capture handles are
\* promiscuous and the destination MAC is not looked at, so that is every
\* interface on the link; HAL_ReceiveIPPacket skips the frames it sent itself.
Hears(s, j, r, i) == s # r /\ Attach[s][j] = Attach[r][i]

Neighbours(r, s) == \E i, j \in Iface : Hears(s, j, r, i)

=============================================================================
