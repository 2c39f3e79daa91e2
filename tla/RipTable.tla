------------------------------ MODULE RipTable ------------------------------
(***************************************************************************)
(* The routing table of the router (std::map routerTable in lookup.cpp)    *)
(* and what a RIP response makes of it (the loop over rip.entries in       *)
(* main.cpp), as operators without state.                                  *)
(*                                                                         *)
(* A table is a function whose domain is the set of keys that are in the   *)
(* map.  A key (addr, len) is one prefix, named by a number that gives its *)
(* place in the order std::map iterates in.  A response is the function    *)
(* from the prefixes it lists to their metrics: sendRipResp lists each key *)
(* of the map once, so no key occurs twice in a packet.                    *)
(*                                                                         *)
(* A definition named ..._Bug is the one below it with a mistake somebody  *)
(* could have made in the code; nothing uses it, except to show that the   *)
(* properties notice the mistake.                                          *)
(***************************************************************************)
EXTENDS Topology

CONSTANTS
  Prefix,     \* the subnets whose keys are tracked, numbered in the map's order
  Direct,     \* nexthop 0: "this is a direct route"
  Infinity,   \* metric of an unreachable prefix, 16 in the code
  MaxEntry    \* RIP_MAX_ENTRY, 25 in the code

ASSUME TableAssumption ==
  /\ Prefix \subseteq Link /\ Prefix \subseteq Nat
  /\ IsFiniteSet(Prefix)
  /\ Direct \notin Addr
  /\ Infinity \in Nat /\ Infinity >= 2
  /\ MaxEntry \in Nat \ {0}

RoutingTableEntry ==
  [if_index : Iface, nexthop : Addr \cup {Direct}, metric : 1 .. Infinity - 1]

IsRoutingTable(t) == DOMAIN t \subseteq Prefix /\ t \in [DOMAIN t -> RoutingTableEntry]

\* The payload of a response: disassemble accepts metrics 1 .. 16 only.
IsRipEntries(es) == DOMAIN es \subseteq Prefix /\ es \in [DOMAIN es -> 1 .. Infinity]

(***************************************************************************)
(* Receiving a response                                                    *)
(***************************************************************************)

Through_Bug1(m) == m                                       \* not counted
Through_Bug2(m) == IF m + 2 >= Infinity THEN Infinity ELSE m + 1  \* capped early

\* The metric of a route through the sender of an entry with metric m.
Through(m) == IF m + 1 > Infinity THEN Infinity ELSE m + 1

Supersedes_Bug1(m, nexthop, old) == m # old.metric          \* from whomever
Supersedes_Bug2(m, nexthop, old) ==                         \* from nexthop only
  nexthop = old.nexthop /\ m # old.metric

\* Whether an entry that comes from nexthop with (increased) metric m changes
\* the route `old` to the same prefix.
Supersedes(m, nexthop, old) ==
  \/ nexthop = old.nexthop /\ m # old.metric
  \/ m < old.metric

\* The prefixes of a response that the receiver erases, changes and inserts.
Erased(t, es, nexthop) ==
  {p \in DOMAIN t \cap DOMAIN es :
      Supersedes(Through(es[p]), nexthop, t[p]) /\ Through(es[p]) = Infinity}

Changed(t, es, nexthop) ==
  {p \in DOMAIN t \cap DOMAIN es :
      Supersedes(Through(es[p]), nexthop, t[p]) /\ Through(es[p]) # Infinity}

Inserted(t, es) ==
  {p \in DOMAIN es \ DOMAIN t : Through(es[p]) # Infinity}

Learn_Bug(t, i, nexthop, es) ==                             \* change not counted
  [p \in (DOMAIN t \ Erased(t, es, nexthop)) \cup Inserted(t, es) |->
     IF p \notin DOMAIN t
       THEN [if_index |-> i, nexthop |-> nexthop, metric |-> Through(es[p])]
     ELSE IF p \in Changed(t, es, nexthop)
       THEN [t[p] EXCEPT !.nexthop = nexthop, !.metric = es[p]]
     ELSE t[p]]

\* The table after the response `es` of `nexthop` came in on interface i.  A
\* route that is changed takes the new nexthop and metric; its if_index stays.
Learn(t, i, nexthop, es) ==
  [p \in (DOMAIN t \ Erased(t, es, nexthop)) \cup Inserted(t, es) |->
     IF p \notin DOMAIN t
       THEN [if_index |-> i, nexthop |-> nexthop, metric |-> Through(es[p])]
     ELSE IF p \in Changed(t, es, nexthop)
       THEN [t[p] EXCEPT !.nexthop = nexthop, !.metric = Through(es[p])]
     ELSE t[p]]

(***************************************************************************)
(* Sending responses                                                       *)
(***************************************************************************)

Advertised_Bug(e, i) == e.metric                             \* no split horizon

\* What interface i is told of route e: split horizon with poisoned reverse.
Advertised(e, i) == IF e.if_index = i THEN Infinity ELSE e.metric

\* The prefixes of table t that go into its n-th packet: the map is walked in
\* key order and a packet leaves whenever MaxEntry entries have been collected.
Batch(t, n) ==
  {p \in DOMAIN t :
      Cardinality({q \in DOMAIN t : q < p}) \div MaxEntry = n - 1}

Responses_Bug(t, i) ==                                       \* rest sent if empty, too
  [n \in 1 .. (Cardinality(DOMAIN t) \div MaxEntry) + 1 |->
     [p \in Batch(t, n) |-> Advertised(t[p], i)]]

\* The packets interface i gets; an empty table gives none.
Responses(t, i) ==
  [n \in 1 .. (Cardinality(DOMAIN t) + MaxEntry - 1) \div MaxEntry |->
     [p \in Batch(t, n) |-> Advertised(t[p], i)]]

=============================================================================
