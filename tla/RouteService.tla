---------------------------- MODULE RouteService ----------------------------
(***************************************************************************)
(* What the routers promise to whoever sends packets through them: how far *)
(* every router believes every subnet to be.  Nothing is said of packets,  *)
(* next hops or the order in which news travels.                           *)
(***************************************************************************)
EXTENDS Integers

CONSTANTS
  Router,     \* the routers
  Prefix,     \* the subnets
  Distance,   \* Distance[r][p]: true number of hops, 1 for an own subnet
  Infinity    \* "no route"

VARIABLE metric   \* metric[r][p]: hops r believes p to be away

\* What r may believe of p: no more than is true, or nothing.
Sound(r, p) == {m \in 1 .. Infinity : m = Infinity \/ m >= Distance[r][p]}

Nothing == [p \in Prefix |-> Infinity]

\* A router that has just come up knows the subnets it is plugged into.
OwnSubnets(r) == [p \in Prefix |-> IF Distance[r][p] = 1 THEN 1 ELSE Infinity]

Init == metric = [r \in Router |-> Nothing]

Start(r) ==
  /\ metric[r] = Nothing
  /\ metric' = [metric EXCEPT ![r] = OwnSubnets(r)]

\* A router that is up changes its mind about subnets that are not its own.
Revise(r) ==
  /\ \A p \in Prefix : Distance[r][p] = 1 => metric[r][p] = 1
  /\ metric' = [metric EXCEPT ![r] = [p \in Prefix |-> metric'[r][p]]]
  /\ \A p \in Prefix :
       metric'[r][p] \in IF Distance[r][p] = 1 THEN {1} ELSE Sound(r, p)

Stop(r) == metric' = [metric EXCEPT ![r] = Nothing]

Next == \E r \in Router : Start(r) \/ Revise(r) \/ Stop(r)

Spec == Init /\ [][Next]_metric

=============================================================================
