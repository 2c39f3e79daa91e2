------------------------------ MODULE MCTopology ------------------------------
(***************************************************************************)
(* Three routers in a line (the deployment of R1, R2, R3 in main.cpp and   *)
(* Setup/netns) and in a triangle; four of them, one before a triangle of  *)
(* the others.  The links 11, 22, 33 and 44 are the stub networks of the   *)
(* routers 1 to 4, 10 is another one of router 1; 99 is attached to no     *)
(* router.                                                                 *)
(***************************************************************************)
EXTENDS RipTable

\* 11 --- R1 --- 12 --- R2 --- 23 --- R3 --- 33
LineAttach == <<[i \in 0 .. 1 |-> IF i = 0 THEN 11 ELSE 12],
                [i \in 0 .. 1 |-> IF i = 0 THEN 12 ELSE 23],
                [i \in 0 .. 1 |-> IF i = 0 THEN 23 ELSE 33]>>

\* Every two routers share a link, every router has a stub.
TriangleAttach == <<[i \in 0 .. 2 |-> CASE i = 0 -> 11 [] i = 1 -> 12 [] i = 2 -> 13],
                    [i \in 0 .. 2 |-> CASE i = 0 -> 22 [] i = 1 -> 12 [] i = 2 -> 23],
                    [i \in 0 .. 2 |-> CASE i = 0 -> 33 [] i = 1 -> 13 [] i = 2 -> 23]>>

\* R1 is behind R2 alone; every two of R2, R3 and R4 share a link.
KiteAttach == <<[i \in 0 .. 2 |-> CASE i = 0 -> 11 [] i = 1 -> 12 [] i = 2 -> 10],
                [i \in 0 .. 2 |-> CASE i = 0 -> 12 [] i = 1 -> 23 [] i = 2 -> 24],
                [i \in 0 .. 2 |-> CASE i = 0 -> 33 [] i = 1 -> 23 [] i = 2 -> 34],
                [i \in 0 .. 2 |-> CASE i = 0 -> 44 [] i = 1 -> 24 [] i = 2 -> 34]>>

\* Hop counts, found by widening the set of routers step by step.
HopCount ==
  LET Within[n \in 1 .. Cardinality(Router)] ==
        [p \in Prefix |->
           IF n = 1 THEN {r \in Router : \E i \in Iface : Attach[r][i] = p}
           ELSE Within[n - 1][p] \cup
                  {r \in Router : \E s \in Within[n - 1][p] : Neighbours(r, s)}]
  IN [r \in Router |-> [p \in Prefix |->
        CHOOSE n \in 1 .. Cardinality(Router) :
          r \in Within[n][p] /\ \A k \in 1 .. n - 1 : r \notin Within[k][p]]]

=============================================================================
