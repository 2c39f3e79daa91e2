----------------------------- MODULE MCBackends -----------------------------
(***************************************************************************)
(* Two ports, two stations on port 0 and one on port 1, rings of two       *)
(* descriptors, an ARP table of one entry, and a counter of four ticks of  *)
(* which HAL_GetTicks can tell two.                                        *)
(***************************************************************************)
EXTENDS HalClients

S(x) == <<"station", x>>
A(x) == <<"ip", x>>
D(x) == <<"data", x>>

McFrame ==
  {IpFrame(0, S("s"), Me(0), D("x")), IpFrame(1, S("t"), Me(0), D("y")),
   MkFrame(0, "arp_request", S("s"), Broadcast, A("a"), MyIp(0), None),
   MkFrame(0, "arp_reply", S("u"), Me(0), A("b"), MyIp(0), None),
   MkFrame(1, "other", S("t"), Broadcast, None, None, None)}
McIp == {A("a"), A("g")}
McGroup == {A("g")}
McData == {D("z")}

=============================================================================
