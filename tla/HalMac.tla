------------------------------- MODULE HalMac -------------------------------
(***************************************************************************)
(* The macOS backend (HAL/src/macOS/router_hal.cpp), whose calls are those *)
(* of the Linux backend, too: live capture on every port that could be     *)
(* opened.  Both handles of a port are opened on the same device with the  *)
(* same rights, so a port is open or it is not.                            *)
(***************************************************************************)
EXTENDS HalTable

CONSTANT Present   \* the ports whose interface (en0 ... en3) exists

ASSUME PresentAssumption == Present \subseteq Iface

VARIABLES
  open,       \* the ports with pcap_in_handles and pcap_out_handles
  asked,      \* arp_timer: pairs (port, address) asked for less than a second ago
  port        \* current_port

macVars == <<apiVars, arp_table, open, asked, port>>

MacInit == ApiInit /\ arp_table = {} /\ open = {} /\ asked = {} /\ port = 0

\* pcap_inject: the device takes the frame or refuses it.
Inject(f) == wire' = Append(wire, f) \/ UNCHANGED wire

\* HAL_JoinIGMPGroup on the ports, in their order.
Joins(ports, mac) ==
  LET nth(n) == CHOOSE i \in ports : Cardinality({j \in ports : j < i}) = n - 1
  IN [n \in 1 .. Cardinality(ports) |->
        IpFrame(nth(n), mac[nth(n)], JoinMac, Join)]

\* HAL_Init: getifaddrs fails, or the MACs of some of the ports there are are found
\* and some of them can be opened; the others stay as they are.
MacStart ==
  /\ Calling("init")
  /\ \/ inited /\ Return("ok") /\ UNCHANGED <<inited, interface_mac, arp_table, heard, open, wire>>
     \/ ~inited /\ Return("unknown")
        /\ UNCHANGED <<inited, interface_mac, arp_table, heard, open, wire>>
     \/ /\ ~inited /\ Return("ok") /\ inited' = TRUE
        /\ \E found \in SUBSET Present :
             LET own == {<<i, MyIp(i), Me(i)>> : i \in found} IN
               /\ interface_mac' = [i \in Iface |-> IF i \in found THEN Me(i) ELSE NoMac]
               /\ Put(own)
               /\ heard' = heard \cup own
        /\ open' \in SUBSET Present
        /\ \E taken \in SUBSET open' : wire' = wire \o Joins(taken, interface_mac')
  /\ UNCHANGED <<rx, arrivals, asked, port>>

\* HAL_ArpGetMacAddress: an unknown address is asked for once a second at most.
MacArp ==
  /\ Accepted("arp")
  /\ LET i == call.port  ip == call.ip
         ask == i \in open /\ <<i, ip>> \notin asked
     IN \/ ip \in Group /\ TellMac(GroupMac(ip)) /\ UNCHANGED <<wire, asked>>
        \/ /\ ip \notin Group
           /\ \E t \in Known(i, ip) : TellMac(t[3])
           /\ UNCHANGED <<wire, asked>>
        \/ /\ ip \notin Group /\ Known(i, ip) = {}
           /\ IF ask THEN Inject(Request(i, interface_mac[i], ip)) ELSE UNCHANGED wire
           /\ asked' = IF ask THEN asked \cup {<<i, ip>>} ELSE asked
           /\ Return("ip_not_exist")
  /\ UNCHANGED <<inited, interface_mac, rx, heard, arrivals, arp_table, open, port>>

\* HAL_ReceiveIPPacket needs one open port; polling starts with port 0.
MacNoPort ==
  /\ Accepted("receive") /\ open = {}
  /\ Return("iface_not_exist")
  /\ UNCHANGED <<inited, interface_mac, rx, wire, heard, arrivals, arp_table, open, asked, port>>

\* The frame pcap_next returns, if there is one.
Waiting == {n \in DOMAIN rx : rx[n].port = port /\ Oldest(rx, n)}

MacPolls == Accepted("receive") /\ port \in open

\* A frame the router has not sent itself: it does not bear the port's MAC.
Foreign_Bug(f) == f.src # interface_mac[0]      \* the MAC of port 0
Foreign(f) == f.src # interface_mac[port]

\* The condition of the do loop, after d ticks; a new call starts with port 0.
MacAgain(d, next) ==
  IF elapsed + d < Timeout THEN Tick(d) /\ port' = next /\ UNCHANGED <<call, result>>
  ELSE Return("timeout") /\ port' = 0

NextPort == (port + 1) % NIface

\* A port that is not open, has nothing, or has a frame of no interest.
MacNext(d) ==
  /\ Accepted("receive") /\ open # {}
  /\ \/ port \notin open /\ UNCHANGED rx
     \/ port \in open /\ Waiting = {} /\ UNCHANGED rx
     \/ port \in open /\ \E n \in Waiting : /\ rx[n].kind = "other" /\ Foreign(rx[n])
                                            /\ rx' = Without(rx, n)
  /\ MacAgain(d, NextPort)
  /\ UNCHANGED <<inited, interface_mac, wire, heard, arrivals, arp_table, open, asked>>

\* The capture shows what the router itself has sent: skipped.
MacOwn(d) ==
  /\ MacPolls
  /\ \E n \in Waiting : ~Foreign(rx[n]) /\ rx' = Without(rx, n)
  /\ MacAgain(d, port)
  /\ UNCHANGED <<inited, interface_mac, wire, heard, arrivals, arp_table, open, asked>>

MacIp ==
  /\ MacPolls
  /\ \E n \in Waiting :
       /\ rx[n].kind = "ip" /\ Foreign(rx[n])
       /\ rx' = Without(rx, n)
       /\ Hand(rx[n])
  /\ port' = 0
  /\ UNCHANGED <<inited, interface_mac, wire, heard, arrivals, arp_table, open, asked>>

\* ARP: learned; a request for the port's address is answered.
MacOverhear(d) ==
  /\ MacPolls
  /\ \E n \in Waiting : LET f == rx[n] IN
       /\ IsArp(f) /\ Foreign(f)
       /\ rx' = Without(rx, n)
       /\ Put(Told(f))
       /\ heard' = heard \cup Told(f)
       /\ IF AsksMe(f) THEN Inject(Reply(f, interface_mac[port])) ELSE UNCHANGED wire
  /\ MacAgain(d, port)
  /\ UNCHANGED <<inited, interface_mac, arrivals, open, asked>>

\* HAL_SendIPPacket: the device may refuse the frame.
MacSend ==
  /\ Accepted("send")
  /\ \/ call.port \notin open /\ Return("iface_not_exist") /\ UNCHANGED wire
     \/ /\ call.port \in open /\ Return("ok")
        /\ wire' = Append(wire, IpFrame(call.port, interface_mac[call.port], call.dst, call.data))
     \/ call.port \in open /\ Return("unknown") /\ UNCHANGED wire
  /\ UNCHANGED <<inited, interface_mac, rx, heard, arrivals, arp_table, open, asked, port>>

Mac ==
  \/ MacStart \/ MacArp \/ MacNoPort \/ MacIp \/ MacSend
  \/ \E d \in {0, 1} : MacNext(d) \/ MacOwn(d) \/ MacOverhear(d)
  \/ (Refuse \/ GetInterfaceMac) /\ UNCHANGED <<arp_table, open, asked, port>>

\* An open port captures frames of other stations and what the router itself has
\* sent there; a second passes.
MacWorld ==
  \/ /\ \/ \E f \in Frame : f.port \in open /\ Arrive(f)
        \/ \E n \in DOMAIN wire : Arrive(wire[n])
     /\ UNCHANGED <<arp_table, open, asked, port>>
  \/ /\ \E x \in asked : asked' = asked \ {x}
     /\ UNCHANGED <<apiVars, arp_table, open, port>>

=============================================================================
