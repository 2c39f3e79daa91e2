------------------------------ MODULE HalStdio ------------------------------
(***************************************************************************)
(* The stdio backend (HAL/src/stdio/router_hal.cpp): frames are the        *)
(* records of a capture file on standard input, with the port in an 802.1Q *)
(* tag; what is sent is written to a capture file on standard output.      *)
(***************************************************************************)
EXTENDS HalTable

VARIABLE
  closed   \* standard input has ended

stdioVars == <<apiVars, arp_table, closed>>

Own(mac) == {<<i, MyIp(i), mac[i]>> : i \in Iface}

StdioInit == ApiInit /\ arp_table = {} /\ closed = FALSE

\* HAL_Init: the table is filled before the input is opened, which may fail.
StdioStart ==
  /\ Calling("init")
  /\ IF inited THEN Return("ok") /\ UNCHANGED <<inited, interface_mac, arp_table, heard>>
     ELSE /\ interface_mac' = [i \in Iface |-> Me(i)]
          /\ Put(Own(interface_mac'))
          /\ heard' = heard \cup Own(interface_mac')
          /\ \/ Return("ok") /\ inited' = TRUE
             \/ Return("unknown") /\ UNCHANGED inited
  /\ UNCHANGED <<rx, wire, arrivals, closed>>

\* HAL_ArpGetMacAddress: an unknown address is asked for, every time.
StdioArp ==
  /\ Accepted("arp")
  /\ LET i == call.port  ip == call.ip IN
       \/ ip \in Group /\ TellMac(GroupMac(ip)) /\ UNCHANGED wire
       \/ ip \notin Group /\ (\E t \in Known(i, ip) : TellMac(t[3])) /\ UNCHANGED wire
       \/ /\ ip \notin Group /\ Known(i, ip) = {}
          /\ wire' = Append(wire, Request(i, interface_mac[i], ip))
          /\ Return("ip_not_exist")
  /\ UNCHANGED <<inited, interface_mac, rx, heard, arrivals, arp_table, closed>>

\* The condition of the do loop of HAL_ReceiveIPPacket, after d ticks.
StdioAgain(d) ==
  IF elapsed + d < Timeout THEN Tick(d) /\ UNCHANGED <<call, result>>
  ELSE Return("timeout")

\* pcap_next_ex waits for a record; at the end of the file it says so.
StdioEof ==
  /\ Accepted("receive")
  /\ rx = <<>> /\ closed
  /\ Return("eof")
  /\ UNCHANGED <<inited, interface_mac, rx, wire, heard, arrivals, arp_table, closed>>

StdioIp ==
  /\ Accepted("receive")
  /\ rx # <<>> /\ Head(rx).kind = "ip"
  /\ rx' = Tail(rx)
  /\ Hand(Head(rx))
  /\ UNCHANGED <<inited, interface_mac, wire, heard, arrivals, arp_table, closed>>

\* ARP: learned; a request for the port's address is answered.  As the target of
\* the reply bytes 22 and 28 of the request are copied, where a frame with a tag
\* has no address.
StdioReply(f) == [Reply(f, interface_mac[f.port]) EXCEPT !.to = Garbled]

StdioOverhear(d) ==
  /\ Accepted("receive")
  /\ rx # <<>> /\ IsArp(Head(rx))
  /\ rx' = Tail(rx)
  /\ LET f == Head(rx) IN
       /\ Put(Told(f))
       /\ heard' = heard \cup Told(f)
       /\ wire' = IF AsksMe(f) THEN Append(wire, StdioReply(f)) ELSE wire
  /\ StdioAgain(d)
  /\ UNCHANGED <<inited, interface_mac, arrivals, closed>>

\* A record without a valid tag, of another protocol, or a read error.
StdioIgnore(d) ==
  /\ Accepted("receive")
  /\ rx # <<>> /\ Head(rx).kind = "other"
  /\ rx' = Tail(rx)
  /\ StdioAgain(d)
  /\ UNCHANGED <<inited, interface_mac, wire, heard, arrivals, arp_table, closed>>

\* HAL_SendIPPacket.
StdioSend ==
  /\ Accepted("send")
  /\ wire' = Append(wire, IpFrame(call.port, interface_mac[call.port], call.dst, call.data))
  /\ Return("ok")
  /\ UNCHANGED <<inited, interface_mac, rx, heard, arrivals, arp_table, closed>>

Stdio ==
  \/ StdioStart \/ StdioArp \/ StdioEof \/ StdioIp \/ StdioSend
  \/ \E d \in {0, 1} : StdioOverhear(d) \/ StdioIgnore(d)
  \/ (Refuse \/ GetInterfaceMac) /\ UNCHANGED <<arp_table, closed>>

\* Whoever feeds standard input: a record, or the end.
StdioFeed ==
  \/ /\ ~closed
     /\ \E f \in Frame : f.src # Me(f.port) /\ Arrive(f)
     /\ UNCHANGED <<arp_table, closed>>
  \/ closed' = TRUE /\ ~closed /\ UNCHANGED <<apiVars, arp_table>>

=============================================================================
