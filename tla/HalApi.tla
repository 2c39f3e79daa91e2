------------------------------- MODULE HalApi -------------------------------
(***************************************************************************)
(* The interface of the router's hardware abstraction layer                *)
(* (HAL/include/router_hal.h) as a program and a backend share it: the     *)
(* call in progress, its result, and the frames on both sides.             *)
(*                                                                         *)
(* The callers in the repository receive on all ports and pass a timeout   *)
(* and pointers that are legal; a port number may be out of range.         *)
(***************************************************************************)
EXTENDS Integers, Sequences, FiniteSets

CONSTANTS
  NIface,     \* N_IFACE_ON_BOARD, 4 in the code
  Timeout,    \* ticks a caller lets HAL_ReceiveIPPacket wait
  Frame,      \* the frames other stations send
  Ip,         \* addresses a program asks for
  Group,      \* those of them that are multicast addresses
  Data,       \* payloads of a program
  MaxFrames,  \* bound: frames that arrive
  RxCap       \* bound: frames that wait

Iface == 0 .. NIface - 1

\* HAL_ERROR_NUMBER; 0 and lengths are "ok", the timeout of a receive is "timeout".
Code == {"ok", "timeout", "invalid_parameter", "ip_not_exist", "iface_not_exist",
         "called_before_init", "eof", "unknown"}

\* MAC addresses of the router: a backend uses one per port or one for all.
Me(i) == <<"me", i>>
NoMac == <<"zero", 0>>
Broadcast == <<"all", 0>>
GroupMac(ip) == <<"group", ip>>
JoinMac == GroupMac(<<"ip", "igmp">>)   \* where HAL_JoinIGMPGroup sends its packet

\* addrs: the address of port i.
Garbled == <<"garbled", 0>>
MyIp(i) == <<"my", i>>

\* A frame has a port, a kind, MAC addresses, the sender's and the target's IP
\* address (ARP only) and a payload (IP only).
None == <<"none", 0>>
Join == <<"data", "join">>
Kind == {"ip", "arp_request", "arp_reply", "other"}
MkFrame(port, kind, src, dst, from, to, data) ==
  [port |-> port, kind |-> kind, src |-> src, dst |-> dst, from |-> from, to |-> to, data |-> data]

NoFrame == MkFrame(0, "other", NoMac, NoMac, None, None, None)
IpFrame(port, src, dst, data) == MkFrame(port, "ip", src, dst, None, None, data)
IsArp(f) == f.kind \in {"arp_request", "arp_reply"}
AsksMe(f) == f.kind = "arp_request" /\ f.to = MyIp(f.port)

\* The request for the MAC of ip, and the reply to the sender of f.
Request(port, src, ip) == MkFrame(port, "arp_request", src, Broadcast, MyIp(port), ip, None)
Reply(f, src) == MkFrame(f.port, "arp_reply", src, f.src, f.to, f.from, None)

\* A frame comes from the address of one station, never from that of a group.
ASSUME ApiAssumption ==
  /\ NIface \in Nat \ {0} /\ Timeout \in Nat
  /\ \A f \in Frame : f.port \in Iface /\ f.kind \in Kind /\ f.src # JoinMac
  /\ Group \subseteq Ip /\ IsFiniteSet(Frame)
  /\ MaxFrames \in Nat /\ RxCap \in Nat \ {0}

VARIABLES
  call,           \* the call in progress, Idle between two calls
  result,         \* what the last call returned
  inited,         \* inited
  interface_mac,  \* interface_mac[i]
  rx,             \* frames that wait for the backend, in the order they arrived
  wire,           \* history: frames the router has put on its links, in that order
  heard,          \* history: triples (port, address, MAC) that ARP has told
  elapsed,        \* ticks since the call began (stdio, macOS)
  arrivals        \* frames that arrived so far

apiVars == <<call, result, inited, interface_mac, rx, wire, heard, elapsed, arrivals>>

Idle == [op |-> "idle"]
NoResult == [ret |-> "ok", mac |-> NoMac, frame |-> NoFrame]

\* The calls a program makes; MaybePort has a number that is no port.
MaybePort == Iface \cup {NIface}
InitCall == [op |-> "init"]
ReceiveCall == [op |-> "receive"]
ArpCall(i, ip) == [op |-> "arp", port |-> i, ip |-> ip]
MacCall(i) == [op |-> "mac", port |-> i]
SendCall(i, dst, data) == [op |-> "send", port |-> i, dst |-> dst, data |-> data]

ApiInit ==
  /\ call = Idle /\ result = NoResult
  /\ inited = FALSE
  /\ interface_mac = [i \in Iface |-> NoMac]
  /\ rx = <<>> /\ wire = <<>> /\ heard = {}
  /\ elapsed = 0 /\ arrivals = 0

\* A program calls the HAL.
Invoke(c) ==
  /\ call = Idle
  /\ call' = c
  /\ UNCHANGED <<result, inited, interface_mac, rx, wire, heard, elapsed, arrivals>>

Calling(op) == call.op = op

\* The call in progress returns: a code alone, a MAC address, or a frame.
ReturnWith(r) == result' = r /\ call' = Idle /\ elapsed' = 0
Return(ret) == ReturnWith([NoResult EXCEPT !.ret = ret])
TellMac(mac) == ReturnWith([NoResult EXCEPT !.mac = mac])
Hand(f) == ReturnWith([NoResult EXCEPT !.frame = f])

Tick(d) == elapsed' = elapsed + d

\* The checks every call but HAL_Init begins with; the error for a bad port
\* differs from call to call.
BadPort == call.op \in {"arp", "mac", "send"} /\ call.port \notin Iface

Refused(code) ==
  /\ call.op \in {"arp", "mac", "send", "receive"}
  /\ \/ ~inited /\ Return("called_before_init")
     \/ inited /\ BadPort /\ Return(code)
  /\ UNCHANGED <<inited, interface_mac, rx, wire, heard, arrivals>>

Refuse ==
  Refused(IF call.op = "mac" THEN "iface_not_exist" ELSE "invalid_parameter")

Accepted(op) == Calling(op) /\ inited /\ ~BadPort

\* HAL_GetInterfaceMacAddress.
GetInterfaceMac ==
  /\ Accepted("mac")
  /\ TellMac(interface_mac[call.port])
  /\ UNCHANGED <<inited, interface_mac, rx, wire, heard, arrivals>>

\* A frame arrives (if there is room it waits).
Arrive(f) ==
  /\ arrivals < MaxFrames
  /\ arrivals' = arrivals + 1
  /\ rx' = IF Len(rx) < RxCap THEN Append(rx, f) ELSE rx
  /\ UNCHANGED <<call, result, inited, interface_mac, wire, heard, elapsed>>

\* The n-th waiting frame is the oldest of its port.
Oldest(q, n) == n \in DOMAIN q /\ \A m \in 1 .. n - 1 : q[m].port # q[n].port

Without(q, n) == SubSeq(q, 1, n - 1) \o SubSeq(q, n + 1, Len(q))

Told(f) == {<<f.port, f.from, f.src>>}

=============================================================================
