----------------------------- MODULE HalService -----------------------------
(***************************************************************************)
(* What HAL/include/router_hal.h promises a program, whatever the backend  *)
(* is: abstract specification of HalStdio, HalMac and HalXilinx.  Polling, *)
(* capture handles, DMA rings and table layouts do not occur.              *)
(***************************************************************************)
EXTENDS HalApi

VARIABLES
  owed,   \* a reply to an ARP request that is still to be sent, or none
  sure    \* whether the links take every frame

serviceVars == <<call, result, inited, interface_mac, rx, wire, heard, owed, sure>>

ServiceInit ==
  /\ call = Idle /\ result = NoResult
  /\ inited = FALSE
  /\ interface_mac = [i \in Iface |-> NoMac]
  /\ rx = <<>> /\ wire = <<>> /\ heard = {}
  /\ owed = <<>> /\ sure \in BOOLEAN

CallAny ==
  /\ call = Idle
  /\ \/ call' \in {InitCall, ReceiveCall}
     \/ \E i \in MaybePort : call' = MacCall(i) \/ \E ip \in Ip : call' = ArpCall(i, ip)
     \/ /\ call'.op = "send"
        /\ call' = SendCall(call'.port, call'.dst, call'.data)
  /\ UNCHANGED <<result, inited, interface_mac, rx, wire, heard, owed>>

\* Initialised for good, or an error after which it may be tried again.  Own
\* addresses may be entered in the ARP table, and the RIP group joined.
Initialise ==
  /\ Calling("init")
  /\ \/ Return("ok") /\ inited'
     \/ Return("unknown") /\ ~inited /\ UNCHANGED inited
  /\ heard \subseteq heard'
  /\ \A t \in heard' \ heard : t[2] = MyIp(t[1]) /\ t[3] = interface_mac'[t[1]]
  /\ Len(wire') >= Len(wire) /\ SubSeq(wire', 1, Len(wire)) = wire
  /\ \A n \in Len(wire) + 1 .. Len(wire') :
       /\ wire'[n].kind = "ip" /\ wire'[n].dst = JoinMac
       /\ wire'[n].src = interface_mac'[wire'[n].port]
  /\ inited => UNCHANGED <<interface_mac, heard, wire>>
  /\ UNCHANGED <<rx, owed>>

Error ==
  /\ call.op \in {"arp", "mac", "send", "receive"}
  /\ \/ ~inited /\ Return("called_before_init")
     \/ inited /\ BadPort /\ \E c \in {"invalid_parameter", "iface_not_exist"} : Return(c)
     \/ inited /\ call.op \in {"send", "receive"} /\ Return("iface_not_exist")
  /\ UNCHANGED <<inited, interface_mac, rx, wire, heard, owed>>

GetMac ==
  /\ Accepted("mac")
  /\ TellMac(interface_mac[call.port])
  /\ UNCHANGED <<inited, interface_mac, rx, wire, heard, owed>>

\* The MAC of an address is one that ARP has told on that very port; when it is
\* not known, the answer is no and at most one request for it is sent there.
Lookup ==
  /\ Accepted("arp")
  /\ \/ call.ip \in Group /\ TellMac(GroupMac(call.ip)) /\ UNCHANGED wire
     \/ /\ call.ip \notin Group
        /\ \E t \in heard : t[1] = call.port /\ t[2] = call.ip /\ TellMac(t[3])
        /\ UNCHANGED wire
     \/ /\ call.ip \notin Group /\ Return("ip_not_exist")
        /\ \/ UNCHANGED wire
           \/ wire' = Append(wire, Request(call.port, interface_mac[call.port], call.ip))
  /\ UNCHANGED <<inited, interface_mac, rx, heard, owed>>

\* While a receive waits, frames that are not for the program are taken off the
\* ports: ARP is learned, and a request for the router's address is answered
\* once, at once or later (not at all if the link refuses).  The reply may garble the asker's address.  The wait may
\* be over then.
Replies(f) == {Reply(f, interface_mac[f.port]),
               [Reply(f, interface_mac[f.port]) EXCEPT !.to = Garbled]}

Overhear(n) ==
  /\ Accepted("receive") /\ owed = <<>>
  /\ Oldest(rx, n)
  /\ rx' = Without(rx, n)
  /\ LET f == rx[n]
         own == f.src = interface_mac[f.port]
     IN /\ f.kind = "ip" => own
        /\ heard' = IF IsArp(f) /\ ~own THEN heard \cup Told(f) ELSE heard
        /\ IF AsksMe(f) /\ ~own
             THEN \E r \in Replies(f) :
                    \/ wire' = Append(wire, r) /\ UNCHANGED owed
                    \/ owed' = <<r>> /\ UNCHANGED wire
                    \/ ~sure /\ UNCHANGED <<wire, owed>>
             ELSE UNCHANGED <<wire, owed>>
  /\ \/ UNCHANGED <<call, result>>
     \/ owed' = <<>> /\ Return("timeout")
  /\ UNCHANGED <<inited, interface_mac>>

Repay ==
  /\ owed # <<>>
  /\ wire' = wire \o owed /\ owed' = <<>>
  /\ UNCHANGED <<call, result, inited, interface_mac, rx, heard>>

\* An IP packet another station sent is handed over, the oldest of its port.
Deliver(n) ==
  /\ Accepted("receive") /\ owed = <<>>
  /\ Oldest(rx, n) /\ rx[n].kind = "ip" /\ rx[n].src # interface_mac[rx[n].port]
  /\ rx' = Without(rx, n)
  /\ Hand(rx[n])
  /\ UNCHANGED <<inited, interface_mac, wire, heard, owed>>

GiveUp ==
  /\ Accepted("receive") /\ owed = <<>>
  /\ \E c \in {"timeout", "eof"} : Return(c)
  /\ UNCHANGED <<inited, interface_mac, rx, wire, heard, owed>>

\* One frame, from the port's own MAC to the MAC the program names.
Send ==
  /\ Accepted("send")
  /\ \/ /\ Return("ok")
        /\ wire' = Append(wire, IpFrame(call.port, interface_mac[call.port], call.dst, call.data))
     \/ ~sure /\ Return("unknown") /\ UNCHANGED wire
  /\ UNCHANGED <<inited, interface_mac, rx, heard, owed>>

\* What arrives is from another station, or was sent here and is heard again.
Arrival ==
  /\ Len(rx') = Len(rx) + 1 /\ SubSeq(rx', 1, Len(rx)) = rx
  /\ rx'[Len(rx')] \in Frame \cup {wire[n] : n \in DOMAIN wire}
  /\ UNCHANGED <<call, result, inited, interface_mac, wire, heard, owed>>

Operation ==
  \/ CallAny \/ Initialise \/ Error \/ GetMac \/ Lookup \/ Repay \/ GiveUp \/ Send \/ Arrival
  \/ \E n \in DOMAIN rx : Overhear(n) \/ Deliver(n)

ServiceNext == Operation /\ UNCHANGED sure

ServiceSpec == ServiceInit /\ [][ServiceNext]_serviceVars

=============================================================================
