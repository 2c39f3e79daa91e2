------------------------------ MODULE HalLinux ------------------------------
(***************************************************************************)
(* The Linux backend of the router (HAL/src/linux/router_hal.cpp) as the   *)
(* loop of main.cpp uses it: polling the ports for frames, learning and    *)
(* answering ARP on the way, the rate limit of ARP requests, and the       *)
(* periodic update that shares the thread with all this.                   *)
(*                                                                         *)
(* Time is measured in ticks that are long against one step of the loop:   *)
(* a step takes no tick or one.  Instead of points in time the time passed *)
(* since then is kept, which is capped where it no longer matters.         *)
(***************************************************************************)
EXTENDS Integers, Sequences

CONSTANTS
  NIface,     \* N_IFACE_ON_BOARD, 4 in the code
  Ip,         \* addresses of other stations
  Period,     \* ticks between two updates, 5 s in the code
  Timeout,    \* ticks HAL_ReceiveIPPacket may wait, 1 s in the code
  ArpLimit,   \* ticks between two ARP requests for an address, 1 s in the code
  BufCap      \* bound: frames that wait on one port

Iface == 0 .. NIface - 1

ASSUME HalAssumption ==
  /\ NIface \in Nat \ {0} /\ BufCap \in Nat \ {0}
  /\ Period \in Nat /\ ArpLimit \in Nat
  /\ Timeout \in Nat /\ Timeout >= NIface    \* time for a look at every port

VARIABLES
  buffer,     \* buffer[i]: frames in the capture buffer of port i
  pc,         \* where the thread is: "top" of the loop, "poll", "handle"
  port,       \* current_port
  waited,     \* time since HAL_ReceiveIPPacket was called (begin)
  since,      \* time since the last update (last_time)
  arp_table,  \* pairs (address, port) whose MAC is known
  arp_age     \* time since an ARP request for a pair was sent (arp_timer)

vars == <<buffer, pc, port, waited, since, arp_table, arp_age>>

\* Frames: IPv4, ARP (asking for this router or not) from a station, frames of
\* the router itself, which the capture shows as well, and everything else.
FrameKind == {"ip", "arp_request", "arp_other", "own", "other"}
IsArp(f) == f.kind \in {"arp_request", "arp_other"}

SinceCap == Period + Timeout + 2
Cap(n, max) == IF n > max THEN max ELSE n

\* d ticks pass.
Pass(d) ==
  /\ since' = Cap(since + d, SinceCap)
  /\ arp_age' = [x \in Ip \X Iface |-> Cap(arp_age[x] + d, ArpLimit + 1)]

\* last_time and arp_timer start as 0, which was at boot.
Init ==
  /\ buffer = [i \in Iface |-> <<>>]
  /\ pc = "top" /\ port = 0 /\ waited = 0
  /\ since \in 0 .. Period + 1
  /\ arp_table = {}
  /\ arp_age = [x \in Ip \X Iface |-> Cap(since, ArpLimit + 1)]

\* A frame arrives (a port whose buffer is full drops it).
Arrive(i) ==
  /\ Len(buffer[i]) < BufCap
  /\ \E kind \in FrameKind, ip \in Ip :
       buffer' = [buffer EXCEPT ![i] = Append(@, [kind |-> kind, ip |-> ip])]
  /\ UNCHANGED <<pc, port, waited, since, arp_table, arp_age>>

\* The top of the loop: the update, if it is due; then packets are waited for.
Due == since > Period

Top ==
  /\ pc = "top"
  /\ IF Due
       THEN since' = 0 /\ UNCHANGED arp_age
       ELSE UNCHANGED <<since, arp_age>>
  /\ pc' = "poll" /\ port' = 0 /\ waited' = 0
  /\ UNCHANGED <<buffer, arp_table>>

\* The condition of the do loop: HAL_ReceiveIPPacket returns 0 after Timeout.
WaitOn_Bug(d) == waited' = waited + d /\ UNCHANGED pc      \* no condition
WaitOn(d) ==
  /\ waited' = waited + d
  /\ pc' = IF waited + d < Timeout THEN "poll" ELSE "top"

\* Nothing there, or a frame of no interest: on to the next port.
PollNext_Bug ==                                            \* empty port not left
  /\ pc = "poll"
  /\ \/ buffer[port] = <<>> /\ UNCHANGED <<buffer, port>>
     \/ /\ buffer[port] # <<>> /\ Head(buffer[port]).kind = "other"
        /\ buffer' = [buffer EXCEPT ![port] = Tail(@)]
        /\ port' = (port + 1) % NIface
  /\ \E d \in {0, 1} : WaitOn(d) /\ Pass(d)
  /\ UNCHANGED arp_table

PollNext ==
  /\ pc = "poll"
  /\ \/ buffer[port] = <<>> /\ UNCHANGED buffer
     \/ /\ buffer[port] # <<>> /\ Head(buffer[port]).kind = "other"
        /\ buffer' = [buffer EXCEPT ![port] = Tail(@)]
  /\ port' = (port + 1) % NIface
  /\ \E d \in {0, 1} : WaitOn(d) /\ Pass(d)
  /\ UNCHANGED arp_table

\* A frame of our own: skipped; the same port again.
PollOwn_Bug ==                                             \* no condition
  /\ pc = "poll"
  /\ buffer[port] # <<>> /\ Head(buffer[port]).kind = "own"
  /\ buffer' = [buffer EXCEPT ![port] = Tail(@)]
  /\ \E d \in {0, 1} : Pass(d)
  /\ UNCHANGED <<pc, port, waited, arp_table>>

PollOwn ==
  /\ pc = "poll"
  /\ buffer[port] # <<>> /\ Head(buffer[port]).kind = "own"
  /\ buffer' = [buffer EXCEPT ![port] = Tail(@)]
  /\ \E d \in {0, 1} : WaitOn(d) /\ Pass(d)
  /\ UNCHANGED <<port, arp_table>>

\* ARP: the sender is learned, a request for us is answered; the same port again.
PollArp ==
  /\ pc = "poll"
  /\ buffer[port] # <<>> /\ IsArp(Head(buffer[port]))
  /\ arp_table' = arp_table \cup {<<Head(buffer[port]).ip, port>>}
  /\ buffer' = [buffer EXCEPT ![port] = Tail(@)]
  /\ \E d \in {0, 1} : WaitOn(d) /\ Pass(d)
  /\ UNCHANGED port

\* An IPv4 packet is returned at once.
PollIp ==
  /\ pc = "poll"
  /\ buffer[port] # <<>> /\ Head(buffer[port]).kind = "ip"
  /\ buffer' = [buffer EXCEPT ![port] = Tail(@)]
  /\ pc' = "handle"
  /\ UNCHANGED <<port, waited, since, arp_table, arp_age>>

\* HAL_ArpGetMacAddress: of an unknown address it asks for the MAC, but not
\* within ArpLimit of the last time; the caller drops its packet.
Asks(x) == x \notin arp_table /\ arp_age[x] > ArpLimit

GetMac(x) ==
  /\ pc = "handle"
  /\ pc' = "top"
  /\ \E d \in {0, 1} :
       /\ since' = Cap(since + d, SinceCap)
       /\ arp_age' = [y \in Ip \X Iface |->
            Cap((IF y = x /\ Asks(x) THEN 0 ELSE arp_age[y]) + d, ArpLimit + 1)]
  /\ UNCHANGED <<buffer, port, waited, arp_table>>

\* A packet that is handled without asking for a MAC.
Handle ==
  /\ pc = "handle"
  /\ pc' = "top"
  /\ \E d \in {0, 1} : Pass(d)
  /\ UNCHANGED <<buffer, port, waited, arp_table>>

Thread ==
  \/ Top \/ PollNext \/ PollOwn \/ PollArp \/ PollIp \/ Handle
  \/ \E x \in Ip \X Iface : GetMac(x)

Next == Thread \/ \E i \in Iface : Arrive(i)

\* The thread never stops, and the clock does not stand still while it polls.
Spec == Init /\ [][Next]_vars
FairSpec == Spec /\ WF_vars(Thread) /\ WF_vars(Thread /\ waited' > waited)

-----------------------------------------------------------------------------
(* Properties                                                              *)

IsBuffer(q) == Len(q) <= BufCap /\ \A n \in DOMAIN q : q[n].kind \in FrameKind /\ q[n].ip \in Ip

\* Every variable has its type; a wait is never longer than it may be.
TypeOK ==
  /\ DOMAIN buffer = Iface /\ \A i \in Iface : IsBuffer(buffer[i])
  /\ pc \in {"top", "poll", "handle"}
  /\ port \in Iface
  /\ waited \in 0 .. Timeout
  /\ since \in 0 .. SinceCap
  /\ arp_table \subseteq Ip \X Iface
  /\ arp_age \in [Ip \X Iface -> 0 .. ArpLimit + 1]

\* Neither a port that is silent nor one that is flooded with frames, ARP and its
\* own included, keeps the thread from its periodic update for longer than one
\* call of HAL_ReceiveIPPacket may wait.
UpdateInTime == since <= Period + Timeout

\* The invariant behind UpdateInTime: what was waited is what the update is late.
LateByWaiting ==
  /\ pc = "poll" => waited < Timeout /\ since <= Period + waited
  /\ pc = "handle" => since < Period + Timeout
  /\ pc = "top" => UpdateInTime

Took(i) == buffer[i] # <<>> /\ buffer' = [buffer EXCEPT ![i] = Tail(@)]

Served(i) == []<>(buffer[i] = <<>>) \/ []<><<Took(i)>>_vars

\* What waits on a port is taken once the ports with lower numbers stay silent:
\* every call polls from port 0 up.
ServedByPriority ==
  \A i \in Iface : <>[](\A j \in 0 .. i - 1 : buffer[j] = <<>>) => Served(i)

\* The comment in HAL_ReceiveIPPacket calls its loop "Round robin": what waits on
\* a port is taken, however busy the other ports are.
RoundRobin == \A i \in Iface : Served(i)

=============================================================================
