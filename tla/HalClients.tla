----------------------------- MODULE HalClients -----------------------------
(***************************************************************************)
(* The programs of the router repository that use the HAL alone            *)
(* (Example/shell.cpp, broadcaster.cpp and capture.cpp), each on each of   *)
(* three backends.  A program calls the HAL, its one thread runs the       *)
(* backend until the call returns, and goes on with the result.            *)
(***************************************************************************)
EXTENDS HalStdio, HalMac, HalXilinx

CONSTANT MaxWire   \* bound: frames sent before the shell's user sends no more

ASSUME ClientAssumption == MaxWire \in Nat

VARIABLES
  backend,    \* "stdio", "macOS" or "xilinx": which router_hal is linked
  program,    \* "shell", "broadcaster" or "capture"
  at,         \* where main is: "init", "macs", "run", "end", the loops of the commands
  index,      \* i of the loops over the ports
  cont,       \* cont of the shell
  packet,     \* packet, src_mac and if_index: what was received last
  delivered,  \* history: the frames received
  refused     \* history: the ports a send failed on

clientVars == <<program, at, index, cont, packet, delivered, refused>>
ownVars == <<arp_table, closed, open, asked, port, boardVars>>
vars == <<apiVars, ownVars, backend, clientVars>>

Init ==
  /\ XilinxInit
  /\ arp_table = {} /\ closed = FALSE /\ open = {} /\ asked = {} /\ port = 0
  /\ backend \in {"stdio", "macOS", "xilinx"}
  /\ program \in {"shell", "broadcaster", "capture"}
  /\ at = "init" /\ index = 0 /\ cont = FALSE /\ packet = NoFrame
  /\ delivered = <<>> /\ refused = {}

-----------------------------------------------------------------------------
(* The backend that is linked                                              *)

Uses(b) == backend = b /\ UNCHANGED backend

Backend ==
  \/ Uses("stdio") /\ Stdio /\ UNCHANGED <<open, asked, port, boardVars>>
  \/ Uses("macOS") /\ Mac /\ UNCHANGED <<closed, boardVars>>
  \/ Uses("xilinx") /\ Xilinx /\ UNCHANGED <<arp_table, closed, open, asked, port>>

Clock ==
  /\ Uses("xilinx") /\ XilinxClock
  /\ UNCHANGED <<arp_table, closed, open, asked, port, clientVars>>

\* The frames handed to the links, those the transmitter still has included.
Sent == wire \o XilinxPending

World ==
  /\ \/ Uses("stdio") /\ StdioFeed /\ UNCHANGED <<open, asked, port, boardVars>>
     \/ Uses("macOS") /\ MacWorld /\ UNCHANGED <<closed, boardVars>>
     \/ Uses("xilinx") /\ XilinxFill /\ UNCHANGED <<arp_table, closed, open, asked, port>>
  /\ UNCHANGED clientVars

Drain ==
  /\ Uses("xilinx") /\ XilinxDrain
  /\ UNCHANGED <<arp_table, closed, open, asked, port, clientVars>>

-----------------------------------------------------------------------------
(* The programs                                                            *)

\* The destination the shell draws.
Random == <<"station", "random">>

\* main makes the call c; what it does with the result is up to place.
Calls(c, place) ==
  /\ Invoke(c)
  /\ at' = place
  /\ UNCHANGED <<ownVars, backend, program>>

\* HAL_Init, whose result is only printed, and the MAC address of every port.
Start ==
  /\ at = "init"
  /\ Calls(InitCall, "macs")
  /\ UNCHANGED <<index, cont, packet, delivered, refused>>

PrintMac ==
  /\ at = "macs" /\ index < NIface
  /\ Calls(MacCall(index), "macs")
  /\ index' = index + 1
  /\ UNCHANGED <<cont, packet, delivered, refused>>

Ready ==
  /\ at = "macs" /\ index = NIface /\ call = Idle
  /\ at' = "run"
  /\ UNCHANGED <<apiVars, ownVars, backend, program, index, cont, packet, delivered, refused>>

\* The user sends packets and asks for addresses until MaxWire frames are out; a
\* question may be repeated once.
MaySend == Len(Sent) < MaxWire
MayAsk(i, ip) ==
  \/ MaySend \/ ip \in Group
  \/ <<i, ip>> \in asked /\ Len(Sent) <= MaxWire

\* readline and the commands of the shell; "quit" and the end of the input.
Command ==
  /\ program = "shell" /\ at = "run"
  /\ \/ \E i \in MaybePort : Calls(MacCall(i), "run")
     \/ \E i \in MaybePort, ip \in Ip : MayAsk(i, ip) /\ Calls(ArpCall(i, ip), "run")
     \/ \E i \in MaybePort, d \in Data : MaySend /\ Calls(SendCall(i, Random, d), "run")
     \/ Calls(ReceiveCall, "run")
  /\ UNCHANGED <<index, cont, packet, delivered, refused>>

Quit ==
  /\ program = "shell" /\ at = "run" /\ call = Idle
  /\ at' = "end"
  /\ UNCHANGED <<apiVars, ownVars, backend, program, index, cont, packet, delivered, refused>>

\* The loop command: until a key, a signal or an error.
Loop ==
  /\ program = "shell" /\ at = "run" /\ call = Idle
  /\ at' = "loop" /\ cont' = TRUE
  /\ UNCHANGED <<apiVars, ownVars, backend, program, index, packet, delivered, refused>>

Failed == result.ret \notin {"ok", "timeout"}

LoopReceive ==
  /\ cont
  /\ at \in {"loop", "looped"} /\ (at = "looped" => ~Failed)
  /\ Calls(ReceiveCall, "looped")
  /\ UNCHANGED <<index, cont, packet, delivered, refused>>

LoopEnd ==
  /\ at \in {"loop", "looped"} /\ call = Idle
  /\ at' = "run"
  /\ UNCHANGED <<apiVars, ownVars, backend, program, index, cont, packet, delivered, refused>>

\* The signal handler, at any time.
Interrupt ==
  /\ program = "shell" /\ cont
  /\ cont' = FALSE
  /\ UNCHANGED <<apiVars, ownVars, backend, program, at, index, packet, delivered, refused>>

\* broadcaster and capture: receive, for ever.
Listen ==
  /\ program # "shell" /\ at = "run"
  /\ Calls(ReceiveCall, "listen")
  /\ UNCHANGED <<index, cont, packet, delivered, refused>>

\* A packet is printed, or sent on every port, the one it came from included, to
\* the MAC it came from; a timeout is printed; an error is the end.
Listened ==
  /\ at = "listen" /\ call = Idle
  /\ IF Failed THEN at' = "end" /\ UNCHANGED <<index, packet, delivered>>
     ELSE IF result.ret = "timeout" THEN at' = "run" /\ UNCHANGED <<index, packet, delivered>>
     ELSE /\ delivered' = Append(delivered, result.frame)
          /\ packet' = result.frame /\ index' = 0
          /\ at' = IF program = "broadcaster" THEN "flood" ELSE "run"
  /\ UNCHANGED <<apiVars, ownVars, backend, program, cont, refused>>

Flood ==
  /\ at = "flood" /\ index < NIface
  /\ Calls(SendCall(index, packet.src, packet.data), "flooding")
  /\ UNCHANGED <<index, cont, packet, delivered, refused>>

\* The result of HAL_SendIPPacket is not looked at.
Flooding_Bug ==                                          \* stops at a failure
  /\ at = "flooding" /\ call = Idle
  /\ index' = index + 1
  /\ at' = IF index + 1 < NIface /\ ~Failed THEN "flood" ELSE "run"
  /\ refused' = IF Failed THEN refused \cup {index} ELSE refused
  /\ UNCHANGED <<apiVars, ownVars, backend, program, cont, packet, delivered>>

Flooding ==
  /\ at = "flooding" /\ call = Idle
  /\ index' = index + 1
  /\ at' = IF index + 1 < NIface THEN "flood" ELSE "run"
  /\ refused' = IF Failed THEN refused \cup {index} ELSE refused
  /\ UNCHANGED <<apiVars, ownVars, backend, program, cont, packet, delivered>>

Program ==
  \/ Start \/ PrintMac \/ Ready \/ Command \/ Quit
  \/ Loop \/ LoopReceive \/ LoopEnd \/ Interrupt
  \/ Listen \/ Listened \/ Flood \/ Flooding

BackendStep == Backend /\ UNCHANGED clientVars

Next == Program \/ BackendStep \/ World \/ Drain \/ Clock

\* The thread of the program runs inside a call, the transmitter sends, and the
\* timer counts.
Spec ==
  /\ Init /\ [][Next]_vars
  /\ WF_vars(BackendStep) /\ WF_vars(Drain) /\ WF_vars(Clock)

-----------------------------------------------------------------------------
(* Properties                                                              *)

\* Whatever the backend, a program sees what router_hal.h promises: its own
\* frames never come back to it, frames of a port keep their order and are read
\* once, a MAC that is answered was told on that port, every request for the
\* router's address is answered once, and nothing else is sent.
Service == INSTANCE HalService WITH
  rx <- IF backend = "xilinx" THEN XilinxWaiting ELSE rx,
  wire <- Sent,
  owed <- XilinxOwed,
  sure <- backend # "macOS"

ImplementsHal == Service!ServiceSpec

\* The broadcaster sends every packet it got once on every port, in the order it
\* got them: when all sends went well, a port's packets are those received, the
\* last one perhaps still to come.
Packets(i) == {n \in DOMAIN Sent : Sent[n].port = i /\ Sent[n].kind = "ip" /\ Sent[n].dst # JoinMac}
Place(i, n) == Cardinality({m \in Packets(i) : m <= n})

Due(i) ==
  CASE at = "flood" /\ index <= i -> Len(delivered) - 1
    [] at = "flooding" /\ index < i -> Len(delivered) - 1
    [] at = "flooding" /\ index = i /\ call # Idle -> Len(delivered) - 1
    [] at = "flooding" /\ index = i /\ result.ret # "ok" -> Len(delivered) - 1
    [] OTHER -> Len(delivered)

Handed(i) ==
  /\ Cardinality(Packets(i)) = Due(i)
  /\ \A n \in Packets(i) :
       LET d == delivered[Place(i, n)] IN Sent[n] = IpFrame(i, interface_mac[i], d.src, d.data)

Flooded == program = "broadcaster" => \A i \in Iface \ refused : Handed(i)

\* On the board no descriptor is ever lost or used twice.
RingsSound == backend = "xilinx" => RingSound

\* Every call but a receive returns, and a receive does not stop at a reply: the
\* wait for a transmit descriptor (WaitTxBdAvailable) ends, as the transmitter
\* goes on, whatever has been sent before.
Busy == call.op \notin {"idle", "receive"} \/ step = "reply"
CallsReturn == Busy ~> ~Busy

\* router_hal.h says of the timeout of HAL_ReceiveIPPacket that it is the time to
\* wait and of HAL_GetTicks that it counts the milliseconds since the start: on
\* the board, a receive whose timeout is not -1 ends.
TimeoutKept == (step = "poll") ~> (step # "poll")

=============================================================================
