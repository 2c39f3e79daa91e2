----------------------------- MODULE HalXilinx ------------------------------
(***************************************************************************)
(* The backend for the Xilinx board (HAL/src/xilinx/router_hal.c): one     *)
(* Ethernet MAC behind a switch that tags frames with their port, two DMA  *)
(* rings shared with the hardware, and a fixed ARP table.                  *)
(*                                                                         *)
(* The hardware fills receive buffers and empties transmit buffers at any  *)
(* time between two steps of the thread.  A buffer belongs to its          *)
(* descriptor: HAL_Init pairs them, PutBackBd puts the one it frees back.  *)
(***************************************************************************)
EXTENDS HalApi, DmaRing

CONSTANTS
  ArpTableSize,  \* ARP_TABLE_SIZE, 16 in the code
  Word,          \* values of a u32, 2^32
  Scale,         \* factor in HAL_GetTicks, 1000 in the code
  Frequency      \* XPAR_AXI_TIMER_0_CLOCK_FREQ_HZ

ASSUME XilinxAssumption ==
  /\ ArpTableSize \in Nat \ {0}
  /\ Word \in Nat \ {0} /\ Scale \in Nat \ {0} /\ Frequency \in Nat \ {0} /\ Frequency >= Scale

\* The address in the entries memset leaves in the ARP table.  It is no station's:
\* a user of the shell who asks for 0.0.0.0 on port 0 gets the MAC of such an entry.
NoIp == <<"zero", 0>>
ASSUME NoIpAssumption == NoIp \notin Ip

VARIABLES
  rxRing,       \* rxRing
  txRing,       \* txRing
  rxBuffers,    \* rxBuffers[b]: what the hardware wrote last
  txBuffers,    \* txBuffers[b]: what the thread wrote last
  txBufferUsed, \* txBufferUsed
  arpTable,     \* arpTable: entries (port, address, MAC)
  timer,        \* the counter of the AXI timer
  begin,        \* begin of HAL_ReceiveIPPacket, in ticks
  step          \* where that is: "idle", "poll", "reply" (the frame is still held)

boardVars == <<rxRing, txRing, rxBuffers, txBuffers, txBufferUsed, arpTable, timer, begin, step>>
xilinxVars == <<apiVars, boardVars>>

Buffer == 0 .. BdCount - 1

XilinxInit ==
  /\ ApiInit
  /\ rxRing = NewRing /\ txRing = NewRing
  /\ rxBuffers = [b \in Buffer |-> NoFrame]
  /\ txBuffers = [b \in Buffer |-> NoFrame]
  /\ txBufferUsed = 0
  /\ arpTable = [n \in 1 .. ArpTableSize |-> <<0, NoIp, NoMac>>]
  /\ timer = 0 /\ begin = 0 /\ step = "idle"

\* interface_mac is one constant for all ports.
BoardMac == Me(0)

\* HAL_GetTicks: the product is a u32, too.
GetTicks == ((timer * Scale) % Word) \div Frequency

-----------------------------------------------------------------------------
(* The rings                                                               *)

\* HAL_Init: every receive descriptor goes to the hardware, every transmit
\* descriptor is allocated, gets its buffer and is given back.
FilledRing == Submitted(Allocated(NewRing, BdCount), BdCount)
EmptyRing == Unallocated(Allocated(NewRing, BdCount), BdCount)

\* PutBackBd: the descriptor the thread holds goes to the hardware again.
PutBack(r) == Submitted(Allocated(Freed(r, 1), 1), 1)

\* WaitTxBdAvailable: with all descriptors in use those the hardware is done
\* with are freed; until there is one the thread waits.
MustReclaim == txBufferUsed = BdCount
CanSend_Bug == Returned(txRing, BdCount) > 0           \* waits without need
CanSend == MustReclaim => Returned(txRing, BdCount) > 0

Reclaimed ==
  IF MustReclaim THEN Freed(Fetched(txRing, BdCount), Returned(txRing, BdCount)) ELSE txRing

UsedNow_Bug == IF MustReclaim THEN txBufferUsed - 1 ELSE txBufferUsed  \* one back
UsedNow == IF MustReclaim THEN txBufferUsed - Returned(txRing, BdCount) ELSE txBufferUsed

\* A frame is written to the next free buffer and handed to the hardware.
Transmit(f) ==
  /\ CanSend
  /\ txBuffers' = [txBuffers EXCEPT ![FreeBd(Reclaimed)] = f]
  /\ txRing' = Submitted(Allocated(Reclaimed, 1), 1)
  /\ txBufferUsed' = UsedNow + 1

-----------------------------------------------------------------------------
(* The calls                                                               *)

XilinxStart ==
  /\ Calling("init")
  /\ Return("ok")
  /\ IF inited THEN UNCHANGED <<inited, interface_mac, rxRing, txRing>>
     ELSE /\ inited' = TRUE
          /\ interface_mac' = [i \in Iface |-> BoardMac]
          /\ rxRing' = FilledRing /\ txRing' = EmptyRing
  /\ UNCHANGED <<rx, wire, heard, arrivals,
                 rxBuffers, txBuffers, txBufferUsed, arpTable, timer, begin, step>>

\* HAL_ArpGetMacAddress takes the first entry that fits; an unknown address is
\* asked for.
Hits(i, ip) == {n \in DOMAIN arpTable : arpTable[n][1] = i /\ arpTable[n][2] = ip}
FirstHit(i, ip) == CHOOSE n \in Hits(i, ip) : \A m \in Hits(i, ip) : n <= m

XilinxArp ==
  /\ Accepted("arp")
  /\ LET i == call.port  ip == call.ip IN
       \/ /\ ip \in Group /\ TellMac(GroupMac(ip))
          /\ UNCHANGED <<txRing, txBuffers, txBufferUsed>>
       \/ /\ ip \notin Group /\ Hits(i, ip) # {}
          /\ TellMac(arpTable[FirstHit(i, ip)][3])
          /\ UNCHANGED <<txRing, txBuffers, txBufferUsed>>
       \/ /\ ip \notin Group /\ Hits(i, ip) = {}
          /\ Transmit(Request(i, BoardMac, ip))
          /\ Return("ip_not_exist")
  /\ UNCHANGED <<inited, interface_mac, rx, wire, heard, arrivals,
                 rxRing, rxBuffers, arpTable, timer, begin, step>>

XilinxSend ==
  /\ Accepted("send")
  /\ Transmit(IpFrame(call.port, BoardMac, call.dst, call.data))
  /\ Return("ok")
  /\ UNCHANGED <<inited, interface_mac, rx, wire, heard, arrivals,
                 rxRing, rxBuffers, arpTable, timer, begin, step>>

-----------------------------------------------------------------------------
(* HAL_ReceiveIPPacket                                                     *)

\* The time is noted before the loop; the condition of the loop compares with it.
XilinxBegin ==
  /\ Accepted("receive") /\ step = "idle"
  /\ begin' = GetTicks /\ step' = "poll"
  /\ UNCHANGED <<apiVars, rxRing, txRing, rxBuffers, txBuffers, txBufferUsed, arpTable, timer>>

Polls == Accepted("receive") /\ step = "poll"
InTime == GetTicks < begin + Timeout

XilinxTimeout ==
  /\ Polls /\ ~InTime
  /\ Return("timeout") /\ step' = "idle" /\ begin' = 0
  /\ UNCHANGED <<inited, interface_mac, rx, wire, heard, arrivals,
                 rxRing, txRing, rxBuffers, txBuffers, txBufferUsed, arpTable, timer>>

\* XAxiDma_BdRingFromHw gives the thread the oldest frame there is.
Fetch == Fetched(rxRing, 1)
HasFrame == Polls /\ InTime /\ Returned(rxRing, 1) = 1
Fetchee == rxBuffers[PostBd(Fetch)]

XilinxIp ==
  /\ HasFrame /\ Fetchee.kind = "ip"
  /\ Hand(Fetchee)
  /\ rxRing' = PutBack(Fetch)
  /\ step' = "idle" /\ begin' = 0
  /\ UNCHANGED <<inited, interface_mac, rx, wire, heard, arrivals,
                 txRing, rxBuffers, txBuffers, txBufferUsed, arpTable, timer>>

XilinxIgnore ==
  /\ HasFrame /\ Fetchee.kind = "other"
  /\ rxRing' = PutBack(Fetch)
  /\ UNCHANGED <<apiVars, txRing, rxBuffers, txBuffers, txBufferUsed, arpTable, timer, begin, step>>

\* The table is a FIFO of stations: one it has on that port gets the new address,
\* another one comes first and the last entry is lost.
Entry(f) == <<f.port, f.from, f.src>>
Same(f) == {n \in DOMAIN arpTable : arpTable[n][1] = f.port /\ arpTable[n][3] = f.src}

Learned(f) ==
  IF Same(f) # {}
    THEN [arpTable EXCEPT ![CHOOSE n \in Same(f) : \A m \in Same(f) : n <= m] = Entry(f)]
    ELSE [n \in DOMAIN arpTable |-> IF n = 1 THEN Entry(f) ELSE arpTable[n - 1]]

\* ARP: learned; a request for the port's address leads to a reply, for which the
\* thread may have to wait with the frame in its hands.
XilinxOverhear ==
  /\ HasFrame /\ IsArp(Fetchee)
  /\ arpTable' = Learned(Fetchee)
  /\ heard' = heard \cup Told(Fetchee)
  /\ IF AsksMe(Fetchee) THEN rxRing' = Fetch /\ step' = "reply"
     ELSE rxRing' = PutBack(Fetch) /\ UNCHANGED step
  /\ UNCHANGED <<call, result, inited, interface_mac, rx, wire, elapsed, arrivals,
                 txRing, rxBuffers, txBuffers, txBufferUsed, timer, begin>>

Held == rxBuffers[PostBd(rxRing)]

XilinxReply ==
  /\ step = "reply"
  /\ Transmit(Reply(Held, BoardMac))
  /\ rxRing' = PutBack(rxRing)
  /\ step' = "poll"
  /\ UNCHANGED <<apiVars, rxBuffers, arpTable, timer, begin>>

Xilinx ==
  \/ XilinxStart \/ XilinxArp \/ XilinxSend
  \/ XilinxBegin \/ XilinxTimeout \/ XilinxIp \/ XilinxIgnore \/ XilinxOverhear \/ XilinxReply
  \/ (Refuse \/ GetInterfaceMac) /\ UNCHANGED boardVars

-----------------------------------------------------------------------------
(* The hardware                                                            *)

\* A frame is written to the next buffer the receiver has, or lost.
XilinxFill ==
  /\ inited /\ arrivals < MaxFrames
  /\ arrivals' = arrivals + 1
  /\ IF rxRing.done < rxRing.hw
       THEN /\ \E f \in Frame : f.src # BoardMac /\ rxBuffers' = [rxBuffers EXCEPT ![NextDone(rxRing)] = f]
            /\ rxRing' = Completed(rxRing)
       ELSE UNCHANGED <<rxBuffers, rxRing>>
  /\ UNCHANGED <<call, result, inited, interface_mac, rx, wire, heard, elapsed,
                 txRing, txBuffers, txBufferUsed, arpTable, timer, begin, step>>

\* The transmitter sends what is in its next buffer.
XilinxDrain ==
  /\ txRing.done < txRing.hw
  /\ wire' = Append(wire, txBuffers[NextDone(txRing)])
  /\ txRing' = Completed(txRing)
  /\ UNCHANGED <<call, result, inited, interface_mac, rx, heard, elapsed, arrivals,
                 rxRing, rxBuffers, txBuffers, txBufferUsed, arpTable, timer, begin, step>>

\* A tick of a receive passes; the counter starts again when it is full, or stays.
CyclesPerTick == Frequency \div Scale

XilinxClock ==
  /\ step # "idle"
  /\ \/ timer' = (timer + CyclesPerTick) % Word
     \/ timer + CyclesPerTick >= Word /\ UNCHANGED timer
  /\ UNCHANGED <<apiVars, rxRing, txRing, rxBuffers, txBuffers, txBufferUsed, arpTable, begin, step>>

\* What a program sees of the rings: frames waiting, frames on their way, and the
\* reply the thread is about to send.
XilinxWaiting == [n \in 1 .. rxRing.done |-> rxBuffers[Bd(rxRing, rxRing.post + n - 1)]]
XilinxPending ==
  [n \in 1 .. txRing.hw - txRing.done |-> txBuffers[Bd(txRing, txRing.post + txRing.done + n - 1)]]
XilinxOwed == IF step = "reply" THEN <<Reply(Held, BoardMac)>> ELSE <<>>

-----------------------------------------------------------------------------
(* Properties                                                              *)

\* No descriptor is ever lost or used twice, however hardware and thread
\* interleave: the receiver has all of them but the one whose frame is being
\* answered, and txBufferUsed is the number of those the transmitter has or has
\* not been asked to give back, so that a free one is there whenever the code
\* takes one (router_hal.c 73-94, whose results nobody checks).
RxSound ==
  /\ Consistent(rxRing) /\ rxRing.pre = 0
  /\ rxRing.post = (IF step = "reply" THEN 1 ELSE 0)
  /\ rxRing.hw = (IF inited THEN BdCount - rxRing.post ELSE 0)

TxSound ==
  /\ Consistent(txRing) /\ txRing.pre = 0 /\ txRing.post = 0
  /\ txBufferUsed = txRing.hw

RingSound == RxSound /\ TxSound

=============================================================================
