--------------------------- MODULE HalLinuxProofs ---------------------------
(***************************************************************************)
(* Every variable of HalLinux keeps its type, and the periodic update is   *)
(* late by one receive timeout at most, for every number of ports, every   *)
(* period and every timeout that allows one look at each port.             *)
(***************************************************************************)
EXTENDS HalLinux, SequenceTheorems, TLAPS

-----------------------------------------------------------------------------
(* The clock *)

\* What the proof needs of the types.
ClockOK == pc \in {"top", "poll", "handle"} /\ waited \in Nat /\ since \in Nat

ClockInv == ClockOK /\ LateByWaiting

\* Time that passes is not more than it is.
LEMMA CapBound ==
  ASSUME NEW n \in Nat, NEW d \in {0, 1}
  PROVE  Cap(n + d, SinceCap) \in Nat /\ Cap(n + d, SinceCap) <= n + d
BY HalAssumption DEF Cap, SinceCap

LEMMA ClockInit == Init => ClockInv
<1> SUFFICES ASSUME Init PROVE ClockInv
  OBVIOUS
<1>1. Timeout >= 1
  BY HalAssumption
<1> QED
  BY <1>1, HalAssumption DEF Init, ClockInv, ClockOK, LateByWaiting, UpdateInTime

\* A step inside HAL_ReceiveIPPacket that tests the condition of its loop.
LEMMA ClockPoll ==
  ASSUME ClockInv, pc = "poll", NEW d \in {0, 1}, WaitOn(d), Pass(d)
  PROVE  ClockInv'
<1>1. since' \in Nat /\ since' <= since + d
  BY CapBound DEF Pass, ClockInv, ClockOK
<1>2. waited \in Nat /\ waited < Timeout /\ since \in Nat /\ since <= Period + waited
  BY DEF ClockInv, ClockOK, LateByWaiting
<1>3. waited' = waited + d /\ pc' = IF waited + d < Timeout THEN "poll" ELSE "top"
  BY DEF WaitOn
<1> QED
  BY <1>1, <1>2, <1>3, HalAssumption DEF ClockInv, ClockOK, LateByWaiting, UpdateInTime

LEMMA ClockNext == ClockInv /\ [Next]_vars => ClockInv'
<1> SUFFICES ASSUME ClockInv, [Next]_vars PROVE ClockInv'
  OBVIOUS
<1> USE DEF ClockInv
<1>1. ASSUME NEW i \in Iface, Arrive(i) PROVE ClockInv'
  BY <1>1 DEF Arrive, ClockOK, LateByWaiting, UpdateInTime
<1>2. CASE Top
  <2>1. Timeout >= 1
    BY HalAssumption
  <2>2. since' \in Nat /\ since' <= Period
    BY <1>2, HalAssumption DEF Top, Due, ClockOK
  <2> QED
    BY <1>2, <2>1, <2>2, HalAssumption DEF Top, ClockOK, LateByWaiting
<1>3. CASE PollNext \/ PollOwn \/ PollArp
  <2>1. pc = "poll" /\ \E d \in {0, 1} : WaitOn(d) /\ Pass(d)
    BY <1>3 DEF PollNext, PollOwn, PollArp
  <2> QED
    BY <2>1, ClockPoll
<1>4. CASE PollIp
  BY <1>4, HalAssumption DEF PollIp, ClockOK, LateByWaiting
<1>5. CASE Handle \/ \E x \in Ip \X Iface : GetMac(x)
  <2>1. PICK d \in {0, 1} : pc = "handle" /\ pc' = "top" /\ waited' = waited
                              /\ since' = Cap(since + d, SinceCap)
    BY <1>5 DEF Handle, GetMac, Pass
  <2>2. since \in Nat /\ since < Period + Timeout
    BY <2>1 DEF ClockOK, LateByWaiting
  <2>3. since' \in Nat /\ since' <= since + d
    BY <2>1, <2>2, CapBound
  <2> QED
    BY <2>1, <2>2, <2>3, HalAssumption DEF ClockOK, LateByWaiting, UpdateInTime
<1>6. CASE UNCHANGED vars
  BY <1>6 DEF vars, ClockOK, LateByWaiting, UpdateInTime
<1> QED
  BY <1>1, <1>2, <1>3, <1>4, <1>5, <1>6 DEF Next, Thread

\* What the thread has waited since its call of HAL_ReceiveIPPacket is all that
\* the update can be late.
THEOREM LateNoMoreThanWaited == Spec => []LateByWaiting
<1>1. ClockInv => LateByWaiting
  BY DEF ClockInv
<1> QED
  BY ClockInit, ClockNext, <1>1, PTL DEF Spec

\* Whatever arrives at the ports, the thread comes back to its periodic update at
\* most Timeout after it is due.
THEOREM UpdateNeverStarved == Spec => []UpdateInTime
<1>1. ClockInv => UpdateInTime
  BY HalAssumption DEF ClockInv, ClockOK, LateByWaiting, UpdateInTime
<1> QED
  BY ClockInit, ClockNext, <1>1, PTL DEF Spec

-----------------------------------------------------------------------------
(* Types *)

Frame == [kind : FrameKind, ip : Ip]

\* The strengthening of TypeOK: buffers are sequences of frames.
Types ==
  /\ buffer \in [Iface -> Seq(Frame)] /\ \A i \in Iface : Len(buffer[i]) <= BufCap
  /\ pc \in {"top", "poll", "handle"} /\ port \in Iface
  /\ waited \in 0 .. Timeout /\ (pc = "poll" => waited < Timeout)
  /\ since \in 0 .. SinceCap
  /\ arp_table \subseteq Ip \X Iface
  /\ arp_age \in [Ip \X Iface -> 0 .. ArpLimit + 1]

LEMMA TypesTypeOK == Types => TypeOK
<1> SUFFICES ASSUME Types PROVE TypeOK
  OBVIOUS
<1>1. ASSUME NEW i \in Iface PROVE IsBuffer(buffer[i])
  <2>1. buffer[i] \in Seq(Frame) /\ Len(buffer[i]) <= BufCap
    BY DEF Types
  <2>2. \A n \in DOMAIN buffer[i] : buffer[i][n] \in Frame
    BY <2>1
  <2> QED
    BY <2>1, <2>2 DEF IsBuffer, Frame
<1> QED
  BY <1>1 DEF Types, TypeOK

\* A time that is capped stays below the cap.
LEMMA CapType ==
  ASSUME NEW n \in Nat, NEW max \in Nat PROVE Cap(n, max) \in 0 .. max
BY DEF Cap

\* An age of the ARP table or the time since the update, d later.
LEMMA PassTypes ==
  ASSUME Types, NEW d \in {0, 1}
  PROVE  /\ Cap(since + d, SinceCap) \in 0 .. SinceCap
         /\ \A x \in Ip \X Iface : Cap(arp_age[x] + d, ArpLimit + 1) \in 0 .. ArpLimit + 1
         /\ Cap(0 + d, ArpLimit + 1) \in 0 .. ArpLimit + 1
<1>1. since + d \in Nat /\ SinceCap \in Nat /\ ArpLimit + 1 \in Nat
  BY HalAssumption DEF Types, SinceCap
<1>2. \A x \in Ip \X Iface : arp_age[x] + d \in Nat
  BY HalAssumption DEF Types
<1>3. 0 + d \in Nat
  OBVIOUS
<1>4. \A x \in Ip \X Iface : Cap(arp_age[x] + d, ArpLimit + 1) \in 0 .. ArpLimit + 1
  BY <1>1, <1>2, CapType
<1> QED
  BY <1>1, <1>3, <1>4, CapType

\* The first frame of a buffer, and what taking it leaves.
LEMMA TakeTypes ==
  ASSUME Types, buffer[port] # <<>>
  PROVE  /\ Head(buffer[port]) \in Frame
         /\ [buffer EXCEPT ![port] = Tail(@)] \in [Iface -> Seq(Frame)]
         /\ \A i \in Iface : Len([buffer EXCEPT ![port] = Tail(@)][i]) <= BufCap
<1>1. buffer[port] \in Seq(Frame) /\ port \in Iface /\ Len(buffer[port]) <= BufCap
  BY DEF Types
<1>2. /\ Head(buffer[port]) \in Frame /\ Tail(buffer[port]) \in Seq(Frame)
      /\ Len(Tail(buffer[port])) = Len(buffer[port]) - 1 /\ Len(buffer[port]) \in Nat
  BY <1>1, HeadTailProperties
<1>3. BufCap \in Nat
  BY HalAssumption
<1> QED
  BY <1>1, <1>2, <1>3 DEF Types

LEMMA InitTypes == Init => Types
<1> SUFFICES ASSUME Init PROVE Types
  OBVIOUS
<1>1. since \in Nat /\ since \in 0 .. SinceCap /\ 0 \in Iface
  BY HalAssumption DEF Init, SinceCap, Iface
<1>2. Cap(since, ArpLimit + 1) \in 0 .. ArpLimit + 1
  BY <1>1, CapType, HalAssumption
<1> QED
  BY <1>1, <1>2, HalAssumption DEF Init, Types

\* A look at a port: a frame is taken or not, and the wait goes on or ends.
LEMMA PollTypes ==
  ASSUME Types, pc = "poll", NEW d \in {0, 1}, WaitOn(d), Pass(d),
         buffer' = buffer \/ (buffer[port] # <<>> /\ buffer' = [buffer EXCEPT ![port] = Tail(@)]),
         port' \in Iface, arp_table' \subseteq Ip \X Iface
  PROVE  Types'
<1>1. buffer' \in [Iface -> Seq(Frame)] /\ \A i \in Iface : Len(buffer'[i]) <= BufCap
  BY TakeTypes DEF Types
<1>2. waited' \in 0 .. Timeout /\ pc' \in {"top", "poll"} /\ (pc' = "poll" => waited' < Timeout)
  BY HalAssumption DEF Types, WaitOn
<1>3. since' \in 0 .. SinceCap /\ arp_age' \in [Ip \X Iface -> 0 .. ArpLimit + 1]
  BY PassTypes DEF Pass
<1> QED
  BY <1>1, <1>2, <1>3 DEF Types

LEMMA NextTypes == Types /\ [Next]_vars => Types'
<1> SUFFICES ASSUME Types, [Next]_vars PROVE Types'
  OBVIOUS
<1>1. ASSUME NEW i \in Iface, Arrive(i) PROVE Types'
  <2>1. PICK f \in Frame : buffer' = [buffer EXCEPT ![i] = Append(@, f)]
    BY <1>1 DEF Arrive, Frame
  <2>2. buffer[i] \in Seq(Frame) /\ Len(buffer[i]) < BufCap
    BY <1>1 DEF Arrive, Types
  <2>3. Append(buffer[i], f) \in Seq(Frame) /\ Len(Append(buffer[i], f)) <= BufCap
    BY <2>2, AppendProperties, HalAssumption
  <2>4. buffer' \in [Iface -> Seq(Frame)] /\ \A j \in Iface : Len(buffer'[j]) <= BufCap
    BY <2>1, <2>3 DEF Types
  <2> QED
    BY <1>1, <2>4 DEF Arrive, Types
<1>2. CASE Top
  BY <1>2, HalAssumption DEF Top, Types, Iface, SinceCap
<1>3. CASE PollNext
  <2>1. (port + 1) % NIface \in Iface
    BY HalAssumption DEF Types, Iface
  <2>2. PICK d \in {0, 1} : WaitOn(d) /\ Pass(d)
    BY <1>3 DEF PollNext
  <2> QED
    BY <1>3, <2>1, <2>2, PollTypes DEF PollNext, Types
<1>4. CASE PollOwn
  <2>1. PICK d \in {0, 1} : WaitOn(d) /\ Pass(d)
    BY <1>4 DEF PollOwn
  <2> QED
    BY <1>4, <2>1, PollTypes DEF PollOwn, Types
<1>5. CASE PollArp
  <2>1. PICK d \in {0, 1} : WaitOn(d) /\ Pass(d)
    BY <1>5 DEF PollArp
  <2>2. Head(buffer[port]).ip \in Ip
    BY <1>5, TakeTypes DEF PollArp, Frame
  <2>3. arp_table' \subseteq Ip \X Iface
    BY <1>5, <2>2 DEF PollArp, Types
  <2> QED
    BY <1>5, <2>1, <2>3, PollTypes DEF PollArp, Types
<1>6. CASE PollIp
  BY <1>6, TakeTypes DEF PollIp, Types
<1>7. CASE Handle
  BY <1>7, PassTypes DEF Handle, Pass, Types
<1>8. ASSUME NEW x \in Ip \X Iface, GetMac(x) PROVE Types'
  <2>1. PICK d \in {0, 1} :
            /\ since' = Cap(since + d, SinceCap)
            /\ arp_age' = [y \in Ip \X Iface |->
                 Cap((IF y = x /\ Asks(x) THEN 0 ELSE arp_age[y]) + d, ArpLimit + 1)]
    BY <1>8 DEF GetMac
  <2>2. since' \in 0 .. SinceCap /\ arp_age' \in [Ip \X Iface -> 0 .. ArpLimit + 1]
    BY <2>1, PassTypes
  <2> QED
    BY <1>8, <2>2 DEF GetMac, Types
<1>9. CASE UNCHANGED vars
  BY <1>9 DEF vars, Types
<1> QED
  BY <1>1, <1>2, <1>3, <1>4, <1>5, <1>6, <1>7, <1>8, <1>9 DEF Next, Thread

\* Every variable keeps its type; a wait is never longer than it may be.
THEOREM TypeCorrect == Spec => []TypeOK
BY InitTypes, NextTypes, TypesTypeOK, PTL DEF Spec

=============================================================================
