-------------------------- MODULE HalBackendsProofs --------------------------
(***************************************************************************)
(* On the Xilinx board no descriptor is lost or used twice, every backend  *)
(* does what router_hal.h promises (HalService), and the broadcaster sends *)
(* what it gets on all ports: for any number of ports, rings of every      *)
(* size, any frames and any calls of a program.                            *)
(***************************************************************************)
EXTENDS HalClients, FiniteSetTheorems, SequenceTheorems, WellFoundedInduction, TLAPS

-----------------------------------------------------------------------------
(* The rings                                                               *)

LEMMA ModRange ==
  ASSUME NEW n \in Nat, NEW b \in Nat \ {0}
  PROVE  n % b \in 0 .. b - 1
  OBVIOUS

Numbers(r) ==
  /\ r.head \in 0 .. BdCount - 1 /\ r.post \in Nat /\ r.hw \in Nat
  /\ r.done \in Nat /\ r.pre \in Nat /\ r \in Ring /\ BdCount \in Nat \ {0}

\* A ring consists of five numbers; the operations change them as follows.
LEMMA RingFields ==
  ASSUME NEW r \in Ring
  PROVE  Numbers(r)
  BY RingAssumption DEF Ring, Numbers

\* XAxiDma_BdRingAlloc
LEMMA AllocatedFields ==
  ASSUME NEW r \in Ring, NEW n \in Nat, n <= Free(r)
  PROVE  Allocated(r, n) = [head |-> r.head, post |-> r.post, hw |-> r.hw,
                            done |-> r.done, pre |-> r.pre + n]
  BY RingFields DEF Numbers, Ring, Allocated

\* XAxiDma_BdRingToHw
LEMMA SubmittedFields ==
  ASSUME NEW r \in Ring, NEW n \in Nat, n <= r.pre
  PROVE  Submitted(r, n) = [head |-> r.head, post |-> r.post, hw |-> r.hw + n,
                            done |-> r.done, pre |-> r.pre - n]
  BY RingFields DEF Numbers, Ring, Submitted

\* XAxiDma_BdRingFree
LEMMA FreedFields ==
  ASSUME NEW r \in Ring, NEW n \in Nat, n <= r.post
  PROVE  /\ Freed(r, n) = [head |-> (r.head + n) % BdCount, post |-> r.post - n, hw |-> r.hw,
                           done |-> r.done, pre |-> r.pre]
         /\ (r.head + n) % BdCount \in 0 .. BdCount - 1
  <1>1. r.head + n \in Nat /\ BdCount \in Nat \ {0}
    BY RingFields DEF Numbers
  <1>2. (r.head + n) % BdCount \in 0 .. BdCount - 1
    BY <1>1, ModRange
  <1> QED BY <1>2, RingFields DEF Numbers, Ring, Freed

\* XAxiDma_BdRingFromHw
LEMMA FetchedFields ==
  ASSUME NEW r \in Ring, NEW n \in Nat
  PROVE  LET k == Returned(r, n)
         IN  /\ Fetched(r, n) = [head |-> r.head, post |-> r.post + k, hw |-> r.hw - k,
                                 done |-> r.done - k, pre |-> r.pre]
             /\ k \in Nat /\ k <= r.done
  <1> DEFINE k == Returned(r, n)
  <1>1. k \in Nat /\ k <= r.done
    BY RingFields DEF Numbers, Returned
  <1>2. Fetched(r, n) = [r EXCEPT !.post = @ + k, !.hw = @ - k, !.done = @ - k]
    BY DEF Fetched
  <1> HIDE DEF k
  <1>3. Fetched(r, n) = [head |-> r.head, post |-> r.post + k, hw |-> r.hw - k,
                         done |-> r.done - k, pre |-> r.pre]
    BY <1>1, <1>2, RingFields DEF Numbers, Ring
  <1> QED BY <1>1, <1>3 DEF k

\* The thread takes one frame the hardware is done with.
LEMMA FetchOne ==
  ASSUME NEW r, Consistent(r), Returned(r, 1) = 1
  PROVE  /\ Consistent(Fetched(r, 1))
         /\ Fetched(r, 1).post = r.post + 1 /\ Fetched(r, 1).hw = r.hw - 1
         /\ Fetched(r, 1).pre = r.pre
         /\ Fetched(r, 1).head = r.head /\ Fetched(r, 1).done = r.done - 1 /\ r.done >= 1
  <1>1. Numbers(r) /\ r.done <= r.hw /\ r.post + r.hw + r.pre <= BdCount
    BY RingFields DEF Consistent
  <1>2. /\ Fetched(r, 1) = [head |-> r.head, post |-> r.post + 1, hw |-> r.hw - 1,
                            done |-> r.done - 1, pre |-> r.pre]
        /\ 1 <= r.done
    BY <1>1, FetchedFields DEF Numbers
  <1> QED BY <1>1, <1>2 DEF Consistent, Ring, Numbers

\* PutBackBd: what the thread held is the hardware's again.
LEMMA PutBackOne ==
  ASSUME NEW r, Consistent(r), r.post = 1, r.pre = 0
  PROVE  /\ Consistent(PutBack(r))
         /\ PutBack(r).post = 0 /\ PutBack(r).hw = r.hw + 1 /\ PutBack(r).pre = 0
         /\ PutBack(r).head = (r.head + 1) % BdCount /\ PutBack(r).done = r.done
  <1> DEFINE h == (r.head + 1) % BdCount
             f == [head |-> h, post |-> 0, hw |-> r.hw, done |-> r.done, pre |-> 0]
             a == [head |-> h, post |-> 0, hw |-> r.hw, done |-> r.done, pre |-> 1]
             s == [head |-> h, post |-> 0, hw |-> r.hw + 1, done |-> r.done, pre |-> 0]
  <1>1. Numbers(r) /\ r.done <= r.hw /\ 1 + r.hw <= BdCount
    BY RingFields DEF Consistent, Numbers
  <1>2. Freed(r, 1) = f /\ h \in 0 .. BdCount - 1
    BY <1>1, FreedFields DEF Numbers
  <1> HIDE DEF h
  <1>3. f \in Ring /\ a \in Ring /\ s \in Ring
    BY <1>1, <1>2 DEF Ring, Numbers
  <1>4. Allocated(f, 1) = a
    BY <1>1, <1>3, AllocatedFields DEF Free, Numbers
  <1>5. Submitted(a, 1) = s
    BY <1>1, <1>3, SubmittedFields DEF Numbers
  <1>6. PutBack(r) = s
    BY <1>2, <1>4, <1>5 DEF PutBack
  <1>7. PutBack(r).head = (r.head + 1) % BdCount
    BY <1>6 DEF h
  <1> QED BY <1>1, <1>3, <1>6, <1>7 DEF Consistent, Numbers

\* The hardware is done with one more.
LEMMA CompleteOne ==
  ASSUME NEW r, Consistent(r), r.done < r.hw
  PROVE  /\ Consistent(Completed(r))
         /\ Completed(r).post = r.post /\ Completed(r).hw = r.hw /\ Completed(r).pre = r.pre
         /\ Completed(r).head = r.head /\ Completed(r).done = r.done + 1
  <1>1. Numbers(r) /\ r.post + r.hw + r.pre <= BdCount
    BY RingFields DEF Consistent
  <1>2. Completed(r) = [head |-> r.head, post |-> r.post, hw |-> r.hw,
                        done |-> r.done + 1, pre |-> r.pre]
    BY <1>1 DEF Completed, Ring, Numbers
  <1> QED BY <1>1, <1>2 DEF Consistent, Ring, Numbers

\* HAL_Init
LEMMA NewRings ==
  /\ Consistent(NewRing) /\ NewRing.post = 0 /\ NewRing.hw = 0 /\ NewRing.pre = 0
  /\ Consistent(FilledRing) /\ FilledRing.post = 0 /\ FilledRing.hw = BdCount /\ FilledRing.pre = 0
  /\ FilledRing.done = 0 /\ EmptyRing.done = 0
  /\ Consistent(EmptyRing) /\ EmptyRing.post = 0 /\ EmptyRing.hw = 0 /\ EmptyRing.pre = 0
  <1> DEFINE a == [head |-> 0, post |-> 0, hw |-> 0, done |-> 0, pre |-> BdCount]
             f == [head |-> 0, post |-> 0, hw |-> BdCount, done |-> 0, pre |-> 0]
  <1>1. NewRing \in Ring /\ a \in Ring /\ f \in Ring /\ BdCount \in Nat \ {0}
    BY RingAssumption DEF Ring, NewRing
  <1>2. Allocated(NewRing, BdCount) = a
    BY <1>1, AllocatedFields DEF NewRing, Free
  <1>3. Submitted(a, BdCount) = f
    BY <1>1, SubmittedFields
  <1>4. Unallocated(a, BdCount) = NewRing
    BY <1>1 DEF Unallocated, NewRing
  <1>5. FilledRing = f /\ EmptyRing = NewRing
    BY <1>2, <1>3, <1>4 DEF FilledRing, EmptyRing
  <1> QED BY <1>1, <1>5 DEF Consistent, NewRing

\* WaitTxBdAvailable: there is a free descriptor afterwards, and the count is right.
LEMMA ReclaimedRing ==
  ASSUME TxSound, CanSend
  PROVE  /\ Consistent(Reclaimed) /\ Reclaimed.post = 0 /\ Reclaimed.pre = 0
         /\ Reclaimed.hw = UsedNow /\ Reclaimed.hw < BdCount
         /\ \E k \in 0 .. txRing.done :
              /\ Reclaimed.head = (txRing.head + k) % BdCount
              /\ Reclaimed.hw = txRing.hw - k /\ Reclaimed.done = txRing.done - k
  <1>0. /\ Numbers(txRing) /\ txRing.done <= txRing.hw /\ txRing.hw <= BdCount
        /\ txRing.pre = 0 /\ txRing.post = 0 /\ txBufferUsed = txRing.hw
    BY RingFields DEF Consistent, TxSound, Numbers
  <1>1. CASE ~MustReclaim
    <2>1. txRing.head = (txRing.head + 0) % BdCount
      BY <1>0 DEF Numbers
    <2> QED BY <1>0, <1>1, <2>1 DEF MustReclaim, Reclaimed, UsedNow, TxSound, Numbers
  <1>2. CASE MustReclaim
    <2> DEFINE n == txRing.done
               g == [head |-> txRing.head, post |-> n, hw |-> txRing.hw - n, done |-> 0, pre |-> 0]
               h == (txRing.head + n) % BdCount
               r == [head |-> h, post |-> 0, hw |-> txRing.hw - n, done |-> 0, pre |-> 0]
    <2>1. Returned(txRing, BdCount) = n /\ n \in Nat /\ n > 0 /\ n <= txRing.hw /\ txRing.hw = BdCount
      BY <1>0, <1>2 DEF MustReclaim, CanSend, Returned, Numbers
    <2>2. Fetched(txRing, BdCount) = g /\ g \in Ring
      BY <1>0, <2>1, FetchedFields DEF Numbers, Ring
    <2>3. Freed(g, n) = r /\ h \in 0 .. BdCount - 1
      BY <2>1, <2>2, FreedFields
    <2>4. Reclaimed = r /\ UsedNow = txRing.hw - n
      BY <1>0, <1>2, <2>1, <2>2, <2>3 DEF Reclaimed, UsedNow
    <2>5. n \in 0 .. txRing.done /\ h = (txRing.head + n) % BdCount /\ txRing.done - n = 0
      BY <1>0 DEF Numbers
    <2> HIDE DEF h, n
    <2> QED BY <1>0, <2>1, <2>3, <2>4, <2>5 DEF Consistent, Ring, Numbers
  <1> QED BY <1>1, <1>2

\* A frame is handed to the transmitter.
LEMMA TransmitOne ==
  ASSUME NEW f, TxSound, Transmit(f)
  PROVE  /\ TxSound'
         /\ txRing'.head = Reclaimed.head /\ txRing'.done = Reclaimed.done
         /\ txRing'.hw = Reclaimed.hw + 1
  <1> DEFINE r == Reclaimed
             a == [head |-> r.head, post |-> 0, hw |-> r.hw, done |-> r.done, pre |-> 1]
             s == [head |-> r.head, post |-> 0, hw |-> r.hw + 1, done |-> r.done, pre |-> 0]
  <1>1. /\ Numbers(r) /\ r.post = 0 /\ r.pre = 0 /\ r.hw = UsedNow
        /\ r.hw < BdCount /\ r.done <= r.hw
    BY ReclaimedRing, RingFields DEF Transmit, Consistent
  <1> HIDE DEF r
  <1>2. Allocated(r, 1) = a /\ a \in Ring /\ s \in Ring
    BY <1>1, AllocatedFields DEF Free, Numbers, Ring
  <1>3. Submitted(a, 1) = s
    BY <1>1, <1>2, SubmittedFields DEF Numbers
  <1>4. txRing' = s /\ txBufferUsed' = r.hw + 1
    BY <1>1, <1>2, <1>3 DEF Transmit, r
  <1>5. /\ TxSound' /\ txRing'.head = r.head /\ txRing'.done = r.done
        /\ txRing'.hw = r.hw + 1
    BY <1>1, <1>2, <1>4 DEF TxSound, Consistent, Numbers
  <1> QED BY <1>5 DEF r

-----------------------------------------------------------------------------
(* The inductive invariant                                                 *)

\* What is not idle is a receive after HAL_Init; before it nothing is in use.
XInv ==
  /\ RxSound /\ TxSound
  /\ step \in {"idle", "poll", "reply"}
  /\ step # "idle" => call.op = "receive" /\ inited
  /\ inited \in BOOLEAN
  /\ ~inited => txBufferUsed = 0

IInv == backend = "xilinx" => XInv

\* HAL_Init has not been called.
LEMMA Initially == Init => IInv
  BY NewRings DEF Init, XilinxInit, ApiInit, IInv, XInv, RxSound, TxSound, NewRing

\* The programs touch nothing of the board, and call when no call is in progress.
LEMMA ProgramStep ==
  ASSUME Program
  PROVE  UNCHANGED <<boardVars, backend, inited>> /\ (call' = call \/ call = Idle)
  <1>1. ASSUME NEW c, NEW place, Calls(c, place)
        PROVE  UNCHANGED <<boardVars, backend, inited>> /\ call = Idle
    BY <1>1 DEF Calls, Invoke, ownVars
  <1>2. CASE UNCHANGED <<apiVars, ownVars, backend>>
    BY <1>2 DEF apiVars, ownVars
  <1>3. CASE Start \/ PrintMac \/ Listen \/ LoopReceive \/ Flood
    BY <1>1, <1>3 DEF Start, PrintMac, Listen, LoopReceive, Flood
  <1>4. CASE Command
    BY <1>1, <1>4 DEF Command
  <1>5. CASE Ready \/ Quit \/ Loop \/ LoopEnd \/ Interrupt \/ Listened \/ Flooding
    BY <1>2, <1>5 DEF Ready, Quit, Loop, LoopEnd, Interrupt, Listened, Flooding
  <1> QED BY <1>3, <1>4, <1>5 DEF Program

\* What leaves the rings alone and keeps to the order of a receive.
LEMMA Untouched ==
  ASSUME XInv, UNCHANGED <<rxRing, txRing, txBufferUsed, inited>>,
         \/ UNCHANGED step /\ (call' = call \/ step = "idle")
         \/ step' = "idle" /\ step # "reply"
         \/ step' = "poll" /\ step = "idle" /\ call' = call /\ call.op = "receive" /\ inited
  PROVE  XInv'
  BY DEF XInv, RxSound, TxSound

\* HAL_Init
LEMMA StartStep ==
  ASSUME XInv, XilinxStart
  PROVE  XInv'
  <1>0. step = "idle" /\ step' = "idle"
    BY DEF XilinxStart, XInv, Calling
  <1>1. CASE inited
    BY <1>0, <1>1, Untouched DEF XilinxStart
  <1>2. CASE ~inited
    <2>1. /\ inited' = TRUE /\ rxRing' = FilledRing /\ txRing' = EmptyRing
          /\ txBufferUsed = 0 /\ txBufferUsed' = 0
      BY <1>2 DEF XilinxStart, XInv
    <2>2. RxSound'
      BY <1>0, <2>1, NewRings, RingAssumption DEF RxSound
    <2>3. TxSound'
      BY <2>1, NewRings DEF TxSound
    <2> QED BY <1>0, <2>1, <2>2, <2>3 DEF XInv
  <1> QED BY <1>1, <1>2

\* HAL_ArpGetMacAddress and HAL_SendIPPacket.
LEMMA SendStep ==
  ASSUME XInv, XilinxArp \/ XilinxSend
  PROVE  XInv'
  <1>1. /\ step = "idle" /\ step' = "idle" /\ UNCHANGED <<rxRing, inited>> /\ inited
    BY DEF XilinxArp, XilinxSend, XInv, Accepted, Calling
  <1>2. UNCHANGED <<txRing, txBufferUsed>> \/ \E f : Transmit(f)
    BY DEF XilinxArp, XilinxSend
  <1>3. TxSound'
    BY <1>2, TransmitOne DEF XInv, TxSound
  <1> QED BY <1>1, <1>3 DEF XInv, RxSound

\* A frame is taken off the ring and put back at once, or held for the reply.
LEMMA FrameStep ==
  ASSUME XInv, XilinxIp \/ XilinxIgnore \/ XilinxOverhear
  PROVE  XInv'
  <1>1. /\ HasFrame /\ step = "poll" /\ Returned(rxRing, 1) = 1 /\ call.op = "receive" /\ inited
        /\ rxRing.post = 0 /\ rxRing.hw = BdCount /\ rxRing.pre = 0 /\ Consistent(rxRing)
    <2>1. HasFrame
      BY DEF XilinxIp, XilinxIgnore, XilinxOverhear
    <2> QED BY <2>1, RingAssumption DEF HasFrame, Polls, XInv, RxSound, Accepted, Calling
  <1>2. Consistent(Fetch) /\ Fetch.post = 1 /\ Fetch.hw = BdCount - 1 /\ Fetch.pre = 0
    BY <1>1, FetchOne DEF Fetch
  <1>3. /\ Consistent(PutBack(Fetch)) /\ PutBack(Fetch).post = 0
        /\ PutBack(Fetch).hw = BdCount /\ PutBack(Fetch).pre = 0
    BY <1>2, PutBackOne, RingAssumption
  <1>4. UNCHANGED <<txRing, txBufferUsed, inited>>
    BY DEF XilinxIp, XilinxIgnore, XilinxOverhear, apiVars
  <1>5. CASE rxRing' = PutBack(Fetch) /\ (step' = "idle" \/ UNCHANGED <<step, call>>)
    BY <1>1, <1>3, <1>4, <1>5, RingAssumption DEF XInv, RxSound, TxSound
  <1>6. CASE rxRing' = Fetch /\ step' = "reply" /\ UNCHANGED call
    BY <1>1, <1>2, <1>4, <1>6, RingAssumption DEF XInv, RxSound, TxSound
  <1> QED BY <1>5, <1>6 DEF XilinxIp, XilinxIgnore, XilinxOverhear, apiVars

\* The reply goes out, and the frame that asked is put back.
LEMMA ReplyStep ==
  ASSUME XInv, XilinxReply
  PROVE  XInv'
  <1>1. /\ step = "reply" /\ step' = "poll" /\ UNCHANGED <<call, inited>>
        /\ call.op = "receive" /\ inited
        /\ Consistent(rxRing) /\ rxRing.post = 1 /\ rxRing.pre = 0 /\ rxRing.hw = BdCount - 1
    BY DEF XilinxReply, XInv, RxSound, apiVars
  <1>2. TxSound'
    BY TransmitOne DEF XilinxReply, XInv
  <1>3. /\ Consistent(rxRing') /\ rxRing'.post = 0 /\ rxRing'.pre = 0 /\ rxRing'.hw = BdCount
    BY <1>1, PutBackOne, RingAssumption DEF XilinxReply
  <1> QED BY <1>1, <1>2, <1>3, RingAssumption DEF XInv, RxSound

\* The hardware fills a receive buffer or has sent a transmit buffer.
LEMMA FillStep ==
  ASSUME XInv, XilinxFill
  PROVE  XInv'
  <1>1. CASE UNCHANGED rxRing
    BY <1>1, Untouched DEF XilinxFill
  <1>2. CASE rxRing.done < rxRing.hw /\ rxRing' = Completed(rxRing)
    BY <1>2, CompleteOne DEF XilinxFill, XInv, RxSound, TxSound
  <1> QED BY <1>1, <1>2 DEF XilinxFill

LEMMA DrainStep ==
  ASSUME XInv, XilinxDrain
  PROVE  XInv'
  BY CompleteOne DEF XilinxDrain, XInv, RxSound, TxSound

\* The thread of the program in a call.
LEMMA CallStep ==
  ASSUME XInv, Xilinx
  PROVE  XInv'
  <1>1. CASE XilinxBegin
    BY <1>1, Untouched DEF XilinxBegin, Accepted, Calling, apiVars
  <1>2. CASE XilinxTimeout
    BY <1>2, Untouched DEF XilinxTimeout, Polls
  <1>3. CASE (Refuse \/ GetInterfaceMac) /\ UNCHANGED boardVars
    <2>1. UNCHANGED <<rxRing, txRing, txBufferUsed, inited, step>>
      BY <1>3 DEF Refuse, Refused, GetInterfaceMac, boardVars
    <2>2. step = "idle"
      BY <1>3 DEF Refuse, Refused, GetInterfaceMac, Accepted, Calling, BadPort, XInv
    <2> QED BY <2>1, <2>2, Untouched
  <1> QED BY <1>1, <1>2, <1>3, StartStep, SendStep, FrameStep, ReplyStep DEF Xilinx

\* Every step of the composition preserves the invariant.
LEMMA Inductive == IInv /\ [Next]_vars => IInv'
  <1> SUFFICES ASSUME IInv, [Next]_vars, backend' = "xilinx"
               PROVE  XInv'
    BY DEF IInv
  <1>1. CASE Program
    BY <1>1, ProgramStep, Untouched DEF IInv, boardVars, XInv, Idle
  <1>2. CASE BackendStep
    BY <1>2, CallStep DEF BackendStep, Backend, Uses, IInv
  <1>3. CASE World
    BY <1>3, FillStep DEF World, Uses, IInv
  <1>4. CASE Drain
    BY <1>4, DrainStep DEF Drain, Uses, IInv
  <1>5. CASE Clock
    BY <1>5, Untouched DEF Clock, Uses, IInv, XilinxClock, apiVars
  <1>6. CASE UNCHANGED vars
    BY <1>6, Untouched DEF vars, IInv, apiVars, ownVars, boardVars
  <1> QED BY <1>1, <1>2, <1>3, <1>4, <1>5, <1>6 DEF Next

\* On the board no descriptor is lost or used twice: router_hal.c takes one from a
\* ring only when there is one, with rings of every size, however the hardware and
\* the thread interleave and whatever frames come and calls are made.
THEOREM NoDescriptorLost == Spec => []RingsSound
  <1>1. IInv => RingsSound
    BY DEF IInv, XInv, RingsSound, RingSound
  <1> QED BY <1>1, Initially, Inductive, PTL DEF Spec

-----------------------------------------------------------------------------
(* Sequences                                                               *)

\* A sequence of whatever.
IsSeq(s) == \E S : s \in Seq(S)

\* A function on 1 .. k is a sequence of length k.
LEMMA SeqMade == ASSUME NEW k \in Nat, NEW s, s = [n \in 1 .. k |-> s[n]]
  PROVE  IsSeq(s) /\ Len(s) = k
<1> DEFINE S == {s[n] : n \in 1 .. k}
<1>1. s \in [1 .. k -> S]
  OBVIOUS
<1> HIDE DEF S
<1>2. s \in Seq(S)
  BY <1>1, SeqDef
<1>3. Len(s) \in Nat /\ 1 .. Len(s) = 1 .. k
  BY <1>1, <1>2, LenProperties
<1>4. Len(s) = k
  <2>1. Len(s) \in 1 .. k \/ Len(s) = 0
    BY <1>3
  <2>2. k \in 1 .. Len(s) \/ k = 0
    BY <1>3
  <2> QED BY <1>3, <2>1, <2>2
<1> QED BY <1>2, <1>4 DEF IsSeq

LEMMA SeqIs == ASSUME NEW s, IsSeq(s)
  PROVE  Len(s) \in Nat /\ DOMAIN s = 1 .. Len(s) /\ s = [n \in 1 .. Len(s) |-> s[n]]
BY LenProperties DEF IsSeq

\* Two sequences have a common set of elements.
LEMMA SeqBoth == ASSUME NEW s, IsSeq(s), NEW t, IsSeq(t) PROVE \E S : s \in Seq(S) /\ t \in Seq(S)
<1>1. PICK S : s \in Seq(S) BY DEF IsSeq
<1>2. PICK T : t \in Seq(T) BY DEF IsSeq
<1>3. s \in Seq(S \cup T) /\ t \in Seq(S \cup T)
  BY <1>1, <1>2
<1> QED BY <1>3

\* What Append, \o, Tail and SubSeq give.
LEMMA SeqAppend == ASSUME NEW s, IsSeq(s), NEW x
  PROVE  /\ IsSeq(Append(s, x)) /\ Len(Append(s, x)) = Len(s) + 1
         /\ SubSeq(Append(s, x), 1, Len(s)) = s /\ Append(s, x)[Len(s) + 1] = x
         /\ \A n \in 1 .. Len(s) : Append(s, x)[n] = s[n]
<1>1. PICK S : s \in Seq(S) BY DEF IsSeq
<1>2. s \in Seq(S \cup {x}) /\ x \in S \cup {x} BY <1>1
<1> QED BY <1>2, AppendProperties DEF IsSeq

LEMMA SeqConcat == ASSUME NEW s, IsSeq(s), NEW t, IsSeq(t)
  PROVE  /\ IsSeq(s \o t) /\ Len(s \o t) = Len(s) + Len(t)
         /\ SubSeq(s \o t, 1, Len(s)) = s
         /\ \A n \in 1 .. Len(s) : (s \o t)[n] = s[n]
         /\ \A n \in 1 .. Len(t) : (s \o t)[Len(s) + n] = t[n]
<1>1. PICK S : s \in Seq(S) /\ t \in Seq(S) BY SeqBoth
<1>2. IsSeq(s \o t) /\ Len(s \o t) = Len(s) + Len(t)
  BY <1>1, ConcatProperties DEF IsSeq
<1>3. \A n \in 1 .. Len(s) : (s \o t)[n] = s[n]
  BY <1>1, ConcatProperties
<1>4. \A n \in 1 .. Len(t) : (s \o t)[Len(s) + n] = t[n]
  BY <1>1, ConcatProperties, LenProperties
<1>5. SubSeq(s \o t, 1, Len(s)) = s
  BY <1>1, <1>2, <1>3
<1> QED BY <1>2, <1>3, <1>4, <1>5

LEMMA SeqTail == ASSUME NEW s, IsSeq(s), s # <<>>
  PROVE  /\ IsSeq(Tail(s)) /\ Len(s) >= 1 /\ Len(Tail(s)) = Len(s) - 1 /\ Head(s) = s[1]
         /\ \A n \in 1 .. Len(s) - 1 : Tail(s)[n] = s[n + 1]
<1>1. PICK S : s \in Seq(S) BY DEF IsSeq
<1> QED BY <1>1, HeadTailProperties, EmptySeq, LenProperties DEF IsSeq

\* Sequences with the same elements are equal.
LEMMA SeqSame ==
  ASSUME NEW s, IsSeq(s), NEW t, IsSeq(t), Len(s) = Len(t), \A n \in 1 .. Len(s) : s[n] = t[n]
  PROVE s = t
BY SeqIs

LEMMA SeqWithout1 == ASSUME NEW s, IsSeq(s), s # <<>>
  PROVE SubSeq(s, 1, 0) \o SubSeq(s, 2, Len(s)) = Tail(s)
<1>1. PICK S : s \in Seq(S) BY DEF IsSeq
<1> QED BY <1>1

LEMMA SeqSub == ASSUME NEW s, IsSeq(s), NEW m \in 1 .. Len(s) + 1, NEW n \in 0 .. Len(s)
  PROVE IsSeq(SubSeq(s, m, n))
<1>1. PICK S : s \in Seq(S) BY DEF IsSeq
<1> QED BY <1>1, SubSeqProperties DEF IsSeq

LEMMA SeqShift == ASSUME NEW s, IsSeq(s), NEW t, IsSeq(t)
  PROVE  /\ s \o <<>> = s
         /\ \A x : s \o Append(t, x) = Append(s \o t, x)
         /\ \A x : Append(s, x) = s \o <<x>>
         /\ t # <<>> => Append(s, Head(t)) \o Tail(t) = s \o t
<1>1. PICK S : s \in Seq(S) /\ t \in Seq(S) BY SeqBoth
<1>2. s \o <<>> = s
  BY <1>1
<1>3. ASSUME NEW x PROVE s \o Append(t, x) = Append(s \o t, x) /\ Append(s, x) = s \o <<x>>
  <2>1. s \in Seq(S \cup {x}) /\ t \in Seq(S \cup {x})
    BY <1>1
  <2> QED BY <2>1
<1>4. t # <<>> => Append(s, Head(t)) \o Tail(t) = s \o t
  BY <1>1
<1> QED BY <1>2, <1>3, <1>4
-----------------------------------------------------------------------------
(* What a program sees                                                     *)

\* The frames that wait, whatever the backend.
View == IF backend = "xilinx" THEN XilinxWaiting ELSE rx

USE DEF Service!Idle, Service!NoResult, Service!ReturnWith, Service!Return, Service!TellMac,
        Service!Hand, Service!Calling, Service!Iface, Service!BadPort, Service!Accepted,
        Service!MkFrame, Service!IpFrame, Service!Request, Service!Reply, Service!None,
        Service!Broadcast, Service!MyIp, Service!NoMac, Service!NoFrame, Service!GroupMac, Service!JoinMac

\* Each step of the service in terms of this view.
LEMMA ServiceError ==
  ASSUME call.op \in {"arp", "mac", "send", "receive"},
         \/ ~inited /\ Return("called_before_init")
         \/ inited /\ BadPort /\ \E c \in {"invalid_parameter", "iface_not_exist"} : Return(c)
         \/ inited /\ call.op \in {"send", "receive"} /\ Return("iface_not_exist"),
         UNCHANGED <<inited, interface_mac, View, Sent, heard, XilinxOwed>>
  PROVE  Service!Error
BY DEF Service!Error, View, Return, ReturnWith, Idle, NoResult, NoFrame, NoMac, None, MkFrame, BadPort, Iface

LEMMA ServiceOverhear ==
  ASSUME NEW n, Accepted("receive"), XilinxOwed = <<>>, Oldest(View, n), View' = Without(View, n),
         NEW own, own = (View[n].src = interface_mac[View[n].port]), View[n].kind = "ip" => own,
         heard' = IF IsArp(View[n]) /\ ~own THEN heard \cup Told(View[n]) ELSE heard,
         IF AsksMe(View[n]) /\ ~own
           THEN LET r == Reply(View[n], interface_mac[View[n].port]) IN
                  \/ /\ Sent' = Append(Sent, r) \/ Sent' = Append(Sent, [r EXCEPT !.to = Garbled])
                     /\ XilinxOwed' = <<>>
                  \/ XilinxOwed' = <<r>> /\ UNCHANGED Sent
                  \/ backend = "macOS" /\ UNCHANGED <<Sent, XilinxOwed>>
           ELSE UNCHANGED <<Sent, XilinxOwed>>,
         UNCHANGED <<call, result>> \/ (XilinxOwed' = <<>> /\ Return("timeout")),
         UNCHANGED <<inited, interface_mac>>
  PROVE  Service!Overhear(n)
BY DEF Service!Overhear, Service!Replies, Service!Oldest, Service!Without, Service!IsArp, Service!AsksMe,
       Service!Told, View, Accepted, Oldest, Without, IsArp, AsksMe, Told, Reply, Garbled, Service!Garbled,
       Return, ReturnWith, Idle, NoResult, NoFrame, NoMac, None, MkFrame, BadPort, Iface, Calling, MyIp, Broadcast

LEMMA ServiceCall ==
  ASSUME call = Idle,
         \/ call' \in {InitCall, ReceiveCall}
         \/ \E i \in MaybePort : call' = MacCall(i) \/ \E ip \in Ip : call' = ArpCall(i, ip)
         \/ \E i, dst, data : call' = SendCall(i, dst, data),
         UNCHANGED <<result, inited, interface_mac, View, Sent, heard, XilinxOwed>>
  PROVE  Service!CallAny
<1>1. \/ call' \in {InitCall, ReceiveCall}
      \/ \E i \in MaybePort : call' = MacCall(i) \/ \E ip \in Ip : call' = ArpCall(i, ip)
      \/ call'.op = "send" /\ call' = SendCall(call'.port, call'.dst, call'.data)
  BY DEF SendCall
<1> QED BY <1>1 DEF Service!CallAny, Service!InitCall, Service!ReceiveCall, Service!MaybePort,
            Service!MacCall, Service!ArpCall, Service!SendCall,
            View, Idle, InitCall, ReceiveCall, MaybePort, MacCall, ArpCall, SendCall, Iface

LEMMA ServiceInitialise ==
  ASSUME Calling("init"),
         \/ Return("ok") /\ inited'
         \/ Return("unknown") /\ ~inited /\ UNCHANGED inited,
         heard \subseteq heard',
         \A t \in heard' \ heard : t[2] = MyIp(t[1]) /\ t[3] = interface_mac'[t[1]],
         NEW joins, IsSeq(Sent), IsSeq(joins), Sent' = Sent \o joins,
         \A n \in 1 .. Len(joins) : /\ joins[n].kind = "ip" /\ joins[n].dst = JoinMac
                                   /\ joins[n].src = interface_mac'[joins[n].port],
         inited => UNCHANGED <<interface_mac, heard, Sent>>,
         UNCHANGED <<View, XilinxOwed>>
  PROVE  Service!Initialise
<1>1. Len(Sent') >= Len(Sent) /\ SubSeq(Sent', 1, Len(Sent)) = Sent
  BY SeqConcat, SeqIs
<1>2. ASSUME NEW n \in Len(Sent) + 1 .. Len(Sent')
      PROVE  /\ Sent'[n].kind = "ip" /\ Sent'[n].dst = JoinMac
             /\ Sent'[n].src = interface_mac'[Sent'[n].port]
  <2>1. n - Len(Sent) \in 1 .. Len(joins) /\ Sent'[n] = joins[n - Len(Sent)]
    <3>1. Len(Sent) \in Nat /\ Len(joins) \in Nat /\ Len(Sent') = Len(Sent) + Len(joins)
      BY SeqConcat, SeqIs
    <3>2. n - Len(Sent) \in 1 .. Len(joins) /\ n = Len(Sent) + (n - Len(Sent))
      BY <3>1
    <3>3. (Sent \o joins)[Len(Sent) + (n - Len(Sent))] = joins[n - Len(Sent)]
      BY <3>2, SeqConcat
    <3> QED BY <3>2, <3>3
  <2> QED BY <2>1
<1> QED BY <1>1, <1>2 DEF Service!Initialise, View, Return, ReturnWith, Idle, NoResult, NoFrame, NoMac, None,
            MkFrame, Calling, MyIp, JoinMac, GroupMac

LEMMA ServiceGetMac ==
  ASSUME Accepted("mac"), TellMac(interface_mac[call.port]),
         UNCHANGED <<inited, interface_mac, View, Sent, heard, XilinxOwed>>
  PROVE  Service!GetMac
BY DEF Service!GetMac, View, Accepted, TellMac, ReturnWith, Idle, NoResult, NoFrame, NoMac, None, MkFrame,
       BadPort, Iface, Calling

LEMMA ServiceLookup ==
  ASSUME Accepted("arp"),
         \/ call.ip \in Group /\ TellMac(GroupMac(call.ip)) /\ UNCHANGED Sent
         \/ /\ call.ip \notin Group
            /\ \E t \in heard : t[1] = call.port /\ t[2] = call.ip /\ TellMac(t[3])
            /\ UNCHANGED Sent
         \/ /\ call.ip \notin Group /\ Return("ip_not_exist")
            /\ \/ UNCHANGED Sent
               \/ Sent' = Append(Sent, Request(call.port, interface_mac[call.port], call.ip)),
         UNCHANGED <<inited, interface_mac, View, heard, XilinxOwed>>
  PROVE  Service!Lookup
BY DEF Service!Lookup, View, Accepted, TellMac, Return, ReturnWith, Idle, NoResult, NoFrame, NoMac, None, MkFrame,
       BadPort, Iface, Calling, GroupMac, Request, Broadcast, MyIp

LEMMA ServiceRepay ==
  ASSUME XilinxOwed # <<>>, Sent' = Sent \o XilinxOwed, XilinxOwed' = <<>>,
         UNCHANGED <<call, result, inited, interface_mac, View, heard>>
  PROVE  Service!Repay
BY DEF Service!Repay, View

LEMMA ServiceDeliver ==
  ASSUME NEW n, Accepted("receive"), XilinxOwed = <<>>,
         Oldest(View, n), View[n].kind = "ip", View[n].src # interface_mac[View[n].port],
         View' = Without(View, n), Hand(View[n]),
         UNCHANGED <<inited, interface_mac, Sent, heard, XilinxOwed>>
  PROVE  Service!Deliver(n)
BY DEF Service!Deliver, Service!Oldest, Service!Without, View, Accepted, Oldest, Without, Hand, ReturnWith, Idle,
       NoResult, NoFrame, NoMac, None, MkFrame, BadPort, Iface, Calling

LEMMA ServiceGiveUp ==
  ASSUME Accepted("receive"), XilinxOwed = <<>>, \E c \in {"timeout", "eof"} : Return(c),
         UNCHANGED <<inited, interface_mac, View, Sent, heard, XilinxOwed>>
  PROVE  Service!GiveUp
BY DEF Service!GiveUp, View, Accepted, Return, ReturnWith, Idle, NoResult, NoFrame, NoMac, None, MkFrame,
       BadPort, Iface, Calling

LEMMA ServiceSend ==
  ASSUME Accepted("send"),
         \/ /\ Return("ok")
            /\ Sent' = Append(Sent, IpFrame(call.port, interface_mac[call.port], call.dst, call.data))
         \/ backend = "macOS" /\ Return("unknown") /\ UNCHANGED Sent,
         UNCHANGED <<inited, interface_mac, View, heard, XilinxOwed>>
  PROVE  Service!Send
BY DEF Service!Send, View, Accepted, Return, ReturnWith, Idle, NoResult, NoFrame, NoMac, None, MkFrame, IpFrame,
       BadPort, Iface, Calling

LEMMA ServiceArrival ==
  ASSUME IsSeq(View), NEW f, f \in Frame \cup {Sent[n] : n \in DOMAIN Sent}, View' = Append(View, f),
         UNCHANGED <<call, result, inited, interface_mac, Sent, heard, XilinxOwed>>
  PROVE  Service!Arrival
<1>1. /\ Len(View') = Len(View) + 1 /\ SubSeq(View', 1, Len(View)) = View
      /\ View'[Len(View')] \in Frame \cup {Sent[n] : n \in DOMAIN Sent}
  BY SeqAppend
<1> QED BY <1>1 DEF Service!Arrival, View

\* A step that changes nothing of all this.
LEMMA ServiceStutter ==
  ASSUME UNCHANGED <<call, result, inited, interface_mac, View, Sent, heard, XilinxOwed, backend>>
  PROVE  UNCHANGED Service!serviceVars
BY DEF Service!serviceVars, View

\* What the view depends on.
LEMMA ViewKept ==
  ASSUME UNCHANGED <<rx, wire, rxRing, txRing, rxBuffers, txBuffers, step, backend>>
  PROVE  UNCHANGED <<View, Sent, XilinxOwed>>
BY DEF View, XilinxWaiting, Sent, XilinxPending, XilinxOwed, Held

-----------------------------------------------------------------------------
(* What the backends keep up                                               *)

\* The backends with a std::map: what the table says was told.
MapInv == txRing = NewRing /\ step = "idle" /\ arp_table \subseteq heard

\* On standard input every frame is another station's.
StdioInv ==
  /\ inited => interface_mac = [i \in Iface |-> Me(i)]
  /\ \A n \in DOMAIN rx : rx[n] \in Frame /\ rx[n].src # Me(rx[n].port)

\* On the board, too, as the switch sends nothing back; an entry of the ARP table
\* was told or is still zero.
BoardInv ==
  /\ XInv
  /\ inited => interface_mac = [i \in Iface |-> BoardMac]
  /\ DOMAIN arpTable = 1 .. ArpTableSize
  /\ \A n \in DOMAIN arpTable : arpTable[n] \in heard \/ arpTable[n] = <<0, NoIp, NoMac>>
  /\ DOMAIN rxBuffers = Buffer /\ DOMAIN txBuffers = Buffer
  /\ \A b \in Buffer : rxBuffers[b].src # BoardMac /\ rxBuffers[b].port \in Iface

HalInv ==
  /\ backend \in {"stdio", "macOS", "xilinx"} /\ inited \in BOOLEAN
  /\ IsSeq(rx) /\ IsSeq(wire) /\ index \in Nat
  /\ call.op = "arp" => call.ip \in Ip
  /\ backend # "xilinx" => MapInv
  /\ backend = "stdio" => StdioInv
  /\ backend = "xilinx" => BoardInv

LEMMA SeqNone == IsSeq(<<>>)
<1>1. <<>> \in Seq({})
  OBVIOUS
<1> QED BY <1>1 DEF IsSeq

LEMMA HalInvInit == Init => HalInv
<1> SUFFICES ASSUME Init PROVE HalInv
  OBVIOUS
<1>1. XInv
  BY NewRings DEF Init, XilinxInit, ApiInit, XInv, RxSound, TxSound, NewRing
<1>2. NoFrame.src # BoardMac /\ NoFrame.port \in Iface
  <2>1. NoFrame.src = <<"zero", 0>> /\ NoFrame.port = 0
    BY DEF NoFrame, MkFrame, NoMac
  <2>2. <<"zero", 0>> # <<"me", 0>>
    OBVIOUS
  <2>3. 0 \in Iface
    BY ApiAssumption DEF Iface
  <2> QED BY <2>1, <2>2, <2>3 DEF BoardMac, Me
<1>3. BoardInv
  BY <1>1, <1>2 DEF Init, XilinxInit, ApiInit, BoardInv
<1>4. MapInv
  BY DEF Init, XilinxInit, ApiInit, MapInv
<1>5. StdioInv
  BY DEF Init, XilinxInit, ApiInit, StdioInv
<1>6. IsSeq(rx) /\ IsSeq(wire) /\ call.op # "arp"
  BY SeqNone DEF Init, XilinxInit, ApiInit, Idle
<1> QED BY <1>3, <1>4, <1>5, <1>6 DEF Init, XilinxInit, ApiInit, HalInv

\* What the programs do: nothing, or a call when there is none.
LEMMA ProgramCalls ==
  ASSUME Program, index \in Nat
  PROVE  /\ UNCHANGED <<result, inited, interface_mac, rx, wire, heard, ownVars, backend>> /\ index' \in Nat
         /\ \/ UNCHANGED call
            \/ /\ call = Idle
               /\ \/ call' \in {InitCall, ReceiveCall}
                  \/ \E i \in MaybePort : call' = MacCall(i) \/ \E ip \in Ip : call' = ArpCall(i, ip)
                  \/ \E i, dst, data : call' = SendCall(i, dst, data)
<1>1. ASSUME NEW c, NEW place, Calls(c, place)
      PROVE  UNCHANGED <<result, inited, interface_mac, rx, wire, heard, ownVars, backend>>
             /\ call = Idle /\ call' = c
  BY <1>1 DEF Calls, Invoke
<1>2. ASSUME UNCHANGED <<apiVars, ownVars, backend>>
      PROVE  UNCHANGED <<call, result, inited, interface_mac, rx, wire, heard, ownVars, backend>>
  BY <1>2 DEF apiVars
<1>3. CASE Start \/ Listen \/ LoopReceive
  BY <1>1, <1>3 DEF Start, Listen, LoopReceive
<1>4. CASE PrintMac
  <2>1. index \in MaybePort
    BY <1>4, ApiAssumption DEF PrintMac, MaybePort, Iface
  <2> QED BY <1>1, <1>4, <2>1 DEF PrintMac
<1>5. CASE Flood
  BY <1>1, <1>5 DEF Flood
<1>6. CASE Command
  BY <1>1, <1>6 DEF Command
<1>7. CASE Ready \/ Quit \/ Loop \/ LoopEnd \/ Interrupt
  BY <1>2, <1>7 DEF Ready, Quit, Loop, LoopEnd, Interrupt
<1>8. CASE Listened \/ Flooding
  BY <1>2, <1>8 DEF Listened, Flooding
<1> QED BY <1>3, <1>4, <1>5, <1>6, <1>7, <1>8 DEF Program

\* The programs keep the invariant.
LEMMA HalInvProgram ==
  ASSUME HalInv, Program PROVE HalInv'
<1>1. /\ UNCHANGED <<inited, interface_mac, rx, wire, heard, ownVars, backend>> /\ index' \in Nat
      /\ \/ UNCHANGED call
         \/ call = Idle /\ (call'.op = "arp" => call'.ip \in Ip)
  BY ProgramCalls DEF HalInv, InitCall, ReceiveCall, MacCall, ArpCall, SendCall
<1>2. UNCHANGED <<arp_table, boardVars>>
  BY <1>1 DEF ownVars
<1>3. backend = "xilinx" => XInv'
  BY <1>1, <1>2, Untouched DEF HalInv, BoardInv, XInv, boardVars, Idle
<1> QED BY <1>1, <1>2, <1>3 DEF HalInv, MapInv, StdioInv, BoardInv, boardVars

\* Frames go from the middle of what waits.
LEMMA SeqWithout ==
  ASSUME NEW s, IsSeq(s), NEW n \in 1 .. Len(s) PROVE IsSeq(Without(s, n))
<1>1. Len(s) \in Nat
  BY SeqIs
<1>2. /\ 1 \in 1 .. Len(s) + 1 /\ n - 1 \in 0 .. Len(s)
      /\ n + 1 \in 1 .. Len(s) + 1 /\ Len(s) \in 0 .. Len(s)
  BY <1>1
<1>3. IsSeq(SubSeq(s, 1, n - 1)) /\ IsSeq(SubSeq(s, n + 1, Len(s)))
  BY <1>2, SeqSub
<1> QED BY <1>3, SeqConcat DEF Without

LEMMA SeqGrown ==
  ASSUME NEW s, IsSeq(s), NEW t, t = s \/ \E x : t = Append(s, x) PROVE IsSeq(t)
BY SeqAppend

\* A table of told entries stays one.
LEMMA PutTold ==
  ASSUME NEW entries, Put(entries), arp_table \subseteq heard, heard' = heard \cup entries
  PROVE  arp_table' \subseteq heard'
BY DEF Put

\* A frame that arrives waits, or is lost.
LEMMA Arrived ==
  ASSUME NEW f, Arrive(f), IsSeq(rx)
  PROVE  /\ IsSeq(rx') /\ (rx' = Append(rx, f) \/ UNCHANGED rx)
         /\ UNCHANGED <<call, result, inited, interface_mac, wire, heard>>
BY SeqAppend DEF Arrive

\* A call ends, or goes on.
LEMMA CallEnds ==
  ASSUME call.op = "arp" => call.ip \in Ip,
         UNCHANGED call \/ (\E r : ReturnWith(r)) \/ (\E c : Return(c)) \/ (\E m : TellMac(m)) \/ (\E f : Hand(f))
  PROVE  call'.op = "arp" => call'.ip \in Ip
BY DEF ReturnWith, Return, TellMac, Hand, Idle

\* Errors and HAL_GetInterfaceMacAddress, in every backend.
LEMMA CommonCalls ==
  ASSUME Refuse \/ GetInterfaceMac, call.op = "arp" => call.ip \in Ip
  PROVE  UNCHANGED <<inited, interface_mac, rx, wire, heard>> /\ (call'.op = "arp" => call'.ip \in Ip)
<1>1. (\E c : Return(c)) \/ (\E m : TellMac(m))
  BY DEF Refuse, Refused, GetInterfaceMac
<1>2. UNCHANGED <<inited, interface_mac, rx, wire, heard>>
  BY DEF Refuse, Refused, GetInterfaceMac
<1> QED BY <1>1, <1>2, CallEnds

\* The stdio backend keeps the invariant.
LEMMA HalInvStdio ==
  ASSUME HalInv, backend = "stdio", backend' = backend, index' = index, UNCHANGED boardVars,
         Stdio \/ StdioFeed
  PROVE  HalInv'
<1>1. MapInv /\ StdioInv /\ IsSeq(rx) /\ IsSeq(wire)
  BY DEF HalInv
<1>2. UNCHANGED <<txRing, step>>
  BY DEF boardVars
<1>3. ASSUME inited' \in BOOLEAN, IsSeq(rx'), IsSeq(wire'), call'.op = "arp" => call'.ip \in Ip,
             arp_table' \subseteq heard', StdioInv'
      PROVE  HalInv'
  BY <1>1, <1>2, <1>3 DEF HalInv, MapInv
<1>4. CASE UNCHANGED <<inited, interface_mac, rx, wire, heard, arp_table>> /\ (call'.op = "arp" => call'.ip \in Ip)
  BY <1>1, <1>3, <1>4 DEF HalInv, MapInv, StdioInv
<1>5. CASE StdioStart
  <2>1. CASE inited
    <3>1. \E c : Return(c)
      BY <1>5, <2>1 DEF StdioStart
    <3> QED BY <1>4, <1>5, <2>1, <3>1, CallEnds DEF StdioStart, HalInv
  <2>2. CASE ~inited
    <3>1. /\ interface_mac' = [i \in Iface |-> Me(i)] /\ Put(Own(interface_mac'))
          /\ heard' = heard \cup Own(interface_mac') /\ UNCHANGED <<rx, wire>>
          /\ inited' \in BOOLEAN /\ \E c : Return(c)
      BY <1>5, <2>2 DEF StdioStart, HalInv
    <3>2. arp_table' \subseteq heard'
      BY <1>1, <3>1, PutTold DEF MapInv
    <3> QED BY <1>1, <1>3, <3>1, <3>2, CallEnds DEF HalInv, StdioInv
  <2> QED BY <2>1, <2>2
<1>6. CASE StdioArp
  <2>1. (\E c : Return(c)) \/ (\E m : TellMac(m))
    BY <1>6 DEF StdioArp
  <2>2. IsSeq(wire')
    <3>1. UNCHANGED wire \/ \E f : wire' = Append(wire, f)
      BY <1>6 DEF StdioArp
    <3> QED BY <1>1, <3>1, SeqGrown
  <2> QED BY <1>1, <1>3, <1>6, <2>1, <2>2, CallEnds DEF StdioArp, HalInv, MapInv, StdioInv
<1>7. CASE StdioEof
  <2>1. \E c : Return(c)
    BY <1>7 DEF StdioEof
  <2> QED BY <1>4, <1>7, <2>1, CallEnds DEF StdioEof, HalInv
<1>8. ASSUME rx # <<>>, rx' = Tail(rx)
      PROVE  /\ IsSeq(rx')
             /\ StdioInv => \A n \in DOMAIN rx' : rx'[n] \in Frame /\ rx'[n].src # Me(rx'[n].port)
  <2>1. IsSeq(rx') /\ DOMAIN rx' = 1 .. Len(rx) - 1 /\ DOMAIN rx = 1 .. Len(rx) /\ Len(rx) \in Nat
        /\ \A n \in 1 .. Len(rx) - 1 : rx'[n] = rx[n + 1]
    BY <1>1, <1>8, SeqTail, SeqIs
  <2>2. \A n \in 1 .. Len(rx) - 1 : n + 1 \in 1 .. Len(rx)
    BY <2>1
  <2> QED BY <2>1, <2>2 DEF StdioInv
<1>9. CASE StdioIp
  <2>1. \E f : Hand(f)
    BY <1>9 DEF StdioIp
  <2> QED BY <1>1, <1>3, <1>8, <1>9, <2>1, CallEnds DEF StdioIp, HalInv, MapInv, StdioInv
<1>10. ASSUME NEW d \in {0, 1}, StdioOverhear(d) PROVE HalInv'
  <2>1. UNCHANGED call \/ \E c : Return(c)
    BY <1>10 DEF StdioOverhear, StdioAgain
  <2>2. IsSeq(wire') /\ arp_table' \subseteq heard'
    BY <1>1, <1>10, SeqAppend, PutTold DEF StdioOverhear, MapInv
  <2> QED BY <1>1, <1>3, <1>8, <1>10, <2>1, <2>2, CallEnds DEF StdioOverhear, HalInv, StdioInv
<1>11. ASSUME NEW d \in {0, 1}, StdioIgnore(d) PROVE HalInv'
  <2>1. UNCHANGED call \/ \E c : Return(c)
    BY <1>11 DEF StdioIgnore, StdioAgain
  <2> QED BY <1>1, <1>3, <1>8, <1>11, <2>1, CallEnds DEF StdioIgnore, HalInv, MapInv, StdioInv
<1>12. CASE StdioSend
  <2>1. \E c : Return(c)
    BY <1>12 DEF StdioSend
  <2>2. IsSeq(wire')
    BY <1>1, <1>12, SeqAppend DEF StdioSend
  <2> QED BY <1>1, <1>3, <1>12, <2>1, <2>2, CallEnds DEF StdioSend, HalInv, MapInv, StdioInv
<1>13. CASE (Refuse \/ GetInterfaceMac) /\ UNCHANGED <<arp_table, closed>>
  BY <1>4, <1>13, CommonCalls DEF HalInv
<1>14. CASE StdioFeed
  <2>1. CASE UNCHANGED apiVars /\ UNCHANGED arp_table
    BY <1>4, <2>1 DEF apiVars, HalInv
  <2>2. ASSUME NEW f \in Frame, f.src # Me(f.port), Arrive(f), UNCHANGED arp_table PROVE HalInv'
    <3>1. /\ IsSeq(rx') /\ (rx' = Append(rx, f) \/ UNCHANGED rx)
          /\ UNCHANGED <<call, result, inited, interface_mac, wire, heard>>
      BY <1>1, <2>2, Arrived
    <3>2. ASSUME NEW n \in DOMAIN rx' PROVE rx'[n] = f \/ (n \in DOMAIN rx /\ rx'[n] = rx[n])
      <4>1. CASE rx' = Append(rx, f)
        <5>1. DOMAIN rx' = 1 .. Len(rx) + 1 /\ DOMAIN rx = 1 .. Len(rx) /\ Len(rx) \in Nat
              /\ rx'[Len(rx) + 1] = f /\ \A k \in 1 .. Len(rx) : rx'[k] = rx[k]
          BY <1>1, <3>1, <4>1, SeqAppend, SeqIs
        <5>2. n = Len(rx) + 1 \/ n \in 1 .. Len(rx)
          BY <3>2, <5>1
        <5> QED BY <5>1, <5>2
      <4> QED BY <3>1, <4>1
    <3> QED BY <1>1, <1>3, <2>2, <3>1, <3>2 DEF HalInv, MapInv, StdioInv
  <2> QED BY <1>14, <2>1, <2>2 DEF StdioFeed
<1> QED BY <1>5, <1>6, <1>7, <1>9, <1>10, <1>11, <1>12, <1>13, <1>14 DEF Stdio

\* HAL_JoinIGMPGroup: one packet of the router on each of the ports.
LEMMA JoinsAre ==
  ASSUME NEW ports \in SUBSET Iface, NEW mac
  PROVE  /\ IsSeq(Joins(ports, mac))
         /\ \A n \in 1 .. Len(Joins(ports, mac)) :
              LET f == Joins(ports, mac)[n] IN f.kind = "ip" /\ f.dst = JoinMac /\ f.src = mac[f.port]
<1> DEFINE nth(n) == CHOOSE i \in ports : Cardinality({j \in ports : j < i}) = n - 1
           k == Cardinality(ports)
           s == [n \in 1 .. k |-> IpFrame(nth(n), mac[nth(n)], JoinMac, Join)]
<1>1. k \in Nat
  <2>1. NIface \in Nat
    BY ApiAssumption
  <2>2. IsFiniteSet(Iface)
    BY <2>1, FS_Interval DEF Iface
  <2> QED BY <2>2, FS_Subset, FS_CardinalityType
<1>2. Joins(ports, mac) = s
  BY DEF Joins
<1> HIDE DEF nth, k
<1>3. s = [n \in 1 .. k |-> s[n]]
  OBVIOUS
<1>4. \A n \in 1 .. k : s[n].kind = "ip" /\ s[n].dst = JoinMac /\ s[n].src = mac[s[n].port]
  BY DEF IpFrame, MkFrame
<1> HIDE DEF s
<1> QED BY <1>1, <1>2, <1>3, <1>4, SeqMade

\* A frame pcap_next returns.
LEMMA WaitingIs ==
  ASSUME IsSeq(rx), NEW n \in Waiting
  PROVE  /\ n \in 1 .. Len(rx) /\ IsSeq(Without(rx, n)) /\ rx[n].port = port /\ Oldest(rx, n)
BY SeqWithout, SeqIs DEF Waiting

\* The macOS backend keeps the invariant.
LEMMA HalInvMac ==
  ASSUME HalInv, backend = "macOS", backend' = backend, index' = index, UNCHANGED boardVars,
         Mac \/ MacWorld
  PROVE  HalInv'
<1>1. MapInv /\ IsSeq(rx) /\ IsSeq(wire)
  BY DEF HalInv
<1>2. UNCHANGED <<txRing, step>>
  BY DEF boardVars
<1>3. ASSUME inited' \in BOOLEAN, IsSeq(rx'), IsSeq(wire'), call'.op = "arp" => call'.ip \in Ip,
             arp_table' \subseteq heard'
      PROVE  HalInv'
  BY <1>1, <1>2, <1>3 DEF HalInv, MapInv
<1>4. CASE UNCHANGED <<inited, rx, wire, heard, arp_table>> /\ (call'.op = "arp" => call'.ip \in Ip)
  BY <1>1, <1>3, <1>4 DEF HalInv, MapInv
<1>5. CASE MacStart
  <2>1. \E c : Return(c)
    BY <1>5 DEF MacStart
  <2>2. CASE UNCHANGED <<inited, interface_mac, arp_table, heard, open, wire>>
    BY <1>4, <1>5, <2>1, <2>2, CallEnds DEF MacStart, HalInv
  <2>3. CASE /\ inited' = TRUE
             /\ \E found \in SUBSET Present :
                  LET own == {<<i, MyIp(i), Me(i)>> : i \in found} IN
                    /\ interface_mac' = [i \in Iface |-> IF i \in found THEN Me(i) ELSE NoMac]
                    /\ Put(own)
                    /\ heard' = heard \cup own
             /\ open' \in SUBSET Present
             /\ \E taken \in SUBSET open' : wire' = wire \o Joins(taken, interface_mac')
    <3>1. PICK own : Put(own) /\ heard' = heard \cup own
      BY <2>3
    <3>2. arp_table' \subseteq heard'
      BY <1>1, <3>1, PutTold DEF MapInv
    <3>3. PICK taken \in SUBSET open' : wire' = wire \o Joins(taken, interface_mac')
      BY <2>3
    <3>4. taken \in SUBSET Iface
      BY <2>3, PresentAssumption
    <3>5. IsSeq(wire')
      BY <1>1, <3>3, <3>4, JoinsAre, SeqConcat
    <3> QED BY <1>1, <1>3, <1>5, <2>1, <2>3, <3>2, <3>5, CallEnds DEF HalInv, MacStart
  <2> QED BY <1>5, <2>2, <2>3 DEF MacStart
<1>6. CASE MacArp
  <2>1. (\E c : Return(c)) \/ (\E m : TellMac(m))
    BY <1>6 DEF MacArp
  <2>2. IsSeq(wire')
    <3>1. UNCHANGED wire \/ \E f : wire' = Append(wire, f)
      BY <1>6 DEF MacArp, Inject
    <3> QED BY <1>1, <3>1, SeqGrown
  <2> QED BY <1>1, <1>3, <1>6, <2>1, <2>2, CallEnds DEF MacArp, HalInv, MapInv
<1>7. CASE MacNoPort
  <2>1. \E c : Return(c)
    BY <1>7 DEF MacNoPort
  <2> QED BY <1>4, <1>7, <2>1, CallEnds DEF MacNoPort, HalInv
<1>8. CASE MacIp
  <2>1. IsSeq(rx') /\ \E f : Hand(f)
    BY <1>1, <1>8, WaitingIs DEF MacIp
  <2> QED BY <1>1, <1>3, <1>8, <2>1, CallEnds DEF MacIp, HalInv, MapInv
<1>9. CASE MacSend
  <2>1. (\E c : Return(c)) /\ (UNCHANGED wire \/ \E f : wire' = Append(wire, f))
    BY <1>9 DEF MacSend
  <2>2. IsSeq(wire')
    BY <1>1, <2>1, SeqGrown
  <2> QED BY <1>1, <1>3, <1>9, <2>1, <2>2, CallEnds DEF MacSend, HalInv, MapInv
<1>10. ASSUME NEW d \in {0, 1}, MacNext(d) \/ MacOwn(d) PROVE HalInv'
  <2>1. UNCHANGED call \/ \E c : Return(c)
    BY <1>10 DEF MacNext, MacOwn, MacAgain
  <2>2. IsSeq(rx')
    BY <1>1, <1>10, WaitingIs DEF MacNext, MacOwn
  <2>3. UNCHANGED <<inited, wire, heard, arp_table>>
    BY <1>10 DEF MacNext, MacOwn
  <2> QED BY <1>1, <1>3, <2>1, <2>2, <2>3, CallEnds DEF HalInv, MapInv
<1>11. ASSUME NEW d \in {0, 1}, MacOverhear(d) PROVE HalInv'
  <2>1. UNCHANGED call \/ \E c : Return(c)
    BY <1>11 DEF MacOverhear, MacAgain
  <2>2. PICK n \in Waiting : /\ rx' = Without(rx, n) /\ Put(Told(rx[n])) /\ heard' = heard \cup Told(rx[n])
                             /\ UNCHANGED wire \/ \E f : wire' = Append(wire, f)
    BY <1>11 DEF MacOverhear, Inject
  <2>3. IsSeq(rx') /\ IsSeq(wire') /\ arp_table' \subseteq heard'
    <3>1. IsSeq(rx')
      BY <1>1, <2>2, WaitingIs
    <3>2. IsSeq(wire')
      BY <1>1, <2>2, SeqGrown
    <3>3. arp_table' \subseteq heard'
      BY <1>1, <2>2, PutTold DEF MapInv
    <3> QED BY <3>1, <3>2, <3>3
  <2>4. UNCHANGED inited
    BY <1>11 DEF MacOverhear
  <2> QED BY <1>1, <1>3, <2>1, <2>3, <2>4, CallEnds DEF HalInv
<1>12. CASE (Refuse \/ GetInterfaceMac) /\ UNCHANGED <<arp_table, open, asked, port>>
  BY <1>4, <1>12, CommonCalls DEF HalInv
<1>13. CASE MacWorld
  <2>1. CASE UNCHANGED apiVars /\ UNCHANGED arp_table
    BY <1>4, <2>1 DEF apiVars, HalInv
  <2>2. ASSUME NEW f, Arrive(f), UNCHANGED arp_table PROVE HalInv'
    <3>1. /\ IsSeq(rx') /\ UNCHANGED <<call, inited, wire, heard>>
      BY <1>1, <2>2, Arrived
    <3> QED BY <1>1, <1>3, <2>2, <3>1 DEF HalInv, MapInv
  <2> QED BY <1>13, <2>1, <2>2 DEF MacWorld
<1> QED BY <1>5, <1>6, <1>7, <1>8, <1>9, <1>10, <1>11, <1>12, <1>13 DEF Mac

-----------------------------------------------------------------------------
(* The rings as the program sees them                                      *)

\* The frames of receive ring r that are done, and those transmit ring r still
\* has to send, where buf holds the buffers.
DoneFrames(buf, r) == [n \in 1 .. r.done |-> buf[Bd(r, r.post + n - 1)]]
OwnedFrames(buf, r) == [n \in 1 .. r.hw - r.done |-> buf[Bd(r, r.post + r.done + n - 1)]]

\* Descriptors that are less than a round apart are different ones.
LEMMA BdIs ==
  ASSUME NEW r \in Ring, NEW n \in 0 .. BdCount
  PROVE  /\ Bd(r, n) \in Buffer
         /\ Bd(r, n) = IF r.head + n < BdCount THEN r.head + n ELSE r.head + n - BdCount
<1>1. BdCount \in Nat \ {0} /\ r.head \in 0 .. BdCount - 1
  BY RingFields DEF Numbers
<1>2. r.head + n \in Nat /\ r.head + n < BdCount + BdCount
  BY <1>1
<1>3. (r.head + n) % BdCount = IF r.head + n < BdCount THEN r.head + n ELSE r.head + n - BdCount
  BY <1>1, <1>2
<1> QED BY <1>1, <1>2, <1>3 DEF Bd, Buffer

LEMMA BdApart ==
  ASSUME NEW r \in Ring, NEW m \in 0 .. BdCount - 1, NEW n \in 0 .. BdCount - 1, m # n
  PROVE  Bd(r, m) # Bd(r, n)
<1>1. BdCount \in Nat \ {0} /\ r.head \in 0 .. BdCount - 1
  BY RingFields DEF Numbers
<1>2. m \in 0 .. BdCount /\ n \in 0 .. BdCount
  BY <1>1
<1> QED BY <1>1, <1>2, BdIs

\* A ring whose head is k further counts from there.
LEMMA BdFurther ==
  ASSUME NEW r \in Ring, NEW q \in Ring, NEW k \in Nat, q.head = (r.head + k) % BdCount,
         NEW n \in Nat, k + n <= BdCount
  PROVE  Bd(q, n) = Bd(r, k + n)
<1>1. BdCount \in Nat \ {0} /\ r.head \in 0 .. BdCount - 1 /\ q.head \in 0 .. BdCount - 1
  BY RingFields DEF Numbers
<1>2. k \in 0 .. BdCount /\ n \in 0 .. BdCount /\ k + n \in 0 .. BdCount
  BY <1>1
<1>3. q.head = IF r.head + k < BdCount THEN r.head + k ELSE r.head + k - BdCount
  BY <1>2, BdIs DEF Bd
<1> QED BY SMTT(30), <1>1, <1>2, <1>3, BdIs

\* Both are sequences.
LEMMA DoneAre ==
  ASSUME NEW buf, NEW r \in Ring
  PROVE  /\ IsSeq(DoneFrames(buf, r)) /\ Len(DoneFrames(buf, r)) = r.done /\ r.done \in Nat
         /\ \A n \in 1 .. r.done : DoneFrames(buf, r)[n] = buf[Bd(r, r.post + n - 1)]
<1> DEFINE s == DoneFrames(buf, r)
<1>1. r.done \in Nat
  BY RingFields DEF Numbers
<1>2. \A n \in 1 .. r.done : s[n] = buf[Bd(r, r.post + n - 1)]
  BY DEF DoneFrames
<1>3. s = [n \in 1 .. r.done |-> s[n]]
  BY DEF DoneFrames
<1> HIDE DEF s
<1>4. IsSeq(s) /\ Len(s) = r.done
  BY <1>1, <1>3, SeqMade
<1> QED BY <1>1, <1>2, <1>4 DEF s

LEMMA OwnedAre ==
  ASSUME NEW buf, NEW r, Consistent(r)
  PROVE  /\ IsSeq(OwnedFrames(buf, r)) /\ Len(OwnedFrames(buf, r)) = r.hw - r.done /\ r.hw - r.done \in Nat
         /\ \A n \in 1 .. r.hw - r.done : OwnedFrames(buf, r)[n] = buf[Bd(r, r.post + r.done + n - 1)]
<1> DEFINE s == OwnedFrames(buf, r)
           k == r.hw - r.done
<1>1. k \in Nat
  BY RingFields DEF Numbers, Consistent
<1>2. \A n \in 1 .. k : s[n] = buf[Bd(r, r.post + r.done + n - 1)]
  BY DEF OwnedFrames
<1>3. s = [n \in 1 .. k |-> s[n]]
  BY DEF OwnedFrames
<1> HIDE DEF s, k
<1>4. IsSeq(s) /\ Len(s) = k
  BY <1>1, <1>3, SeqMade
<1> QED BY <1>1, <1>2, <1>4 DEF s, k

\* What a receive takes off the ring is the oldest frame that is done.
LEMMA FetchedFrame ==
  ASSUME NEW buf, NEW r, Consistent(r), r.post = 0, Returned(r, 1) = 1
  PROVE  /\ 1 \in 1 .. Len(DoneFrames(buf, r)) /\ DoneFrames(buf, r) # <<>>
         /\ buf[PostBd(Fetched(r, 1))] = DoneFrames(buf, r)[1]
         /\ DoneFrames(buf, Fetched(r, 1)) = Tail(DoneFrames(buf, r))
<1> DEFINE q == Fetched(r, 1)
           s == DoneFrames(buf, r)
           t == DoneFrames(buf, q)
<1>1. /\ q \in Ring /\ r \in Ring /\ q.head = r.head /\ q.post = 1 /\ q.done = r.done - 1 /\ r.done >= 1
      /\ r.done \in Nat /\ r.head \in Nat /\ BdCount \in Nat \ {0}
  BY FetchOne, RingFields DEF Consistent, Numbers
<1>2. /\ IsSeq(s) /\ Len(s) = r.done /\ \A n \in 1 .. r.done : s[n] = buf[Bd(r, n - 1)]
  <2>1. \A n \in 1 .. r.done : r.post + n - 1 = n - 1
    BY <1>1
  <2> QED BY <1>1, <2>1, DoneAre
<1>3. /\ IsSeq(t) /\ Len(t) = r.done - 1 /\ \A n \in 1 .. r.done - 1 : t[n] = buf[Bd(q, n)]
  <2>1. \A n \in 1 .. r.done - 1 : q.post + n - 1 = n
    BY <1>1
  <2> QED BY <1>1, <2>1, DoneAre
<1>4. \A n : Bd(q, n) = Bd(r, n)
  BY <1>1 DEF Bd
<1> HIDE DEF q, s, t
<1>5. s # <<>> /\ 1 \in 1 .. Len(s)
  BY <1>1, <1>2
<1>6. s[1] = buf[PostBd(q)]
  <2>1. s[1] = buf[Bd(r, 1 - 1)]
    BY <1>1, <1>2
  <2> QED BY <1>4, <2>1 DEF PostBd
<1>7. t = Tail(s)
  <2>1. IsSeq(Tail(s)) /\ Len(Tail(s)) = r.done - 1 /\ \A n \in 1 .. r.done - 1 : Tail(s)[n] = s[n + 1]
    BY <1>2, <1>5, SeqTail
  <2>2. ASSUME NEW n \in 1 .. r.done - 1 PROVE t[n] = Tail(s)[n]
    <3>1. n + 1 \in 1 .. r.done /\ (n + 1) - 1 = n
      BY <1>1
    <3>2. s[n + 1] = buf[Bd(r, n)]
      BY <1>2, <3>1
    <3> QED BY <1>3, <1>4, <2>1, <3>2
  <2> QED BY <1>3, <2>1, <2>2, SeqSame
<1> QED BY <1>5, <1>6, <1>7 DEF q, s, t

\* What is put back is not waited for.
LEMMA PutBackFrames ==
  ASSUME NEW buf, NEW r, Consistent(r), r.post = 1, r.pre = 0
  PROVE  DoneFrames(buf, PutBack(r)) = DoneFrames(buf, r)
<1> DEFINE q == PutBack(r)
           s == DoneFrames(buf, r)
           t == DoneFrames(buf, q)
<1>1. /\ q \in Ring /\ r \in Ring /\ q.head = (r.head + 1) % BdCount /\ q.post = 0 /\ q.done = r.done
      /\ r.done \in Nat /\ r.done + 1 <= BdCount /\ BdCount \in Nat
  BY PutBackOne, RingFields DEF Consistent, Numbers
<1>2. /\ IsSeq(s) /\ Len(s) = r.done /\ \A n \in 1 .. r.done : s[n] = buf[Bd(r, n)]
  <2>1. \A n \in 1 .. r.done : r.post + n - 1 = n
    BY <1>1
  <2> QED BY <1>1, <2>1, DoneAre
<1>3. /\ IsSeq(t) /\ Len(t) = r.done /\ \A n \in 1 .. r.done : t[n] = buf[Bd(q, n - 1)]
  <2>1. \A n \in 1 .. r.done : q.post + n - 1 = n - 1
    BY <1>1
  <2> QED BY <1>1, <2>1, DoneAre
<1> HIDE DEF q, s, t
<1>4. ASSUME NEW n \in 1 .. r.done PROVE Bd(q, n - 1) = Bd(r, n)
  <2>1. n - 1 \in Nat /\ 1 + (n - 1) <= BdCount /\ 1 + (n - 1) = n
    BY <1>1
  <2> QED BY <1>1, <2>1, BdFurther
<1>5. t = s
  BY <1>2, <1>3, <1>4, SeqSame
<1> QED BY <1>5 DEF q, s, t

\* The hardware writes the next frame that waits, and not the one that is held.
LEMMA CompletedFrames ==
  ASSUME NEW buf, NEW r, Consistent(r), r.done < r.hw, DOMAIN buf = Buffer, NEW f
  PROVE  LET new == [buf EXCEPT ![NextDone(r)] = f]
         IN  /\ NextDone(r) \in Buffer
             /\ DoneFrames(new, Completed(r)) = Append(DoneFrames(buf, r), f)
             /\ r.post = 1 => new[PostBd(Completed(r))] = buf[PostBd(r)]
<1> DEFINE q == Completed(r)
           new == [buf EXCEPT ![NextDone(r)] = f]
           s == DoneFrames(buf, r)
           t == DoneFrames(new, q)
           a == Append(s, f)
           last == r.post + r.done
<1>1. /\ q \in Ring /\ r \in Ring /\ q.head = r.head /\ q.post = r.post /\ q.done = r.done + 1
      /\ r.done \in Nat /\ r.post \in Nat /\ r.post + r.done < BdCount /\ BdCount \in Nat \ {0}
  BY CompleteOne, RingFields DEF Consistent, Numbers
<1>2. /\ IsSeq(s) /\ Len(s) = r.done /\ \A n \in 1 .. r.done : s[n] = buf[Bd(r, r.post + n - 1)]
  BY <1>1, DoneAre
<1>3. /\ IsSeq(t) /\ Len(t) = r.done + 1 /\ \A n \in 1 .. r.done + 1 : t[n] = new[Bd(q, r.post + n - 1)]
  <2> HIDE DEF new, q
  <2> QED BY <1>1, DoneAre
<1>4. \A n : Bd(q, n) = Bd(r, n)
  BY <1>1 DEF Bd
<1>5. last \in 0 .. BdCount - 1 /\ NextDone(r) = Bd(r, last) /\ Bd(r, last) \in Buffer
  BY <1>1, BdIs DEF NextDone
<1>6. /\ new[Bd(r, last)] = f
      /\ \A n \in 0 .. BdCount - 1 : n # last => new[Bd(r, n)] = buf[Bd(r, n)]
  <2>1. \A n \in 0 .. BdCount - 1 : n # last => Bd(r, n) # Bd(r, last)
    BY <1>1, <1>5, BdApart
  <2> QED BY <1>5, <2>1
<1>7. /\ IsSeq(a) /\ Len(a) = r.done + 1 /\ a[r.done + 1] = f
      /\ \A n \in 1 .. r.done : a[n] = s[n]
  BY <1>2, SeqAppend
<1> HIDE DEF q, new, s, t, a
<1>8. ASSUME NEW n \in 1 .. r.done + 1 PROVE t[n] = a[n]
  <2>1. t[n] = new[Bd(r, r.post + n - 1)]
    BY <1>3, <1>4
  <2>2. CASE n = r.done + 1
    <3>1. r.post + n - 1 = last
      BY <1>1, <2>2
    <3> QED BY <1>6, <1>7, <2>1, <2>2, <3>1
  <2>3. CASE n # r.done + 1
    <3>1. n \in 1 .. r.done /\ r.post + n - 1 \in 0 .. BdCount - 1 /\ r.post + n - 1 # last
      BY <1>1, <2>3
    <3> HIDE DEF last
    <3> QED BY <1>2, <1>6, <1>7, <2>1, <3>1
  <2> QED BY <2>2, <2>3
<1>9. t = a
  BY <1>3, <1>7, <1>8, SeqSame
<1>10. r.post = 1 => new[PostBd(q)] = buf[PostBd(r)]
  <2>1. r.post = 1 => 0 \in 0 .. BdCount - 1 /\ 0 # last
    BY <1>1
  <2> QED BY <1>4, <1>6, <2>1 DEF PostBd
<1> QED BY <1>5, <1>9, <1>10 DEF q, new, s, t, a

\* The transmitter sends the oldest of the frames it was handed.
LEMMA SentFrame ==
  ASSUME NEW buf, NEW r, Consistent(r), r.done < r.hw
  PROVE  /\ OwnedFrames(buf, r) # <<>> /\ buf[NextDone(r)] = Head(OwnedFrames(buf, r))
         /\ OwnedFrames(buf, Completed(r)) = Tail(OwnedFrames(buf, r))
<1> DEFINE q == Completed(r)
           s == OwnedFrames(buf, r)
           t == OwnedFrames(buf, q)
           k == r.hw - r.done
<1>1. /\ Consistent(q) /\ q.head = r.head /\ q.post = r.post /\ q.done = r.done + 1 /\ q.hw = r.hw
      /\ r.done \in Nat /\ r.post \in Nat /\ k \in Nat /\ k >= 1 /\ r.hw \in Nat
  BY CompleteOne, RingFields DEF Consistent, Numbers
<1>2. /\ IsSeq(s) /\ Len(s) = k /\ \A n \in 1 .. k : s[n] = buf[Bd(r, r.post + r.done + n - 1)]
  BY <1>1, OwnedAre
<1>3. /\ IsSeq(t) /\ Len(t) = k - 1
      /\ \A n \in 1 .. k - 1 : t[n] = buf[Bd(q, r.post + r.done + n)]
  <2>1. q.hw - q.done = k - 1 /\ \A n \in 1 .. k - 1 : q.post + q.done + n - 1 = r.post + r.done + n
    BY <1>1
  <2>2. /\ IsSeq(t) /\ Len(t) = q.hw - q.done
        /\ \A n \in 1 .. q.hw - q.done : t[n] = buf[Bd(q, q.post + q.done + n - 1)]
    BY <1>1, OwnedAre
  <2> HIDE DEF k, q, t
  <2> QED BY <2>1, <2>2
<1>4. \A n : Bd(q, n) = Bd(r, n)
  BY <1>1 DEF Bd
<1> HIDE DEF q, s, t, k
<1>5. s # <<>> /\ Head(s) = s[1] /\ IsSeq(Tail(s)) /\ Len(Tail(s)) = k - 1
      /\ \A n \in 1 .. k - 1 : Tail(s)[n] = s[n + 1]
  <2>1. s # <<>>
    BY <1>1, <1>2
  <2> QED BY <1>2, <2>1, SeqTail
<1>6. buf[NextDone(r)] = s[1]
  <2>1. 1 \in 1 .. k /\ r.post + r.done + 1 - 1 = r.post + r.done
    BY <1>1
  <2> QED BY <1>2, <2>1 DEF NextDone
<1>7. ASSUME NEW n \in 1 .. k - 1 PROVE t[n] = Tail(s)[n]
  <2>1. n + 1 \in 1 .. k /\ r.post + r.done + (n + 1) - 1 = r.post + r.done + n
    BY <1>1
  <2> QED BY <1>2, <1>3, <1>4, <1>5, <2>1
<1>8. t = Tail(s)
  BY <1>3, <1>5, <1>7, SeqSame
<1> QED BY <1>5, <1>6, <1>8 DEF q, s, t

\* A frame that is handed to the transmitter is its last.
LEMMA TransmittedFrames ==
  ASSUME TxSound, NEW f, Transmit(f), DOMAIN txBuffers = Buffer
  PROVE  /\ OwnedFrames(txBuffers', txRing') = Append(OwnedFrames(txBuffers, txRing), f)
         /\ DOMAIN txBuffers' = Buffer
<1> DEFINE r == txRing
           q == Reclaimed
           p == txRing'
           k == r.hw - r.done
           s == OwnedFrames(txBuffers, r)
           t == OwnedFrames(txBuffers', p)
           a == Append(s, f)
<1>1. PICK j \in 0 .. r.done : q.head = (r.head + j) % BdCount /\ q.hw = r.hw - j /\ q.done = r.done - j
  BY ReclaimedRing DEF Transmit
<1>2. /\ q \in Ring /\ q.post = 0 /\ q.pre = 0 /\ q.hw < BdCount /\ q.hw \in Nat /\ q.done \in Nat
      /\ q.done <= q.hw /\ BdCount \in Nat \ {0}
  BY ReclaimedRing, RingFields DEF Transmit, Consistent, Numbers
<1>3. /\ Consistent(r) /\ r \in Ring /\ r.post = 0 /\ r.hw \in Nat /\ r.done \in Nat /\ r.hw <= BdCount
      /\ r.done <= r.hw
  BY RingFields DEF TxSound, Consistent, Numbers
<1>4. /\ Consistent(p) /\ p.post = 0 /\ p.head = q.head /\ p.done = q.done /\ p.hw = q.hw + 1
  BY TransmitOne DEF TxSound
<1>5. /\ FreeBd(q) = Bd(q, q.hw) /\ Bd(q, q.hw) \in Buffer
      /\ txBuffers' = [txBuffers EXCEPT ![Bd(q, q.hw)] = f]
  <2>1. 0 + q.hw + 0 = q.hw /\ q.hw \in 0 .. BdCount
    BY <1>2
  <2>2. FreeBd(q) = Bd(q, q.hw)
    BY <1>2, <2>1 DEF FreeBd
  <2> QED BY <1>2, <2>1, <2>2, BdIs DEF Transmit
<1>6. \A n : Bd(p, n) = Bd(q, n)
  BY <1>4 DEF Bd
<1>7. /\ IsSeq(s) /\ Len(s) = k /\ k \in Nat /\ \A n \in 1 .. k : s[n] = txBuffers[Bd(r, r.done + n - 1)]
  <2>1. \A n \in 1 .. k : r.post + r.done + n - 1 = r.done + n - 1
    BY <1>3
  <2>2. /\ IsSeq(s) /\ Len(s) = k /\ k \in Nat
        /\ \A n \in 1 .. k : s[n] = txBuffers[Bd(r, r.post + r.done + n - 1)]
    BY <1>3, OwnedAre
  <2> HIDE DEF k, s
  <2> QED BY <2>1, <2>2
<1>8. /\ IsSeq(t) /\ Len(t) = k + 1
      /\ \A n \in 1 .. k + 1 : t[n] = txBuffers'[Bd(p, q.done + n - 1)]
  <2>1. p.hw - p.done = k + 1
    BY <1>1, <1>3, <1>4
  <2>3. \A n \in 1 .. k + 1 : p.post + p.done + n - 1 = q.done + n - 1
    BY <1>2, <1>4, <1>7
  <2>2. /\ IsSeq(t) /\ Len(t) = p.hw - p.done
        /\ \A n \in 1 .. p.hw - p.done : t[n] = txBuffers'[Bd(p, p.post + p.done + n - 1)]
    BY <1>4, OwnedAre
  <2> HIDE DEF k, p, t
  <2> QED BY <2>1, <2>2, <2>3
<1>9. /\ IsSeq(a) /\ Len(a) = k + 1 /\ a[k + 1] = f
      /\ \A n \in 1 .. k : a[n] = s[n]
  BY <1>7, SeqAppend
<1> HIDE DEF s, t, a, p
<1>10. ASSUME NEW n \in 1 .. k + 1 PROVE t[n] = a[n]
  <2>1. t[n] = txBuffers'[Bd(q, q.done + n - 1)]
    BY <1>6, <1>8
  <2>2. CASE n = k + 1
    <3>1. q.done + n - 1 = q.hw
      BY <1>1, <1>2, <1>3, <2>2
    <3> QED BY <1>5, <1>9, <2>1, <2>2, <3>1
  <2>3. CASE n # k + 1
    <3> DEFINE m == q.done + n - 1
    <3>1. n \in 1 .. k /\ m \in 0 .. BdCount - 1 /\ m # q.hw /\ q.hw \in 0 .. BdCount - 1
          /\ j + m = r.done + n - 1 /\ j + m <= BdCount /\ m \in Nat /\ j \in Nat
      BY <1>1, <1>2, <1>3, <2>3
    <3> HIDE DEF m, q, k
    <3>2. Bd(q, m) # Bd(q, q.hw)
      BY <1>2, <3>1, BdApart
    <3>3. Bd(q, m) = Bd(r, j + m)
      BY <1>1, <1>2, <1>3, <3>1, BdFurther
    <3>4. txBuffers'[Bd(q, m)] = txBuffers[Bd(q, m)]
      BY <1>5, <3>2
    <3> QED BY <1>7, <1>9, <2>1, <3>1, <3>3, <3>4 DEF m
  <2> QED BY <2>2, <2>3
<1>11. t = a
  BY <1>8, <1>9, <1>10, <1>7, SeqSame
<1>12. DOMAIN txBuffers' = Buffer
  BY <1>5
<1> QED BY <1>11, <1>12 DEF s, t, a, p

\* Every set of numbers but the empty one has a least member.
LEMMA Least ==
  ASSUME NEW S \in SUBSET Nat, S # {}
  PROVE \E n \in S : \A m \in S : n <= m
<1> DEFINE F == {0 .. n : n \in S}
<1>1. F \subseteq FiniteSubsetsOf(Nat) /\ F # {}
  <2>1. \A n \in S : IsFiniteSet(0 .. n)
    BY FS_Interval
  <2>2. \A n \in S : 0 .. n \in SUBSET Nat
    OBVIOUS
  <2>3. \A n \in S : 0 .. n \in FiniteSubsetsOf(Nat)
    BY <2>1, <2>2 DEF FiniteSubsetsOf
  <2> HIDE DEF FiniteSubsetsOf
  <2> QED BY <2>3
<1>2. PICK x \in F : \A y \in F : ~ (<<y, x>> \in StrictSubsetOrdering(Nat))
  <2> HIDE DEF F
  <2> QED BY <1>1, FS_StrictSubsetOrderingWellFounded, WFMin
<1>3. PICK n \in S : x = 0 .. n
  OBVIOUS
<1>4. ASSUME NEW m \in S, m < n PROVE FALSE
  <2> DEFINE y == 0 .. m
  <2>1. y \in F /\ y \in SUBSET Nat /\ x \in SUBSET Nat
    BY <1>3
  <2>2. y \subseteq x /\ n \in x /\ n \notin y
    BY <1>3, <1>4
  <2> HIDE DEF F, y
  <2>3. <<y, x>> \in StrictSubsetOrdering(Nat)
    BY <2>1, <2>2 DEF StrictSubsetOrdering
  <2> QED BY <1>2, <2>1, <2>3
<1> QED BY <1>4

-----------------------------------------------------------------------------
(* The board                                                               *)

\* The ARP table has what it had and what f told.
LEMMA LearnedTold ==
  ASSUME BoardInv, NEW f
  PROVE  /\ DOMAIN Learned(f) = 1 .. ArpTableSize
         /\ \A n \in 1 .. ArpTableSize :
              Learned(f)[n] \in heard \cup Told(f) \/ Learned(f)[n] = <<0, NoIp, NoMac>>
<1> DEFINE c == CHOOSE n \in Same(f) : \A m \in Same(f) : n <= m
<1>1. /\ DOMAIN arpTable = 1 .. ArpTableSize /\ Entry(f) \in Told(f)
      /\ \A n \in 1 .. ArpTableSize : arpTable[n] \in heard \/ arpTable[n] = <<0, NoIp, NoMac>>
  BY DEF BoardInv, Entry, Told
<1>2. CASE Same(f) # {}
  <2>1. Learned(f) = [arpTable EXCEPT ![c] = Entry(f)]
    BY <1>2 DEF Learned
  <2> HIDE DEF c
  <2> QED BY <1>1, <2>1
<1>3. CASE Same(f) = {}
  <2>1. Learned(f) = [n \in DOMAIN arpTable |-> IF n = 1 THEN Entry(f) ELSE arpTable[n - 1]]
    BY <1>3 DEF Learned
  <2>2. \A n \in 1 .. ArpTableSize : n = 1 \/ n - 1 \in 1 .. ArpTableSize
    BY XilinxAssumption
  <2> QED BY <1>1, <2>1, <2>2
<1> QED BY <1>2, <1>3

\* An entry that is found was told.
LEMMA HitTold ==
  ASSUME BoardInv, NEW i, NEW ip \in Ip, Hits(i, ip) # {}
  PROVE  LET t == arpTable[FirstHit(i, ip)] IN t \in heard /\ t[1] = i /\ t[2] = ip
<1>1. Hits(i, ip) \subseteq Nat
  BY DEF Hits, BoardInv
<1>2. \E n \in Hits(i, ip) : \A m \in Hits(i, ip) : n <= m
  BY <1>1, Least
<1>3. FirstHit(i, ip) \in Hits(i, ip)
  BY <1>2 DEF FirstHit
<1>4. /\ arpTable[FirstHit(i, ip)] \in heard \/ arpTable[FirstHit(i, ip)] = <<0, NoIp, NoMac>>
      /\ arpTable[FirstHit(i, ip)][1] = i /\ arpTable[FirstHit(i, ip)][2] = ip
  BY <1>3 DEF Hits, BoardInv
<1>5. ip # NoIp
  BY NoIpAssumption
<1>6. arpTable[FirstHit(i, ip)] # <<0, NoIp, NoMac>>
  BY <1>4, <1>5
<1> QED BY <1>4, <1>6

\* The board keeps the invariant.
LEMMA HalInvXilinx ==
  ASSUME HalInv, backend = "xilinx", backend' = backend, index' = index,
         Xilinx \/ XilinxFill \/ XilinxDrain \/ XilinxClock
  PROVE  HalInv'
<1>1. BoardInv /\ XInv /\ IsSeq(rx) /\ IsSeq(wire) /\ (call.op = "arp" => call.ip \in Ip)
  BY DEF HalInv, BoardInv
<1>2. XInv'
  BY <1>1, CallStep, FillStep, DrainStep, Untouched DEF XilinxClock, apiVars
<1>0. DOMAIN txBuffers' = Buffer
  <2>1. UNCHANGED txBuffers \/ \E f : Transmit(f)
    BY DEF Xilinx, XilinxStart, XilinxArp, XilinxSend, XilinxBegin, XilinxTimeout, XilinxIp, XilinxIgnore,
           XilinxOverhear, XilinxReply, boardVars, XilinxFill, XilinxDrain, XilinxClock
  <2> QED BY <1>1, <2>1 DEF Transmit, BoardInv
<1>3. ASSUME inited' \in BOOLEAN, UNCHANGED rx, IsSeq(wire'), call'.op = "arp" => call'.ip \in Ip,
             inited' => interface_mac' = [i \in Iface |-> BoardMac],
             DOMAIN arpTable' = 1 .. ArpTableSize,
             \A n \in 1 .. ArpTableSize : arpTable'[n] \in heard' \/ arpTable'[n] = <<0, NoIp, NoMac>>,
             DOMAIN rxBuffers' = Buffer,
             \A b \in Buffer : rxBuffers'[b].src # BoardMac /\ rxBuffers'[b].port \in Iface
      PROVE  HalInv'
  BY <1>0, <1>1, <1>2, <1>3 DEF HalInv, BoardInv
<1>4. ASSUME UNCHANGED <<rx, wire, heard, rxBuffers, arpTable>>, call'.op = "arp" => call'.ip \in Ip,
             UNCHANGED <<inited, interface_mac>>
             \/ (inited' = TRUE /\ interface_mac' = [i \in Iface |-> BoardMac])
      PROVE  HalInv'
  <2>1. inited' \in BOOLEAN /\ (inited' => interface_mac' = [i \in Iface |-> BoardMac])
    <3>1. inited \in BOOLEAN /\ (inited => interface_mac = [i \in Iface |-> BoardMac])
      BY <1>1 DEF HalInv, BoardInv
    <3>2. CASE inited' = inited /\ interface_mac' = interface_mac
      BY <3>1, <3>2
    <3>3. CASE inited' = TRUE /\ interface_mac' = [i \in Iface |-> BoardMac]
      BY <3>3
    <3> QED BY <1>4, <3>2, <3>3
  <2>2. /\ DOMAIN arpTable' = 1 .. ArpTableSize /\ DOMAIN rxBuffers' = Buffer
        /\ \A n \in 1 .. ArpTableSize : arpTable'[n] \in heard' \/ arpTable'[n] = <<0, NoIp, NoMac>>
        /\ \A b \in Buffer : rxBuffers'[b].src # BoardMac /\ rxBuffers'[b].port \in Iface
    BY <1>1, <1>4 DEF BoardInv
  <2> QED BY <1>1, <1>3, <1>4, <2>1, <2>2
<1>5. CASE XilinxStart
  <2>1. \E c : Return(c)
    BY <1>5 DEF XilinxStart
  <2> QED BY <1>1, <1>4, <1>5, <2>1, CallEnds DEF XilinxStart
<1>6. CASE XilinxArp
  <2>1. (\E c : Return(c)) \/ (\E m : TellMac(m))
    BY <1>6 DEF XilinxArp
  <2> QED BY <1>1, <1>4, <1>6, <2>1, CallEnds DEF XilinxArp
<1>7. CASE XilinxSend
  <2>1. \E c : Return(c)
    BY <1>7 DEF XilinxSend
  <2> QED BY <1>1, <1>4, <1>7, <2>1, CallEnds DEF XilinxSend
<1>8. CASE XilinxBegin \/ XilinxIgnore \/ XilinxReply \/ XilinxClock
  BY <1>1, <1>4, <1>8 DEF XilinxBegin, XilinxIgnore, XilinxReply, XilinxClock, apiVars
<1>9. CASE XilinxTimeout
  <2>1. \E c : Return(c)
    BY <1>9 DEF XilinxTimeout
  <2> QED BY <1>1, <1>4, <1>9, <2>1, CallEnds DEF XilinxTimeout
<1>10. CASE XilinxIp
  <2>1. \E f : Hand(f)
    BY <1>10 DEF XilinxIp
  <2> QED BY <1>1, <1>4, <1>10, <2>1, CallEnds DEF XilinxIp
<1>11. CASE XilinxOverhear
  <2>1. /\ arpTable' = Learned(Fetchee) /\ heard' = heard \cup Told(Fetchee)
        /\ UNCHANGED <<call, inited, interface_mac, rx, wire, rxBuffers, txBuffers>>
    BY <1>11 DEF XilinxOverhear
  <2>2. /\ DOMAIN arpTable' = 1 .. ArpTableSize
        /\ \A n \in 1 .. ArpTableSize : arpTable'[n] \in heard' \/ arpTable'[n] = <<0, NoIp, NoMac>>
    BY <1>1, <2>1, LearnedTold
  <2> QED BY <1>1, <1>3, <2>1, <2>2 DEF HalInv, BoardInv
<1>12. CASE (Refuse \/ GetInterfaceMac) /\ UNCHANGED boardVars
  BY <1>1, <1>4, <1>12, CommonCalls DEF boardVars
<1>13. CASE XilinxFill
  <2>1. CASE UNCHANGED rxBuffers
    BY <1>1, <1>4, <1>13, <2>1 DEF XilinxFill
  <2>2. ASSUME NEW f \in Frame, f.src # BoardMac, rxBuffers' = [rxBuffers EXCEPT ![NextDone(rxRing)] = f]
        PROVE  HalInv'
    <3>1. f.port \in Iface
      BY ApiAssumption
    <3>2. /\ DOMAIN rxBuffers' = Buffer
          /\ \A b \in Buffer : rxBuffers'[b].src # BoardMac /\ rxBuffers'[b].port \in Iface
      BY <1>1, <2>2, <3>1 DEF BoardInv
    <3> QED BY <1>1, <1>3, <1>13, <3>2 DEF HalInv, BoardInv, XilinxFill
  <2> QED BY <1>13, <2>1, <2>2 DEF XilinxFill
<1>14. CASE XilinxDrain
  <2>1. IsSeq(wire')
    BY <1>1, <1>14, SeqAppend DEF XilinxDrain
  <2> QED BY <1>1, <1>3, <1>14, <2>1 DEF HalInv, BoardInv, XilinxDrain
<1> QED BY <1>5, <1>6, <1>7, <1>8, <1>9, <1>10, <1>11, <1>12, <1>13, <1>14 DEF Xilinx

\* Every step of the composition preserves the invariant.
LEMMA HalInductive == HalInv /\ [Next]_vars => HalInv'
<1> SUFFICES ASSUME HalInv, [Next]_vars PROVE HalInv'
  OBVIOUS
<1>1. CASE Program
  BY <1>1, HalInvProgram
<1>2. CASE BackendStep \/ World
  <2>1. backend' = backend /\ index' = index
    BY <1>2 DEF BackendStep, Backend, World, Uses, clientVars
  <2>2. \/ backend = "stdio" /\ (Stdio \/ StdioFeed) /\ UNCHANGED boardVars
        \/ backend = "macOS" /\ (Mac \/ MacWorld) /\ UNCHANGED boardVars
        \/ backend = "xilinx" /\ (Xilinx \/ XilinxFill)
    BY <1>2 DEF BackendStep, Backend, World, Uses
  <2> QED BY <2>1, <2>2, HalInvStdio, HalInvMac, HalInvXilinx
<1>3. CASE Drain \/ Clock
  BY <1>3, HalInvXilinx DEF Drain, Clock, Uses, clientVars
<1>4. CASE UNCHANGED vars
  <2>1. UNCHANGED <<boardVars, rx, wire, inited, interface_mac, heard, call, index, backend, arp_table>>
    BY <1>4 DEF vars, apiVars, ownVars, clientVars
  <2>2. backend = "xilinx" => XInv'
    BY <2>1, Untouched DEF HalInv, BoardInv, boardVars
  <2> QED BY <2>1, <2>2 DEF HalInv, MapInv, StdioInv, BoardInv, boardVars
<1> QED BY <1>1, <1>2, <1>3, <1>4 DEF Next

-----------------------------------------------------------------------------
(* Every step is one of the service                                        *)

Serves == Service!ServiceNext \/ UNCHANGED Service!serviceVars

LEMMA ServesBy ==
  ASSUME backend' = backend,
         \/ Service!CallAny \/ Service!Initialise \/ Service!Error \/ Service!GetMac \/ Service!Lookup
         \/ Service!Repay \/ Service!GiveUp \/ Service!Send \/ Service!Arrival
         \/ \E n \in DOMAIN View : Service!Overhear(n) \/ Service!Deliver(n)
         \/ UNCHANGED Service!serviceVars
  PROVE  Serves
BY DEF Serves, Service!ServiceNext, Service!Operation, View

\* What the programs do.
LEMMA ProgramServes ==
  ASSUME HalInv, Program PROVE Serves
<1>1. /\ UNCHANGED <<result, inited, interface_mac, rx, wire, heard, ownVars, backend>>
      /\ \/ UNCHANGED call
         \/ /\ call = Idle
            /\ \/ call' \in {InitCall, ReceiveCall}
               \/ \E i \in MaybePort : call' = MacCall(i) \/ \E ip \in Ip : call' = ArpCall(i, ip)
               \/ \E i, dst, data : call' = SendCall(i, dst, data)
  BY ProgramCalls DEF HalInv
<1>2. UNCHANGED <<View, Sent, XilinxOwed>>
  BY <1>1, ViewKept DEF ownVars, boardVars
<1>3. CASE UNCHANGED call
  BY <1>1, <1>2, <1>3, ServiceStutter, ServesBy
<1>4. CASE ~ UNCHANGED call
  BY <1>1, <1>2, <1>4, ServiceCall, ServesBy
<1> QED BY <1>3, <1>4

\* The errors and HAL_GetInterfaceMacAddress.
LEMMA CommonServes ==
  ASSUME Refuse \/ GetInterfaceMac, UNCHANGED <<View, Sent, XilinxOwed, backend>>
  PROVE  Serves
<1>1. CASE Refuse
  <2>1. /\ call.op \in {"arp", "mac", "send", "receive"}
        /\ \/ ~inited /\ Return("called_before_init")
           \/ inited /\ BadPort /\ \E c \in {"invalid_parameter", "iface_not_exist"} : Return(c)
        /\ UNCHANGED <<inited, interface_mac, heard>>
    BY <1>1 DEF Refuse, Refused
  <2> QED BY <2>1, ServiceError, ServesBy
<1>2. CASE GetInterfaceMac
  <2>1. Accepted("mac") /\ TellMac(interface_mac[call.port]) /\ UNCHANGED <<inited, interface_mac, heard>>
    BY <1>2 DEF GetInterfaceMac
  <2> QED BY <2>1, ServiceGetMac, ServesBy
<1> QED BY <1>1, <1>2

\* Without rings a program sees what there is.
LEMMA PlainView ==
  ASSUME backend # "xilinx", IsSeq(wire), MapInv
  PROVE  View = rx /\ Sent = wire /\ XilinxOwed = <<>>
<1>1. txRing.hw - txRing.done = 0
  BY DEF MapInv, NewRing
<1>2. 1 .. txRing.hw - txRing.done = {}
  BY <1>1
<1>3. XilinxPending = <<>>
  BY <1>2 DEF XilinxPending
<1>4. Sent = wire
  BY <1>3, SeqShift, SeqNone DEF Sent
<1> QED BY <1>4 DEF View, XilinxOwed, MapInv

LEMMA PlainViews ==
  ASSUME backend # "xilinx", UNCHANGED backend, HalInv, HalInv'
  PROVE  /\ View = rx /\ Sent = wire /\ XilinxOwed = <<>>
         /\ View' = rx' /\ Sent' = wire' /\ XilinxOwed' = <<>>
<1>1. MapInv /\ MapInv' /\ IsSeq(wire) /\ IsSeq(wire')
  BY DEF HalInv
<1>2. View = rx /\ Sent = wire /\ XilinxOwed = <<>>
  BY <1>1, PlainView
<1>3. (txRing.hw - txRing.done)' = 0
  BY <1>1 DEF MapInv, NewRing
<1>4. (1 .. txRing.hw - txRing.done)' = {}
  BY <1>3
<1>5. XilinxPending' = <<>>
  BY <1>4 DEF XilinxPending
<1>6. Sent' = wire'
  BY <1>1, <1>5, SeqShift, SeqNone DEF Sent
<1>7. View' = rx' /\ XilinxOwed' = <<>>
  BY <1>1 DEF View, XilinxOwed, MapInv
<1> QED BY <1>2, <1>6, <1>7

\* A frame that arrives is one more that waits, if it is not lost.
LEMMA ArriveServes ==
  ASSUME NEW f \in Frame \cup {wire[n] : n \in DOMAIN wire}, Arrive(f), IsSeq(rx), UNCHANGED backend,
         View = rx, Sent = wire, View' = rx', Sent' = wire', UNCHANGED XilinxOwed
  PROVE  Serves
<1>1. /\ rx' = Append(rx, f) \/ UNCHANGED rx
      /\ UNCHANGED <<call, result, inited, interface_mac, wire, heard>>
  BY Arrived
<1>2. CASE UNCHANGED rx
  BY <1>1, <1>2, ServiceStutter, ServesBy
<1>3. CASE rx' = Append(rx, f)
  BY <1>1, <1>3, ServiceArrival, ServesBy
<1> QED BY <1>1, <1>2, <1>3

\* HAL_Init without a group to join.
LEMMA StartServes ==
  ASSUME Calling("init"), UNCHANGED <<View, Sent, XilinxOwed, backend>>, IsSeq(Sent),
         \/ Return("ok") /\ inited'
         \/ Return("unknown") /\ ~inited /\ UNCHANGED inited,
         heard \subseteq heard',
         \A t \in heard' \ heard : t[2] = MyIp(t[1]) /\ t[3] = interface_mac'[t[1]],
         inited => UNCHANGED <<interface_mac, heard>>
  PROVE  Serves
<1>1. IsSeq(<<>>) /\ Sent' = Sent \o <<>>
  BY SeqNone, SeqShift
<1>2. \A n \in 1 .. Len(<<>>) : /\ <<>>[n].kind = "ip" /\ <<>>[n].dst = JoinMac
                                /\ <<>>[n].src = interface_mac'[<<>>[n].port]
  <2>1. Len(<<>>) = 0
    OBVIOUS
  <2>2. 1 .. Len(<<>>) = {}
    BY <2>1
  <2> QED BY <2>2
<1>3. Service!Initialise
  BY <1>1, <1>2, ServiceInitialise
<1> QED BY <1>3, ServesBy

\* The stdio backend does what the service does.
LEMMA StdioServes ==
  ASSUME HalInv, HalInv', backend = "stdio", UNCHANGED <<backend, boardVars>>, Stdio \/ StdioFeed
  PROVE  Serves
<1>1. MapInv /\ StdioInv /\ IsSeq(rx) /\ IsSeq(wire)
  BY DEF HalInv
<1>2. /\ View = rx /\ Sent = wire /\ XilinxOwed = <<>>
      /\ View' = rx' /\ Sent' = wire' /\ XilinxOwed' = <<>>
  BY PlainViews
<1>3. CASE StdioStart
  <2>1. Calling("init") /\ UNCHANGED <<rx, wire>>
    BY <1>3 DEF StdioStart
  <2>2. CASE inited
    BY <1>1, <1>2, <1>3, <2>1, <2>2, StartServes DEF StdioStart
  <2>3. CASE ~inited
    <3>1. /\ heard' = heard \cup Own(interface_mac')
          /\ \/ Return("ok") /\ inited'
             \/ Return("unknown") /\ UNCHANGED inited
      BY <1>3, <2>3 DEF StdioStart
    <3>2. \A t \in heard' \ heard : t[2] = MyIp(t[1]) /\ t[3] = interface_mac'[t[1]]
      BY <3>1 DEF Own
    <3> QED BY <1>1, <1>2, <2>1, <2>3, <3>1, <3>2, StartServes
  <2> QED BY <2>2, <2>3
<1>4. CASE StdioArp
  <2>1. \A t \in Known(call.port, call.ip) : t \in heard /\ t[1] = call.port /\ t[2] = call.ip
    BY <1>1 DEF Known, MapInv
  <2>2. /\ Accepted("arp") /\ UNCHANGED <<inited, interface_mac, rx, heard>>
        /\ \/ call.ip \in Group /\ TellMac(GroupMac(call.ip)) /\ UNCHANGED wire
           \/ /\ call.ip \notin Group
              /\ \E t \in heard : t[1] = call.port /\ t[2] = call.ip /\ TellMac(t[3])
              /\ UNCHANGED wire
           \/ /\ call.ip \notin Group /\ Return("ip_not_exist")
              /\ wire' = Append(wire, Request(call.port, interface_mac[call.port], call.ip))
    BY <1>4, <2>1 DEF StdioArp
  <2> QED BY <1>2, <2>2, ServiceLookup, ServesBy
<1>5. CASE StdioEof
  BY <1>2, <1>5, ServiceGiveUp, ServesBy DEF StdioEof
<1>6. ASSUME rx # <<>>, rx' = Tail(rx), inited
      PROVE  /\ 1 \in DOMAIN View /\ Oldest(View, 1) /\ View' = Without(View, 1) /\ Head(rx) = View[1]
             /\ View[1].src # interface_mac[View[1].port]
  <2>1. Len(rx) >= 1 /\ Len(rx) \in Nat /\ DOMAIN rx = 1 .. Len(rx) /\ Head(rx) = rx[1]
    BY <1>1, <1>6, SeqTail, SeqIs
  <2>2. 1 \in DOMAIN rx
    BY <2>1
  <2>3. Oldest(rx, 1)
    BY <2>2 DEF Oldest
  <2>4. rx' = Without(rx, 1)
    BY <1>1, <1>6, SeqWithout1 DEF Without
  <2>5. rx[1].src # interface_mac[rx[1].port]
    BY <1>1, <1>6, <2>2, ApiAssumption DEF StdioInv
  <2> QED BY <1>2, <2>1, <2>2, <2>3, <2>4, <2>5
<1>7. CASE StdioIp
  <2>1. /\ Accepted("receive") /\ inited /\ rx # <<>> /\ Head(rx).kind = "ip" /\ rx' = Tail(rx) /\ Hand(Head(rx))
        /\ UNCHANGED <<inited, interface_mac, wire, heard>>
    BY <1>7 DEF StdioIp, Accepted
  <2> QED BY <1>2, <1>6, <2>1, ServiceDeliver, ServesBy
<1>8. ASSUME NEW d \in {0, 1}, StdioOverhear(d) \/ StdioIgnore(d) PROVE Serves
  <2> DEFINE f == View[1]
             r == Reply(f, interface_mac[f.port])
  <2>1. Accepted("receive") /\ inited /\ rx # <<>> /\ rx' = Tail(rx) /\ UNCHANGED <<inited, interface_mac>>
    BY <1>8 DEF StdioOverhear, StdioIgnore, Accepted
  <2>2. /\ 1 \in DOMAIN View /\ Oldest(View, 1) /\ View' = Without(View, 1) /\ Head(rx) = f
        /\ (f.src = interface_mac[f.port]) = FALSE
    BY <1>6, <2>1
  <2>3. UNCHANGED <<call, result>> \/ Return("timeout")
    BY <1>8 DEF StdioOverhear, StdioIgnore, StdioAgain
  <2>4. f.kind # "ip"
    BY <1>8, <2>2 DEF StdioOverhear, StdioIgnore, IsArp
  <2>5. heard' = IF IsArp(f) THEN heard \cup Told(f) ELSE heard
    BY <1>8, <2>2 DEF StdioOverhear, StdioIgnore, IsArp
  <2>6. wire' = IF AsksMe(f) THEN Append(wire, [r EXCEPT !.to = Garbled]) ELSE wire
    BY <1>8, <2>2 DEF StdioOverhear, StdioIgnore, IsArp, AsksMe, StdioReply
  <2> HIDE DEF f, r
  <2>7. Service!Overhear(1)
    BY <1>2, <2>1, <2>2, <2>3, <2>4, <2>5, <2>6, ServiceOverhear DEF f, r
  <2> QED BY <2>2, <2>7, ServesBy
<1>9. CASE StdioSend
  BY <1>2, <1>9, ServiceSend, ServesBy DEF StdioSend
<1>10. CASE (Refuse \/ GetInterfaceMac) /\ UNCHANGED <<arp_table, closed>>
  <2>1. UNCHANGED <<rx, wire>>
    BY <1>10 DEF Refuse, Refused, GetInterfaceMac
  <2> QED BY <1>2, <1>10, <2>1, CommonServes
<1>11. CASE StdioFeed
  <2>1. CASE UNCHANGED apiVars
    BY <1>2, <2>1, ServiceStutter, ServesBy DEF apiVars
  <2>2. ASSUME NEW f \in Frame, Arrive(f) PROVE Serves
    BY <1>1, <1>2, <2>2, ArriveServes
  <2> QED BY <1>11, <2>1, <2>2 DEF StdioFeed
<1> QED BY <1>3, <1>4, <1>5, <1>7, <1>8, <1>9, <1>10, <1>11 DEF Stdio

\* The macOS backend does what the service does.
LEMMA MacServes ==
  ASSUME HalInv, HalInv', backend = "macOS", UNCHANGED <<backend, boardVars>>, Mac \/ MacWorld
  PROVE  Serves
<1>1. MapInv /\ IsSeq(rx) /\ IsSeq(wire)
  BY DEF HalInv
<1>2. /\ View = rx /\ Sent = wire /\ XilinxOwed = <<>>
      /\ View' = rx' /\ Sent' = wire' /\ XilinxOwed' = <<>>
  BY PlainViews
<1>3. CASE MacStart
  <2>1. Calling("init") /\ UNCHANGED rx
    BY <1>3 DEF MacStart
  <2>2. CASE /\ UNCHANGED <<inited, interface_mac, heard, wire>>
             /\ (inited /\ Return("ok")) \/ (~inited /\ Return("unknown"))
    BY <1>1, <1>2, <2>1, <2>2, StartServes
  <2>3. CASE /\ ~inited /\ Return("ok") /\ inited' = TRUE
             /\ \E found \in SUBSET Present :
                  LET own == {<<i, MyIp(i), Me(i)>> : i \in found} IN
                    /\ interface_mac' = [i \in Iface |-> IF i \in found THEN Me(i) ELSE NoMac]
                    /\ Put(own)
                    /\ heard' = heard \cup own
             /\ open' \in SUBSET Present
             /\ \E taken \in SUBSET open' : wire' = wire \o Joins(taken, interface_mac')
    <3>1. /\ heard \subseteq heard'
          /\ \A t \in heard' \ heard : t[2] = MyIp(t[1]) /\ t[3] = interface_mac'[t[1]]
      BY <2>3, PresentAssumption
    <3>2. PICK taken \in SUBSET open' : wire' = wire \o Joins(taken, interface_mac')
      BY <2>3
    <3>3. taken \in SUBSET Iface
      BY <2>3, PresentAssumption
    <3> DEFINE joins == Joins(taken, interface_mac')
    <3>4. /\ IsSeq(joins)
          /\ \A n \in 1 .. Len(joins) : /\ joins[n].kind = "ip" /\ joins[n].dst = JoinMac
                                       /\ joins[n].src = interface_mac'[joins[n].port]
      BY <3>3, JoinsAre
    <3>5. Sent' = Sent \o joins /\ IsSeq(Sent)
      BY <1>1, <1>2, <3>2
    <3> HIDE DEF joins
    <3>6. Service!Initialise
      <4>1. Return("ok") /\ inited' /\ ~inited /\ UNCHANGED <<View, XilinxOwed>>
        BY <1>2, <2>1, <2>3
      <4> QED BY <2>1, <3>1, <3>4, <3>5, <4>1, ServiceInitialise
    <3> QED BY <3>6, ServesBy
  <2> QED BY <1>3, <2>2, <2>3 DEF MacStart
<1>4. CASE MacArp
  <2>1. \A t \in Known(call.port, call.ip) : t \in heard /\ t[1] = call.port /\ t[2] = call.ip
    BY <1>1 DEF Known, MapInv
  <2>2. /\ Accepted("arp") /\ UNCHANGED <<inited, interface_mac, rx, heard>>
        /\ \/ call.ip \in Group /\ TellMac(GroupMac(call.ip)) /\ UNCHANGED wire
           \/ /\ call.ip \notin Group
              /\ \E t \in heard : t[1] = call.port /\ t[2] = call.ip /\ TellMac(t[3])
              /\ UNCHANGED wire
           \/ /\ call.ip \notin Group /\ Return("ip_not_exist")
              /\ \/ UNCHANGED wire
                 \/ wire' = Append(wire, Request(call.port, interface_mac[call.port], call.ip))
    BY <1>4, <2>1 DEF MacArp, Inject
  <2> QED BY <1>2, <2>2, ServiceLookup, ServesBy
<1>5. CASE MacNoPort
  <2>1. /\ call.op = "receive" /\ inited /\ Return("iface_not_exist")
        /\ UNCHANGED <<inited, interface_mac, rx, wire, heard>>
    BY <1>5 DEF MacNoPort, Accepted, Calling
  <2> QED BY <1>2, <2>1, ServiceError, ServesBy
<1>6. ASSUME NEW n \in Waiting
      PROVE  /\ n \in DOMAIN View /\ Oldest(View, n) /\ View[n].port = port /\ View[n] = rx[n]
             /\ Without(View, n) = Without(rx, n)
  BY <1>2 DEF Waiting
<1>7. CASE MacIp
  <2>1. PICK n \in Waiting : rx[n].kind = "ip" /\ Foreign(rx[n]) /\ rx' = Without(rx, n) /\ Hand(rx[n])
    BY <1>7 DEF MacIp
  <2>2. Accepted("receive") /\ UNCHANGED <<inited, interface_mac, wire, heard>>
    BY <1>7 DEF MacIp, MacPolls
  <2>3. Service!Deliver(n)
    BY <1>2, <1>6, <2>1, <2>2, ServiceDeliver DEF Foreign
  <2> QED BY <1>6, <2>3, ServesBy
<1>8. ASSUME NEW d \in {0, 1}, MacNext(d), UNCHANGED rx PROVE Serves
  <2>1. /\ Accepted("receive") /\ UNCHANGED <<inited, interface_mac, wire, heard>>
        /\ UNCHANGED <<call, result>> \/ Return("timeout")
    BY <1>8 DEF MacNext, MacAgain
  <2>2. CASE UNCHANGED <<call, result>>
    BY <1>2, <1>8, <2>1, <2>2, ServiceStutter, ServesBy
  <2>3. CASE Return("timeout")
    BY <1>2, <1>8, <2>1, <2>3, ServiceGiveUp, ServesBy
  <2> QED BY <2>1, <2>2, <2>3
\* A frame that is not for the program.
<1>9. ASSUME NEW d \in {0, 1}, NEW n \in Waiting, NEW own, own = (rx[n].src = interface_mac[port]),
             Accepted("receive"), UNCHANGED <<inited, interface_mac>>,
             rx' = Without(rx, n), UNCHANGED <<call, result>> \/ Return("timeout"),
             rx[n].kind = "ip" => own,
             heard' = IF IsArp(rx[n]) /\ ~own THEN heard \cup Told(rx[n]) ELSE heard,
             IF AsksMe(rx[n]) /\ ~own
               THEN UNCHANGED wire \/ wire' = Append(wire, Reply(rx[n], interface_mac[port]))
               ELSE UNCHANGED wire
      PROVE  Serves
  <2>1. /\ n \in DOMAIN View /\ Oldest(View, n) /\ View[n].port = port /\ View[n] = rx[n]
        /\ View' = Without(View, n)
    BY <1>2, <1>6, <1>9
  <2>2. Service!Overhear(n)
    BY <1>2, <1>9, <2>1, ServiceOverhear
  <2> QED BY <2>1, <2>2, ServesBy
<1>10. ASSUME NEW d \in {0, 1}, MacNext(d) \/ MacOwn(d) \/ MacOverhear(d) PROVE Serves
  <2>1. /\ Accepted("receive") /\ UNCHANGED <<inited, interface_mac>>
        /\ UNCHANGED <<call, result>> \/ Return("timeout")
    BY <1>10 DEF MacNext, MacOwn, MacOverhear, MacAgain, MacPolls
  <2>2. CASE MacNext(d) /\ ~ UNCHANGED rx
    <3>1. PICK n \in Waiting : rx[n].kind = "other" /\ Foreign(rx[n]) /\ rx' = Without(rx, n)
      BY <1>10, <2>2 DEF MacNext
    <3>2. UNCHANGED <<wire, heard>> /\ ~ IsArp(rx[n]) /\ ~ AsksMe(rx[n]) /\ rx[n].kind # "ip"
      BY <2>2, <3>1 DEF MacNext, IsArp, AsksMe
    <3> QED BY <1>9, <2>1, <3>1, <3>2
  <2>3. CASE MacOwn(d)
    <3>1. PICK n \in Waiting : ~Foreign(rx[n]) /\ rx' = Without(rx, n)
      BY <2>3 DEF MacOwn
    <3>2. UNCHANGED <<wire, heard>>
      BY <2>3 DEF MacOwn
    <3>3. (rx[n].src = interface_mac[port]) = TRUE
      BY <3>1 DEF Foreign
    <3> QED BY <1>9, <2>1, <3>1, <3>2, <3>3
  <2>4. CASE MacOverhear(d)
    <3>1. PICK n \in Waiting : /\ IsArp(rx[n]) /\ Foreign(rx[n]) /\ rx' = Without(rx, n)
                              /\ heard' = heard \cup Told(rx[n])
                              /\ IF AsksMe(rx[n]) THEN Inject(Reply(rx[n], interface_mac[port])) ELSE UNCHANGED wire
      BY <2>4 DEF MacOverhear
    <3>2. (rx[n].src = interface_mac[port]) = FALSE /\ rx[n].kind # "ip"
      BY <3>1 DEF Foreign, IsArp
    <3>3. IF AsksMe(rx[n]) THEN UNCHANGED wire \/ wire' = Append(wire, Reply(rx[n], interface_mac[port]))
          ELSE UNCHANGED wire
      BY <3>1 DEF Inject
    <3> QED BY <1>9, <2>1, <3>1, <3>2, <3>3
  <2> QED BY <1>8, <1>10, <2>2, <2>3, <2>4
<1>12. CASE MacSend
  <2>1. CASE Return("iface_not_exist") /\ UNCHANGED wire
    BY <1>2, <1>12, <2>1, ServiceError, ServesBy DEF MacSend, Accepted, Calling
  <2>2. CASE \/ /\ Return("ok")
                /\ wire' = Append(wire, IpFrame(call.port, interface_mac[call.port], call.dst, call.data))
             \/ Return("unknown") /\ UNCHANGED wire
    BY <1>2, <1>12, <2>2, ServiceSend, ServesBy DEF MacSend
  <2> QED BY <1>12, <2>1, <2>2 DEF MacSend
<1>13. CASE (Refuse \/ GetInterfaceMac) /\ UNCHANGED <<arp_table, open, asked, port>>
  <2>1. UNCHANGED <<rx, wire>>
    BY <1>13 DEF Refuse, Refused, GetInterfaceMac
  <2> QED BY <1>2, <1>13, <2>1, CommonServes
<1>14. CASE MacWorld
  <2>1. CASE UNCHANGED apiVars
    BY <1>2, <2>1, ServiceStutter, ServesBy DEF apiVars
  <2>2. ASSUME NEW f \in Frame \cup {wire[n] : n \in DOMAIN wire}, Arrive(f) PROVE Serves
    BY <1>1, <1>2, <2>2, ArriveServes
  <2> QED BY <1>14, <2>1, <2>2 DEF MacWorld
<1> QED BY <1>3, <1>4, <1>5, <1>7, <1>10, <1>12, <1>13, <1>14 DEF Mac

\* The board: the frames that are done wait, and those the transmitter owns are sent.
LEMMA BoardViews ==
  ASSUME backend = "xilinx", UNCHANGED backend
  PROVE  /\ View = DoneFrames(rxBuffers, rxRing) /\ View' = DoneFrames(rxBuffers', rxRing')
         /\ Sent = wire \o OwnedFrames(txBuffers, txRing)
         /\ Sent' = wire' \o OwnedFrames(txBuffers', txRing')
         /\ step # "reply" => XilinxOwed = <<>>
         /\ step' # "reply" => XilinxOwed' = <<>>
         /\ step = "reply" => XilinxOwed = <<Reply(Held, BoardMac)>>
         /\ step' = "reply" => XilinxOwed' = <<Reply(Held', BoardMac)>>
BY DEF View, XilinxWaiting, DoneFrames, Sent, XilinxPending, OwnedFrames, XilinxOwed, BoardMac, Me,
       Reply, MkFrame, None

\* A frame that is transmitted is the last one sent.
LEMMA SentGrows ==
  ASSUME BoardInv, IsSeq(wire), UNCHANGED <<wire, backend>>, backend = "xilinx", NEW f, Transmit(f)
  PROVE  Sent' = Append(Sent, f)
<1>1. TxSound /\ DOMAIN txBuffers = Buffer /\ Consistent(txRing)
  BY DEF BoardInv, XInv, TxSound
<1>2. OwnedFrames(txBuffers', txRing') = Append(OwnedFrames(txBuffers, txRing), f)
  BY <1>1, TransmittedFrames
<1>3. IsSeq(OwnedFrames(txBuffers, txRing))
  BY <1>1, OwnedAre
<1>4. wire \o Append(OwnedFrames(txBuffers, txRing), f) = Append(wire \o OwnedFrames(txBuffers, txRing), f)
  BY <1>3, SeqShift
<1> QED BY <1>2, <1>4, BoardViews

\* The frame a receive finds is another station's.
LEMMA FrameTaken ==
  ASSUME BoardInv, HasFrame, backend = "xilinx"
  PROVE  /\ Accepted("receive") /\ inited /\ step = "poll"
         /\ 1 \in DOMAIN View /\ Oldest(View, 1) /\ View[1] = Fetchee
         /\ Without(View, 1) = DoneFrames(rxBuffers, Fetch)
         /\ Without(View, 1) = DoneFrames(rxBuffers, PutBack(Fetch))
         /\ interface_mac[Fetchee.port] = BoardMac /\ Fetchee.src # BoardMac
<1>1. /\ Accepted("receive") /\ inited /\ step = "poll" /\ Returned(rxRing, 1) = 1
      /\ Consistent(rxRing) /\ rxRing.post = 0 /\ rxRing.pre = 0
  BY DEF HasFrame, Polls, Accepted, BoardInv, XInv, RxSound
<1>2. View = DoneFrames(rxBuffers, rxRing)
  BY DEF View, XilinxWaiting, DoneFrames
<1>3. /\ 1 \in 1 .. Len(View) /\ View # <<>> /\ Fetchee = View[1]
      /\ DoneFrames(rxBuffers, Fetch) = Tail(View)
  BY <1>1, <1>2, FetchedFrame DEF Fetchee, Fetch
<1>4. IsSeq(View) /\ DOMAIN View = 1 .. Len(View)
  BY <1>1, <1>2, DoneAre, SeqIs DEF Consistent
<1>5. Without(View, 1) = Tail(View)
  BY <1>3, <1>4, SeqWithout1 DEF Without
<1>6. Consistent(Fetch) /\ Fetch.post = 1 /\ Fetch.pre = 0 /\ Fetch \in Ring
  BY <1>1, FetchOne DEF Fetch, Consistent
<1>7. DoneFrames(rxBuffers, PutBack(Fetch)) = DoneFrames(rxBuffers, Fetch)
  BY <1>6, PutBackFrames
<1>8. Oldest(View, 1) /\ 1 \in DOMAIN View
  BY <1>3, <1>4 DEF Oldest
<1>9. PostBd(Fetch) \in Buffer
  BY <1>6, BdIs, RingAssumption DEF PostBd
<1>10. Fetchee.src # BoardMac /\ Fetchee.port \in Iface
  BY <1>9 DEF BoardInv, Fetchee
<1>11. interface_mac[Fetchee.port] = BoardMac
  BY <1>1, <1>10 DEF BoardInv
<1> QED BY <1>1, <1>3, <1>5, <1>7, <1>8, <1>10, <1>11

LEMMA NoFrames ==
  ASSUME NEW buf, NEW r \in Ring
  PROVE  /\ r.done = 0 => DoneFrames(buf, r) = <<>>
         /\ r.hw = 0 /\ r.done = 0 => OwnedFrames(buf, r) = <<>>
<1>1. ASSUME r.done = 0 PROVE DoneFrames(buf, r) = <<>>
  <2>1. 1 .. r.done = {}
    BY <1>1
  <2> QED BY <2>1 DEF DoneFrames
<1>2. ASSUME r.hw = 0, r.done = 0 PROVE OwnedFrames(buf, r) = <<>>
  <2>1. 1 .. r.hw - r.done = {}
    BY <1>2
  <2> QED BY <2>1 DEF OwnedFrames
<1> QED BY <1>1, <1>2

\* The board does what the service does.
LEMMA BoardServes ==
  ASSUME HalInv, backend = "xilinx", UNCHANGED backend, Xilinx \/ XilinxFill \/ XilinxDrain \/ XilinxClock
  PROVE  Serves
<1>1. /\ BoardInv /\ XInv /\ IsSeq(rx) /\ IsSeq(wire) /\ (call.op = "arp" => call.ip \in Ip)
      /\ Consistent(rxRing) /\ Consistent(txRing) /\ txRing \in Ring /\ rxRing \in Ring
  BY DEF HalInv, BoardInv, XInv, RxSound, TxSound, Consistent
<1>2. /\ View = DoneFrames(rxBuffers, rxRing) /\ View' = DoneFrames(rxBuffers', rxRing')
      /\ Sent = wire \o OwnedFrames(txBuffers, txRing)
      /\ Sent' = wire' \o OwnedFrames(txBuffers', txRing')
      /\ step # "reply" => XilinxOwed = <<>>
      /\ step' # "reply" => XilinxOwed' = <<>>
      /\ step = "reply" => XilinxOwed = <<Reply(Held, BoardMac)>>
      /\ step' = "reply" => XilinxOwed' = <<Reply(Held', BoardMac)>>
  BY BoardViews
<1>3. IsSeq(View) /\ IsSeq(OwnedFrames(txBuffers, txRing)) /\ IsSeq(Sent)
  BY <1>1, <1>2, DoneAre, OwnedAre, SeqConcat
<1>4. ASSUME NEW op \in {"arp", "send"}, Accepted(op) PROVE interface_mac[call.port] = BoardMac
  BY <1>1, <1>4 DEF Accepted, Calling, BadPort, BoardInv
<1>5. CASE XilinxStart
  <2>1. /\ Calling("init") /\ step = "idle" /\ Return("ok")
        /\ UNCHANGED <<rx, wire, heard, rxBuffers, txBuffers, step>>
    BY <1>1, <1>5 DEF XilinxStart, XInv, Calling
  <2>2. inited' /\ (inited => UNCHANGED <<interface_mac, rxRing, txRing>>)
    BY <1>5 DEF XilinxStart
  <2>3. ASSUME ~inited PROVE UNCHANGED <<View, Sent>>
    <3>1. rxRing' = FilledRing /\ txRing' = EmptyRing
      BY <1>5, <2>3 DEF XilinxStart
    <3>2. rxRing.done = 0 /\ txRing.hw = 0 /\ txRing.done = 0
      BY <1>1, <2>3, RingFields DEF XInv, RxSound, TxSound, Consistent, Numbers
    <3>3. /\ FilledRing \in Ring /\ FilledRing.done = 0
          /\ EmptyRing \in Ring /\ EmptyRing.hw = 0 /\ EmptyRing.done = 0
      BY NewRings DEF Consistent
    <3> QED BY <1>1, <1>2, <2>1, <3>1, <3>2, <3>3, NoFrames
  <2>4. UNCHANGED <<View, Sent, XilinxOwed>>
    BY <1>2, <2>1, <2>2, <2>3
  <2> QED BY <1>3, <2>1, <2>2, <2>4, StartServes
<1>6. CASE XilinxArp
  <2>1. /\ Accepted("arp") /\ UNCHANGED <<inited, interface_mac, wire, heard, rxRing, rxBuffers, step>>
        /\ call.op = "arp" /\ step = "idle"
    BY <1>1, <1>6 DEF XilinxArp, Accepted, Calling, XInv
  <2>2. UNCHANGED <<View, XilinxOwed>>
    BY <1>2, <2>1
  <2>3. CASE call.ip \in Group /\ TellMac(GroupMac(call.ip)) /\ UNCHANGED <<txRing, txBuffers>>
    <3>1. UNCHANGED Sent
      BY <1>2, <2>1, <2>3
    <3> QED BY <2>1, <2>2, <2>3, <3>1, ServiceLookup, ServesBy
  <2>4. CASE /\ call.ip \notin Group /\ Hits(call.port, call.ip) # {}
             /\ TellMac(arpTable[FirstHit(call.port, call.ip)][3]) /\ UNCHANGED <<txRing, txBuffers>>
    <3>1. UNCHANGED Sent
      BY <1>2, <2>1, <2>4
    <3>2. \E t \in heard : t[1] = call.port /\ t[2] = call.ip /\ TellMac(t[3])
      BY <1>1, <2>1, <2>4, HitTold
    <3> QED BY <2>1, <2>2, <2>4, <3>1, <3>2, ServiceLookup, ServesBy
  <2>5. CASE /\ call.ip \notin Group /\ Return("ip_not_exist")
             /\ Transmit(Request(call.port, BoardMac, call.ip))
    <3>1. Sent' = Append(Sent, Request(call.port, interface_mac[call.port], call.ip))
      BY <1>1, <1>4, <2>1, <2>5, SentGrows
    <3> QED BY <2>1, <2>2, <2>5, <3>1, ServiceLookup, ServesBy
  <2> QED BY <1>6, <2>3, <2>4, <2>5 DEF XilinxArp
<1>7. CASE XilinxSend
  <2>1. /\ Accepted("send") /\ UNCHANGED <<inited, interface_mac, wire, heard, rxRing, rxBuffers, step>>
        /\ Return("ok") /\ Transmit(IpFrame(call.port, BoardMac, call.dst, call.data)) /\ step = "idle"
    BY <1>1, <1>7 DEF XilinxSend, Accepted, Calling, XInv
  <2>2. UNCHANGED <<View, XilinxOwed>>
    BY <1>2, <2>1
  <2>3. Sent' = Append(Sent, IpFrame(call.port, interface_mac[call.port], call.dst, call.data))
    BY <1>1, <1>4, <2>1, SentGrows
  <2> QED BY <2>1, <2>2, <2>3, ServiceSend, ServesBy
<1>8. CASE XilinxBegin
  <2>1. /\ UNCHANGED <<call, result, inited, interface_mac, wire, heard, rxRing, txRing, rxBuffers, txBuffers>>
        /\ step = "idle" /\ step' = "poll"
    BY <1>8 DEF XilinxBegin, apiVars
  <2> QED BY <1>2, <2>1, ServiceStutter, ServesBy
<1>9. CASE XilinxTimeout
  <2>1. /\ Accepted("receive") /\ Return("timeout") /\ step = "poll" /\ step' = "idle"
        /\ UNCHANGED <<inited, interface_mac, wire, heard, rxRing, txRing, rxBuffers, txBuffers>>
    BY <1>9 DEF XilinxTimeout, Polls
  <2>2. UNCHANGED <<View, Sent, XilinxOwed>> /\ XilinxOwed = <<>>
    BY <1>2, <2>1
  <2> QED BY <2>1, <2>2, ServiceGiveUp, ServesBy
<1>10. CASE XilinxIp
  <2>1. /\ HasFrame /\ Fetchee.kind = "ip" /\ Hand(Fetchee) /\ rxRing' = PutBack(Fetch) /\ step' = "idle"
        /\ UNCHANGED <<inited, interface_mac, wire, heard, txRing, rxBuffers, txBuffers>>
    BY <1>10 DEF XilinxIp
  <2>2. /\ Accepted("receive") /\ step = "poll" /\ 1 \in DOMAIN View /\ Oldest(View, 1) /\ View[1] = Fetchee
        /\ Without(View, 1) = DoneFrames(rxBuffers, PutBack(Fetch))
        /\ Fetchee.src # interface_mac[Fetchee.port]
    BY <1>1, <2>1, FrameTaken
  <2>3. View' = Without(View, 1) /\ UNCHANGED <<Sent, XilinxOwed>> /\ XilinxOwed = <<>>
    BY <1>2, <2>1, <2>2
  <2>4. Service!Deliver(1)
    BY <2>1, <2>2, <2>3, ServiceDeliver
  <2> QED BY <2>2, <2>4, ServesBy
<1>11. CASE XilinxIgnore \/ XilinxOverhear
  <2> DEFINE f == View[1]
             r == Reply(f, BoardMac)
  <2>1. HasFrame /\ UNCHANGED <<call, result, inited, interface_mac, wire, txRing, rxBuffers, txBuffers>>
    BY <1>11 DEF XilinxIgnore, XilinxOverhear, apiVars
  <2>2. /\ Accepted("receive") /\ step = "poll" /\ 1 \in DOMAIN View /\ Oldest(View, 1) /\ f = Fetchee
        /\ Without(View, 1) = DoneFrames(rxBuffers, Fetch)
        /\ Without(View, 1) = DoneFrames(rxBuffers, PutBack(Fetch))
        /\ interface_mac[f.port] = BoardMac /\ (f.src = interface_mac[f.port]) = FALSE
    BY <1>1, <2>1, FrameTaken
  <2>3. /\ f.kind # "ip"
        /\ heard' = IF IsArp(f) THEN heard \cup Told(f) ELSE heard
        /\ IF AsksMe(f) THEN rxRing' = Fetch /\ step' = "reply" ELSE rxRing' = PutBack(Fetch) /\ step' = "poll"
    BY <1>11, <2>2 DEF XilinxIgnore, XilinxOverhear, IsArp, AsksMe, apiVars
  <2>4. View' = Without(View, 1) /\ UNCHANGED Sent /\ XilinxOwed = <<>>
    BY <1>2, <2>1, <2>2, <2>3
  <2>5. IF AsksMe(f) THEN XilinxOwed' = <<r>> ELSE XilinxOwed' = <<>>
    <3>1. rxRing' = Fetch => Held' = Fetchee
      BY <2>1 DEF Held, Fetchee
    <3> QED BY <1>2, <2>2, <2>3, <3>1
  <2> HIDE DEF f, r
  <2>6. Service!Overhear(1)
    BY <2>1, <2>2, <2>3, <2>4, <2>5, ServiceOverhear DEF f, r
  <2> QED BY <2>2, <2>6, ServesBy
<1>12. CASE XilinxReply
  <2>1. /\ step = "reply" /\ step' = "poll" /\ Transmit(Reply(Held, BoardMac)) /\ rxRing' = PutBack(rxRing)
        /\ UNCHANGED <<call, result, inited, interface_mac, wire, heard, rxBuffers>>
        /\ rxRing.post = 1 /\ rxRing.pre = 0
    BY <1>1, <1>12 DEF XilinxReply, apiVars, XInv, RxSound
  <2>2. UNCHANGED View
    BY <1>1, <1>2, <2>1, PutBackFrames
  <2>3. Sent' = Sent \o XilinxOwed
    <3>1. Sent' = Append(Sent, Reply(Held, BoardMac))
      BY <1>1, <2>1, SentGrows
    <3>2. XilinxOwed = <<Reply(Held, BoardMac)>>
      BY <1>2, <2>1
    <3>3. Append(Sent, Reply(Held, BoardMac)) = Sent \o <<Reply(Held, BoardMac)>>
      BY <1>3, SeqShift
    <3> QED BY <3>1, <3>2, <3>3
  <2>4. XilinxOwed # <<>> /\ XilinxOwed' = <<>>
    <3>1. XilinxOwed = <<Reply(Held, BoardMac)>> /\ XilinxOwed' = <<>>
      BY <1>2, <2>1
    <3>2. \A x : <<x>> # <<>>
      OBVIOUS
    <3> QED BY <3>1, <3>2
  <2> QED BY <2>1, <2>2, <2>3, <2>4, ServiceRepay, ServesBy
<1>13. CASE (Refuse \/ GetInterfaceMac) /\ UNCHANGED boardVars
  <2>1. UNCHANGED <<rx, wire>>
    BY <1>13 DEF Refuse, Refused, GetInterfaceMac
  <2>2. UNCHANGED <<View, Sent, XilinxOwed>>
    BY <1>13, <2>1, ViewKept DEF boardVars
  <2> QED BY <1>13, <2>2, CommonServes
<1>14. CASE XilinxFill
  <2>1. UNCHANGED <<call, result, inited, interface_mac, wire, heard, txRing, txBuffers, step>>
    BY <1>14 DEF XilinxFill
  <2>2. CASE UNCHANGED <<rxBuffers, rxRing>>
    <3>1. UNCHANGED <<View, Sent, XilinxOwed>>
      BY <1>14, <2>1, <2>2, ViewKept DEF XilinxFill
    <3> QED BY <2>1, <3>1, ServiceStutter, ServesBy
  <2>3. ASSUME NEW f \in Frame, rxRing.done < rxRing.hw,
               rxBuffers' = [rxBuffers EXCEPT ![NextDone(rxRing)] = f],
               rxRing' = Completed(rxRing)
        PROVE  Serves
    <3>1. /\ View' = Append(View, f)
          /\ rxRing.post = 1 => rxBuffers'[PostBd(rxRing')] = rxBuffers[PostBd(rxRing)]
      BY ZenonT(60), <1>1, <1>2, <2>3, CompletedFrames DEF BoardInv
    <3>2. step = "reply" => Held' = Held
      BY <1>1, <3>1 DEF Held, XInv, RxSound
    <3>3. UNCHANGED <<Sent, XilinxOwed>>
      BY <1>2, <2>1, <3>2
    <3> QED BY <1>3, <2>1, <3>1, <3>3, ServiceArrival, ServesBy
  <2> QED BY <1>14, <2>2, <2>3 DEF XilinxFill
<1>15. CASE XilinxDrain
  <2> DEFINE o == OwnedFrames(txBuffers, txRing)
  <2>1. /\ UNCHANGED <<call, result, inited, interface_mac, heard, rxRing, rxBuffers, txBuffers, step>>
        /\ txRing' = Completed(txRing) /\ txRing.done < txRing.hw
        /\ wire' = Append(wire, txBuffers[NextDone(txRing)])
    BY <1>15 DEF XilinxDrain
  <2>2. /\ o # <<>> /\ txBuffers[NextDone(txRing)] = Head(o)
        /\ OwnedFrames(txBuffers', txRing') = Tail(o)
    BY <1>1, <2>1, SentFrame
  <2>3. Append(wire, Head(o)) \o Tail(o) = wire \o o
    BY <1>1, <1>3, <2>2, SeqShift
  <2>4. UNCHANGED Sent
    BY <1>2, <2>1, <2>2, <2>3
  <2>5. UNCHANGED <<View, XilinxOwed>>
    BY <2>1 DEF View, XilinxWaiting, XilinxOwed, Held
  <2> QED BY <2>1, <2>4, <2>5, ServiceStutter, ServesBy
<1>16. CASE XilinxClock
  <2>1. UNCHANGED <<apiVars, rxRing, txRing, rxBuffers, txBuffers, step>>
    BY <1>16 DEF XilinxClock
  <2>2. UNCHANGED <<View, Sent, XilinxOwed>>
    BY <2>1, ViewKept DEF apiVars
  <2> QED BY <2>1, <2>2, ServiceStutter, ServesBy DEF apiVars
<1> QED BY <1>5, <1>6, <1>7, <1>8, <1>9, <1>10, <1>11, <1>12, <1>13, <1>14, <1>15, <1>16 DEF Xilinx

\* Every step of the composition is one of the service, or none.
LEMMA NextServes ==
  ASSUME HalInv, HalInv', [Next]_vars PROVE Serves
<1>1. CASE Program
  BY <1>1, ProgramServes
<1>2. CASE BackendStep \/ World
  <2>1. backend' = backend
    BY <1>2 DEF BackendStep, Backend, World, Uses
  <2>2. \/ backend = "stdio" /\ (Stdio \/ StdioFeed) /\ UNCHANGED boardVars
        \/ backend = "macOS" /\ (Mac \/ MacWorld) /\ UNCHANGED boardVars
        \/ backend = "xilinx" /\ (Xilinx \/ XilinxFill)
    BY <1>2 DEF BackendStep, Backend, World, Uses
  <2> QED BY <2>1, <2>2, StdioServes, MacServes, BoardServes
<1>3. CASE Drain \/ Clock
  BY <1>3, BoardServes DEF Drain, Clock, Uses
<1>4. CASE UNCHANGED vars
  <2>1. UNCHANGED <<call, result, inited, interface_mac, rx, wire, heard, boardVars, backend>>
    BY <1>4 DEF vars, apiVars, ownVars
  <2>2. UNCHANGED <<View, Sent, XilinxOwed>>
    BY <2>1, ViewKept DEF boardVars
  <2> QED BY <2>1, <2>2, ServiceStutter, ServesBy
<1> QED BY <1>1, <1>2, <1>3, <1>4 DEF Next

LEMMA ServiceInitially == Init => Service!ServiceInit
<1> SUFFICES ASSUME Init PROVE Service!ServiceInit
  OBVIOUS
<1>1. HalInv
  BY HalInvInit
<1>2. /\ call = Idle /\ result = NoResult /\ inited = FALSE /\ interface_mac = [i \in Iface |-> NoMac]
      /\ rx = <<>> /\ wire = <<>> /\ heard = {} /\ rxRing = NewRing /\ txRing = NewRing /\ step = "idle"
  BY DEF Init, XilinxInit, ApiInit
<1>3. NewRing \in Ring /\ NewRing.done = 0 /\ NewRing.hw = 0
  BY NewRings DEF Consistent, NewRing
<1>4. View = <<>>
  BY <1>2, <1>3, NoFrames DEF View, XilinxWaiting, DoneFrames
<1>5. Sent = <<>> /\ XilinxOwed = <<>>
  <2>1. XilinxPending = <<>>
    BY <1>2, <1>3, NoFrames DEF XilinxPending, OwnedFrames
  <2> QED BY <1>2, <2>1, SeqNone, SeqShift DEF Sent, XilinxOwed
<1>6. (backend # "macOS") \in BOOLEAN
  OBVIOUS
<1> QED BY <1>2, <1>4, <1>5, <1>6 DEF Service!ServiceInit, View, Idle, NoResult, NoFrame, NoMac, None,
           MkFrame, Iface

\* Whatever the backend, a program sees what router_hal.h promises.
THEOREM BackendsImplementHal == Spec => ImplementsHal
<1>1. Init => HalInv /\ Service!ServiceInit
  BY HalInvInit, ServiceInitially
<1>2. HalInv /\ [Next]_vars => HalInv'
  BY HalInductive
<1>3. HalInv /\ HalInv' /\ [Next]_vars => [Service!ServiceNext]_(Service!serviceVars)
  BY NextServes DEF Serves
<1> QED BY <1>1, <1>2, <1>3, PTL DEF Spec, ImplementsHal, Service!ServiceSpec

-----------------------------------------------------------------------------
(* The broadcaster                                                         *)

\* The calls it makes, one after the other.
Stage ==
  /\ at \in {"init", "macs", "run", "listen", "flood", "flooding", "end"}
  /\ at = "macs" => call = Idle \/ call.op \in {"init", "mac"}
  /\ at = "listen" => call = Idle \/ call = ReceiveCall
  /\ at = "flooding" => call = Idle \/ call = SendCall(index, packet.src, packet.data)
  /\ at \notin {"macs", "listen", "flooding"} => call = Idle

\* What it has got: packets of stations, of which it sends the last one.
Got ==
  /\ IsSeq(delivered) /\ \A k \in 1 .. Len(delivered) : delivered[k].src # JoinMac
  /\ at \in {"init", "macs"} => delivered = <<>>
  /\ at \in {"flood", "flooding"} =>
       index \in Iface /\ delivered # <<>> /\ packet = delivered[Len(delivered)]
  /\ at = "listen" /\ call = Idle /\ result.ret = "ok" => result.frame.src # JoinMac
  /\ at = "flooding" /\ call = Idle => result.ret # "timeout"

\* A packet the router sent bears the MAC of its port, also when it is heard
\* again; until HAL_Init there is none.
IsOwn(f) == f.kind = "ip" => f.src = interface_mac[f.port]

Origin ==
  /\ \A n \in 1 .. Len(Sent) : IsOwn(Sent[n])
  /\ \A n \in 1 .. Len(View) : View[n] \in Frame \/ IsOwn(View[n])
  /\ at = "init" \/ call.op = "init" => Sent = <<>> /\ \A n \in 1 .. Len(View) : View[n] \in Frame

FloodInv == program = "broadcaster" => Stage /\ Got /\ Origin /\ \A i \in Iface \ refused : Handed(i)

LEMMA Views == HalInv => IsSeq(View) /\ IsSeq(Sent)
<1> SUFFICES ASSUME HalInv PROVE IsSeq(View) /\ IsSeq(Sent)
  OBVIOUS
<1>1. CASE backend = "xilinx"
  <2>1. Consistent(rxRing) /\ Consistent(txRing) /\ txRing \in Ring /\ rxRing \in Ring /\ IsSeq(wire)
    BY <1>1 DEF HalInv, BoardInv, XInv, RxSound, TxSound, Consistent
  <2>2. View = DoneFrames(rxBuffers, rxRing) /\ Sent = wire \o OwnedFrames(txBuffers, txRing)
    BY <1>1 DEF View, XilinxWaiting, DoneFrames, Sent, XilinxPending, OwnedFrames
  <2> QED BY <2>1, <2>2, DoneAre, OwnedAre, SeqConcat
<1>2. CASE backend # "xilinx"
  BY <1>2, PlainView DEF HalInv
<1> QED BY <1>1, <1>2

LEMMA ViewsNext == HalInv' => IsSeq(View)' /\ IsSeq(Sent)'
BY Views, PTL

\* Packets have a place among those of their port.
LEMMA PlaceIs ==
  ASSUME IsSeq(Sent), NEW i
  PROVE  /\ IsFiniteSet(Packets(i)) /\ Packets(i) \subseteq 1 .. Len(Sent) /\ Cardinality(Packets(i)) \in Nat
         /\ \A n \in Packets(i) : Place(i, n) \in 1 .. Cardinality(Packets(i))
<1>1. Len(Sent) \in Nat /\ DOMAIN Sent = 1 .. Len(Sent)
  BY SeqIs
<1>2. Packets(i) \subseteq 1 .. Len(Sent) /\ IsFiniteSet(1 .. Len(Sent))
  BY <1>1, FS_Interval DEF Packets
<1>3. IsFiniteSet(Packets(i)) /\ Cardinality(Packets(i)) \in Nat
  BY <1>2, FS_Subset, FS_CardinalityType
<1>4. ASSUME NEW n \in Packets(i) PROVE Place(i, n) \in 1 .. Cardinality(Packets(i))
  <2> DEFINE S == {m \in Packets(i) : m <= n}
  <2>1. S \in SUBSET Packets(i) /\ n \in S
    BY <1>2, <1>1
  <2>2. IsFiniteSet(S) /\ Cardinality(S) <= Cardinality(Packets(i)) /\ Cardinality(S) \in Nat
    BY <1>3, <2>1, FS_Subset, FS_CardinalityType
  <2>3. Cardinality(S) # 0
    BY <2>1, <2>2, FS_EmptySet
  <2>4. Place(i, n) = Cardinality(S)
    BY DEF Place
  <2> HIDE DEF S
  <2> QED BY <1>3, <2>2, <2>3, <2>4
<1> QED BY <1>2, <1>3, <1>4

\* A port whose packets stay, and whose due number stays, is in order as before.
LEMMA HandedKept ==
  ASSUME NEW i, Handed(i), IsSeq(Sent), Due(i)' = Due(i), Packets(i)' = Packets(i),
         \A n \in Packets(i) : Sent'[n] = Sent[n],
         \A k \in 1 .. Due(i) : delivered'[k] = delivered[k],
         UNCHANGED interface_mac \/ Due(i) = 0
  PROVE  Handed(i)'
<1>1. /\ Cardinality(Packets(i)) = Due(i)
      /\ \A n \in Packets(i) : /\ Place(i, n) \in 1 .. Due(i)
                               /\ Sent[n] = IpFrame(i, interface_mac[i], delivered[Place(i, n)].src,
                                                    delivered[Place(i, n)].data)
  BY PlaceIs DEF Handed
<1>2. \A n \in Packets(i) : UNCHANGED interface_mac
  BY <1>1
<1>3. ASSUME NEW n PROVE Place(i, n)' = Place(i, n)
  BY DEF Place
<1>4. ASSUME NEW n \in Packets(i)
      PROVE  LET d == delivered'[Place(i, n)'] IN Sent'[n] = IpFrame(i, interface_mac'[i], d.src, d.data)
  BY <1>1, <1>2, <1>3
<1> QED BY <1>1, <1>4 DEF Handed

\* One more packet.
LEMMA HandedMore ==
  ASSUME NEW i, Handed(i), IsSeq(Sent), IsSeq(delivered), UNCHANGED <<delivered, interface_mac>>,
         Due(i) + 1 = Len(delivered), Due(i)' = Len(delivered),
         NEW d, d = delivered[Len(delivered)], d.src # JoinMac,
         Sent' = Append(Sent, IpFrame(i, interface_mac[i], d.src, d.data))
  PROVE  Handed(i)'
<1> DEFINE P == Packets(i)
           new == IpFrame(i, interface_mac[i], d.src, d.data)
<1>0. PICK k \in Nat : k = Len(Sent)
  BY SeqIs
<1>1. /\ DOMAIN Sent = 1 .. k /\ DOMAIN Sent' = 1 .. k + 1
      /\ Sent'[k + 1] = new /\ \A n \in 1 .. k : Sent'[n] = Sent[n]
  BY <1>0, SeqAppend, SeqIs
<1>2. /\ IsFiniteSet(P) /\ P \subseteq 1 .. k /\ Cardinality(P) = Due(i) /\ Cardinality(P) \in Nat
      /\ \A n \in P : /\ Place(i, n) \in 1 .. Cardinality(P)
                      /\ Sent[n] = IpFrame(i, interface_mac[i], delivered[Place(i, n)].src,
                                           delivered[Place(i, n)].data)
  BY <1>0, PlaceIs DEF Handed
<1>3. new.port = i /\ new.kind = "ip" /\ new.dst # JoinMac
  BY DEF IpFrame, MkFrame
<1>4. Packets(i)' = {n \in DOMAIN Sent' : Sent'[n].port = i /\ Sent'[n].kind = "ip" /\ Sent'[n].dst # JoinMac}
  BY DEF Packets
<1>5. P = {n \in 1 .. k : Sent[n].port = i /\ Sent[n].kind = "ip" /\ Sent[n].dst # JoinMac}
  BY <1>1 DEF Packets
<1> HIDE DEF P, new
<1>6. 1 .. k + 1 = 1 .. k \cup {k + 1} /\ k + 1 \notin 1 .. k
  BY <1>1
<1>7. Packets(i)' = P \cup {k + 1} /\ k + 1 \notin P
  BY <1>1, <1>3, <1>4, <1>5, <1>6
<1>8. Cardinality(Packets(i)') = Due(i)'
  <2>1. Cardinality(P \cup {k + 1}) = Cardinality(P) + 1
    BY <1>2, <1>7, FS_AddElement
  <2> QED BY <1>2, <1>7, <2>1
<1>9. ASSUME NEW n \in P PROVE Place(i, n)' = Place(i, n) /\ n # k + 1
  <2>1. \A m \in P \cup {k + 1} : m <= n => m \in P
    BY <1>1, <1>2, <1>6
  <2>2. {m \in P \cup {k + 1} : m <= n} = {m \in P : m <= n}
    BY <2>1
  <2>3. Place(i, n)' = Cardinality({m \in Packets(i)' : m <= n})
    BY DEF Place
  <2>4. Place(i, n) = Cardinality({m \in P : m <= n})
    BY DEF Place, P
  <2> QED BY <1>7, <2>2, <2>3, <2>4
<1>10. Place(i, k + 1)' = Len(delivered)
  <2>1. \A m \in P \cup {k + 1} : m <= k + 1
    BY <1>1, <1>2
  <2>2. {m \in P \cup {k + 1} : m <= k + 1} = P \cup {k + 1}
    BY <2>1
  <2>3. Place(i, k + 1)' = Cardinality({m \in Packets(i)' : m <= k + 1})
    BY DEF Place
  <2> QED BY <1>7, <1>8, <2>2, <2>3
<1>11. ASSUME NEW n \in Packets(i)'
       PROVE  LET e == delivered'[Place(i, n)'] IN Sent'[n] = IpFrame(i, interface_mac'[i], e.src, e.data)
  <2>1. CASE n \in P
    <3>1. Sent'[n] = Sent[n] /\ Place(i, n)' = Place(i, n) /\ interface_mac' = interface_mac /\ delivered' = delivered
      BY <1>1, <1>2, <1>9, <2>1
    <3> QED BY <1>2, <2>1, <3>1
  <2>2. CASE n = k + 1
    BY <1>1, <1>10, <2>2 DEF new
  <2> QED BY <1>7, <1>11, <2>1, <2>2
<1> QED BY <1>8, <1>11 DEF Handed

\* A frame that is no packet of a port changes nothing there.
LEMMA PacketsKept ==
  ASSUME NEW i, IsSeq(Sent), NEW f, Sent' = Append(Sent, f) \/ UNCHANGED Sent,
         f.port # i \/ f.kind # "ip" \/ f.dst = JoinMac
  PROVE  Packets(i)' = Packets(i) /\ \A n \in Packets(i) : Sent'[n] = Sent[n]
<1> DEFINE k == Len(Sent)
<1>1. /\ k \in Nat /\ DOMAIN Sent = 1 .. k
      /\ Sent' = Append(Sent, f) => /\ DOMAIN Sent' = 1 .. k + 1
                                    /\ Sent'[k + 1] = f /\ \A n \in 1 .. k : Sent'[n] = Sent[n]
  BY SeqAppend, SeqIs
<1> HIDE DEF k
<1>2. CASE UNCHANGED Sent
  BY <1>2 DEF Packets
<1>3. CASE Sent' = Append(Sent, f)
  <2>1. 1 .. k + 1 = 1 .. k \cup {k + 1}
    BY <1>1
  <2> QED BY <1>1, <1>3, <2>1 DEF Packets
<1> QED BY <1>2, <1>3

\* What the steps of the service mean for a program that receives or sends.
LEMMA StepsSeen ==
  ASSUME Serves, call = Idle => UNCHANGED call
  PROVE  \/ UNCHANGED <<call, result, interface_mac, View, Sent>>
         \/ /\ call.op = "init" /\ call' = Idle /\ UNCHANGED View
            /\ Len(Sent') >= Len(Sent)
            /\ \A n \in Len(Sent) + 1 .. Len(Sent') :
                 /\ Sent'[n].kind = "ip" /\ Sent'[n].dst = JoinMac
                 /\ Sent'[n].src = interface_mac'[Sent'[n].port]
         \/ /\ call.op \in {"arp", "mac", "send", "receive"} /\ call' = Idle
            /\ UNCHANGED <<interface_mac, View, Sent>>
            /\ result'.ret \in {"called_before_init", "invalid_parameter", "iface_not_exist"}
         \/ call.op = "mac" /\ call' = Idle /\ UNCHANGED <<interface_mac, View, Sent>>
         \/ call.op = "arp"
         \/ /\ UNCHANGED <<call, result, interface_mac, View>>
            /\ XilinxOwed # <<>> /\ Sent' = Sent \o XilinxOwed
         \/ /\ call.op = "receive" /\ call' = Idle /\ result'.ret \in {"timeout", "eof"}
            /\ UNCHANGED <<interface_mac, View, Sent>>
         \/ /\ call.op = "send" /\ call.port \in Iface /\ call' = Idle /\ UNCHANGED <<interface_mac, View>>
            /\ \/ /\ result'.ret = "ok"
                  /\ Sent' = Append(Sent, IpFrame(call.port, interface_mac[call.port], call.dst, call.data))
               \/ result'.ret = "unknown" /\ UNCHANGED Sent
         \/ /\ UNCHANGED <<call, result, interface_mac, Sent>>
            /\ Len(View') = Len(View) + 1 /\ SubSeq(View', 1, Len(View)) = View
            /\ View'[Len(View')] \in Frame \cup {Sent[n] : n \in DOMAIN Sent}
         \/ \E n \in DOMAIN View :
              /\ call.op = "receive" /\ View' = Without(View, n) /\ UNCHANGED interface_mac
              /\ \/ /\ UNCHANGED Sent \/ \E f : Sent' = Append(Sent, f) /\ f.kind = "arp_reply"
                    /\ UNCHANGED <<call, result>> \/ (call' = Idle /\ result'.ret = "timeout")
                 \/ /\ ~IsOwn(View[n]) /\ result'.frame = View[n] /\ call' = Idle /\ UNCHANGED Sent
<1>1. CASE UNCHANGED Service!serviceVars
  BY <1>1 DEF Service!serviceVars, View
<1>2. CASE Service!CallAny
  BY <1>2 DEF Service!CallAny, View, Idle
<1>3. CASE Service!Initialise
  BY <1>3 DEF Service!Initialise, View, Idle, JoinMac, GroupMac
<1>4. CASE Service!Error
  BY <1>4 DEF Service!Error, View, Idle
<1>5. CASE Service!GetMac
  BY <1>5 DEF Service!GetMac, View, Idle
<1>6. CASE Service!Lookup
  BY <1>6 DEF Service!Lookup
<1>7. CASE Service!Repay
  BY <1>7 DEF Service!Repay, View
<1>8. CASE Service!GiveUp
  BY <1>8 DEF Service!GiveUp, View, Idle
<1>9. CASE Service!Send
  BY <1>9 DEF Service!Send, View, Idle, IpFrame, MkFrame, None, Iface
<1>10. CASE Service!Arrival
  BY <1>10 DEF Service!Arrival, View
<1>11. ASSUME NEW n \in DOMAIN View, Service!Overhear(n)
       PROVE  /\ call.op = "receive" /\ View' = Without(View, n) /\ UNCHANGED interface_mac
              /\ UNCHANGED Sent \/ \E f : Sent' = Append(Sent, f) /\ f.kind = "arp_reply"
              /\ UNCHANGED <<call, result>> \/ (call' = Idle /\ result'.ret = "timeout")
  <2> DEFINE r == Service!Reply(View[n], interface_mac[View[n].port])
             g == [r EXCEPT !.to = Service!Garbled]
  <2>1. r.kind = "arp_reply" /\ g.kind = "arp_reply"
    OBVIOUS
  <2> HIDE DEF r, g
  <2>2. UNCHANGED Sent \/ Sent' = Append(Sent, r) \/ Sent' = Append(Sent, g)
    BY <1>11 DEF Service!Overhear, Service!Replies, View, r, g
  <2>3. /\ call.op = "receive" /\ View' = Without(View, n) /\ UNCHANGED interface_mac
        /\ UNCHANGED <<call, result>> \/ (call' = Idle /\ result'.ret = "timeout")
    BY <1>11 DEF Service!Overhear, Service!Without, Without, View, Idle
  <2> QED BY <2>1, <2>2, <2>3
<1>12. ASSUME NEW n \in DOMAIN View, Service!Deliver(n)
       PROVE  /\ call.op = "receive" /\ View' = Without(View, n) /\ UNCHANGED interface_mac
              /\ ~IsOwn(View[n]) /\ result'.frame = View[n] /\ call' = Idle /\ UNCHANGED Sent
  BY <1>12 DEF Service!Deliver, Service!Without, Without, View, Idle, IsOwn
<1>13. \/ Service!CallAny \/ Service!Initialise \/ Service!Error \/ Service!GetMac \/ Service!Lookup
       \/ Service!Repay \/ Service!GiveUp \/ Service!Send \/ Service!Arrival
       \/ \E n \in DOMAIN View : Service!Overhear(n) \/ Service!Deliver(n)
       \/ UNCHANGED Service!serviceVars
  BY DEF Serves, Service!ServiceNext, Service!Operation, View
<1> QED BY <1>1, <1>2, <1>3, <1>4, <1>5, <1>6, <1>7, <1>8, <1>9, <1>10, <1>11, <1>12, <1>13

LEMMA WithoutIs ==
  ASSUME NEW s, IsSeq(s), NEW n \in 1 .. Len(s), NEW m \in 1 .. Len(Without(s, n))
  PROVE  \E k \in 1 .. Len(s) : Without(s, n)[m] = s[k]
<1> DEFINE S == {s[k] : k \in 1 .. Len(s)}
<1>1. Len(s) \in Nat /\ s = [k \in 1 .. Len(s) |-> s[k]]
  BY SeqIs
<1>2. s \in Seq(S)
  BY <1>1, SeqDef
<1> HIDE DEF S
<1>3. n - 1 \in 0 .. Len(s) /\ n + 1 \in 1 .. Len(s) + 1 /\ 1 \in 1 .. Len(s) + 1 /\ Len(s) \in 0 .. Len(s)
  BY <1>1
<1>4. SubSeq(s, 1, n - 1) \in Seq(S) /\ SubSeq(s, n + 1, Len(s)) \in Seq(S)
  BY <1>2, <1>3, SubSeqProperties
<1>5. Without(s, n) \in Seq(S)
  BY <1>4, ConcatProperties DEF Without
<1>6. Without(s, n)[m] \in S
  BY <1>5, ElementOfSeq
<1> QED BY <1>6 DEF S

\* While the program does not send, what is due does not depend on the call.
LEMMA DueKept ==
  ASSUME UNCHANGED clientVars, UNCHANGED <<call, result>> \/ at # "flooding", NEW i
  PROVE  Due(i)' = Due(i)
<1>1. UNCHANGED <<at, index, delivered>>
  BY DEF clientVars
<1>2. CASE UNCHANGED <<call, result>>
  BY <1>1, <1>2 DEF Due, Idle
<1>3. CASE at # "flooding"
  BY <1>1, <1>3 DEF Due
<1> QED BY <1>2, <1>3

\* What is sent from the MAC of its port is the router's own.
LEMMA OwnKept ==
  ASSUME IsSeq(Sent), \A n \in 1 .. Len(Sent) : IsOwn(Sent[n]), UNCHANGED interface_mac,
         NEW f, Sent' = Append(Sent, f) \/ UNCHANGED Sent,
         f.kind # "ip" \/ f.src = interface_mac[f.port]
  PROVE  \A n \in 1 .. Len(Sent') : IsOwn(Sent[n])'
<1> SUFFICES ASSUME NEW n \in 1 .. Len(Sent') PROVE IsOwn(Sent[n])'
  OBVIOUS
<1>1. Sent'[n] = f \/ (n \in 1 .. Len(Sent) /\ Sent'[n] = Sent[n])
  <2>1. CASE UNCHANGED Sent
    BY <2>1
  <2>2. CASE Sent' = Append(Sent, f)
    <3>1. Len(Sent) \in Nat /\ Len(Sent') = Len(Sent) + 1
      BY <2>2, SeqAppend, SeqIs
    <3>2. n = Len(Sent) + 1 \/ n \in 1 .. Len(Sent)
      BY <3>1
    <3> QED BY <2>2, <3>2, SeqAppend
  <2> QED BY <2>1, <2>2
<1> QED BY <1>1 DEF IsOwn

\* A call ends, or one of its steps is made, while the broadcaster waits.
LEMMA FloodServes ==
  ASSUME FloodInv, program = "broadcaster", HalInv, HalInv', Serves, UNCHANGED clientVars,
         call = Idle => UNCHANGED call
  PROVE  FloodInv'
<1>1. /\ Stage /\ Got /\ Origin /\ (\A i \in Iface \ refused : Handed(i))
      /\ UNCHANGED <<program, at, index, packet, delivered, refused>>
  BY DEF FloodInv, clientVars
<1>2. IsSeq(View) /\ IsSeq(Sent) /\ IsSeq(View') /\ IsSeq(Sent') /\ IsSeq(delivered)
  BY <1>1, Views, ViewsNext DEF Got, IsSeq
<1>3. /\ call = Idle \/ call.op # "idle"
      /\ call.op = "receive" => at = "listen" /\ call = ReceiveCall
      /\ call.op = "send" => at = "flooding" /\ call = SendCall(index, packet.src, packet.data)
      /\ call.op = "init" => at = "macs" /\ delivered = <<>>
      /\ call.op # "arp" /\ (call.op = "mac" => at = "macs")
  BY <1>1 DEF Stage, Got, Idle, ReceiveCall, SendCall
<1>4. ASSUME NEW i \in Iface \ refused, NEW f, Sent' = Append(Sent, f) \/ UNCHANGED Sent,
             f.port # i \/ f.kind # "ip" \/ f.dst = JoinMac,
             Due(i)' = Due(i), UNCHANGED interface_mac
      PROVE  Handed(i)'
  BY <1>1, <1>2, <1>4, PacketsKept, HandedKept
<1>5. ASSUME UNCHANGED <<interface_mac, View, Sent>>, \A i \in Iface : Due(i)' = Due(i),
             Stage', Got', call'.op = "init" => call.op = "init"
      PROVE  FloodInv'
  <2>1. Origin'
    BY <1>1, <1>5 DEF Origin, IsOwn
  <2>2. \A i \in Iface \ refused : Handed(i)'
    <3>1. NoFrame.kind # "ip"
      BY DEF NoFrame, MkFrame
    <3> QED BY <1>4, <1>5, <3>1
  <2> QED BY <1>1, <1>5, <2>1, <2>2 DEF FloodInv
<1>6. CASE UNCHANGED <<call, result, interface_mac, View, Sent>>
  <2>1. Stage' /\ Got'
    BY <1>1, <1>6 DEF Stage, Got
  <2>2. \A i \in Iface : Due(i)' = Due(i)
    BY <1>6, DueKept
  <2> QED BY <1>5, <1>6, <2>1, <2>2
<1>7. CASE /\ call.op = "init" /\ call' = Idle /\ UNCHANGED View
           /\ Len(Sent') >= Len(Sent)
           /\ \A n \in Len(Sent) + 1 .. Len(Sent') :
                /\ Sent'[n].kind = "ip" /\ Sent'[n].dst = JoinMac
                /\ Sent'[n].src = interface_mac'[Sent'[n].port]
  <2>1. at = "macs" /\ delivered = <<>> /\ Sent = <<>> /\ \A n \in 1 .. Len(View) : View[n] \in Frame
    BY <1>1, <1>3, <1>7 DEF Origin
  <2>2. Len(Sent) = 0 /\ Len(delivered) = 0
    BY <2>1
  <2>3. \A n \in 1 .. Len(Sent') : /\ Sent'[n].kind = "ip" /\ Sent'[n].dst = JoinMac
                                  /\ Sent'[n].src = interface_mac'[Sent'[n].port]
    BY <1>7, <2>2
  <2>4. Stage' /\ Got'
    BY <1>1, <1>7, <2>1 DEF Stage, Got
  <2>5. Origin'
    BY <1>1, <1>7, <2>1, <2>3 DEF Origin, IsOwn, Idle
  <2>6. ASSUME NEW i \in Iface \ refused PROVE Handed(i)'
    <3>1. Due(i) = 0
      BY <2>1, <2>2 DEF Due
    <3>2. Packets(i) = {} /\ Packets(i)' = {}
      BY <1>2, <2>1, <2>3, SeqIs DEF Packets
    <3>3. Due(i)' = Due(i)
      BY <2>1, DueKept
    <3>4. Handed(i) /\ \A k \in 1 .. Due(i) : delivered'[k] = delivered[k]
      BY <1>1
    <3> QED BY <1>2, <3>1, <3>2, <3>3, <3>4, HandedKept
  <2> QED BY <1>1, <2>4, <2>5, <2>6 DEF FloodInv
<1>8. CASE /\ call.op \in {"arp", "mac", "send", "receive"} /\ call' = Idle
           /\ UNCHANGED <<interface_mac, View, Sent>>
           /\ result'.ret \in {"called_before_init", "invalid_parameter", "iface_not_exist"}
  <2>1. Stage' /\ Got' /\ call # Idle
    BY <1>1, <1>3, <1>8 DEF Stage, Got, Idle
  <2>2. ASSUME NEW i \in Iface PROVE Due(i)' = Due(i)
    <3>1. CASE at # "flooding"
      BY <3>1, DueKept
    <3>2. CASE at = "flooding"
      <4>1. result'.ret # "ok"
        BY <1>8
      <4> QED BY <1>1, <1>8, <2>1, <3>2, <4>1 DEF Due
    <3> QED BY <3>1, <3>2
  <2> QED BY <1>5, <1>8, <2>1, <2>2 DEF Idle
<1>9. CASE call.op = "mac" /\ call' = Idle /\ UNCHANGED <<interface_mac, View, Sent>>
  <2>1. Stage' /\ Got' /\ at = "macs"
    BY <1>1, <1>3, <1>9 DEF Stage, Got, Idle
  <2>2. \A i \in Iface : Due(i)' = Due(i)
    BY <2>1, DueKept
  <2> QED BY <1>5, <1>9, <2>1, <2>2 DEF Idle
\* A frame is taken from those that wait, and a reply may be sent.
<1>10. ASSUME UNCHANGED interface_mac, \A i \in Iface : Due(i)' = Due(i), Stage', Got',
              at = "listen", call'.op # "init",
              UNCHANGED Sent \/ \E f : Sent' = Append(Sent, f) /\ f.kind = "arp_reply",
              UNCHANGED View \/ \E n \in DOMAIN View : View' = Without(View, n)
       PROVE  FloodInv'
  <2>1. PICK f : f.kind # "ip" /\ (UNCHANGED Sent \/ Sent' = Append(Sent, f))
    <3>1. NoFrame.kind # "ip"
      BY DEF NoFrame, MkFrame
    <3> QED BY <1>10, <3>1
  <2>2. \A i \in Iface \ refused : Handed(i)'
    BY <1>4, <1>10, <2>1
  <2>3. \A n \in 1 .. Len(Sent') : IsOwn(Sent[n])'
    BY <1>1, <1>2, <1>10, <2>1, OwnKept DEF Origin
  <2>4. ASSUME NEW m \in 1 .. Len(View') PROVE View'[m] \in Frame \/ IsOwn(View[m])'
    <3>1. PICK k \in 1 .. Len(View) : View'[m] = View[k]
      <4>1. CASE UNCHANGED View
        BY <4>1
      <4>2. CASE \E n \in DOMAIN View : View' = Without(View, n)
        <5>1. PICK n \in 1 .. Len(View) : View' = Without(View, n)
          BY <1>2, <4>2, SeqIs
        <5>2. \E k \in 1 .. Len(View) : Without(View, n)[m] = View[k]
          BY <1>2, <5>1, WithoutIs
        <5> QED BY <5>1, <5>2
      <4> QED BY <1>10, <4>1, <4>2
    <3> QED BY <1>1, <1>10, <3>1 DEF Origin, IsOwn
  <2>5. Origin'
    BY <1>1, <1>10, <2>3, <2>4 DEF Origin
  <2> QED BY <1>1, <1>10, <2>2, <2>5 DEF FloodInv
<1>11. CASE /\ UNCHANGED <<call, result, interface_mac, View>>
            /\ XilinxOwed # <<>> /\ Sent' = Sent \o XilinxOwed
  <2> DEFINE f == Reply(Held, BoardMac)
  <2>1. XilinxOwed = <<f>> /\ f.kind = "arp_reply" /\ step = "reply"
    BY <1>11 DEF XilinxOwed, Reply, MkFrame
  <2> HIDE DEF f
  <2>2. Sent' = Append(Sent, f)
    BY <1>2, <1>11, <2>1, SeqShift
  <2>3. at = "listen" /\ call.op = "receive"
    BY <1>3, <2>1 DEF HalInv, MapInv, BoardInv, XInv
  <2>4. Stage' /\ Got'
    BY <1>1, <1>11 DEF Stage, Got
  <2>5. \A i \in Iface : Due(i)' = Due(i)
    BY <2>3, DueKept
  <2> QED BY <1>10, <1>11, <2>1, <2>2, <2>3, <2>4, <2>5
<1>12. CASE /\ call.op = "receive" /\ call' = Idle /\ result'.ret \in {"timeout", "eof"}
            /\ UNCHANGED <<interface_mac, View, Sent>>
  <2>1. Stage' /\ Got' /\ at = "listen"
    BY <1>1, <1>3, <1>12 DEF Stage, Got
  <2>2. \A i \in Iface : Due(i)' = Due(i)
    BY <2>1, DueKept
  <2> QED BY <1>5, <1>12, <2>1, <2>2 DEF Idle
<1>13. CASE /\ call.op = "send" /\ call.port \in Iface /\ call' = Idle /\ UNCHANGED <<interface_mac, View>>
            /\ \/ /\ result'.ret = "ok"
                  /\ Sent' = Append(Sent, IpFrame(call.port, interface_mac[call.port], call.dst, call.data))
               \/ result'.ret = "unknown" /\ UNCHANGED Sent
  <2> DEFINE f == IpFrame(index, interface_mac[index], packet.src, packet.data)
  <2>1. /\ at = "flooding" /\ index \in Iface /\ delivered # <<>> /\ packet = delivered[Len(delivered)]
        /\ call # Idle
        /\ \/ result'.ret = "ok" /\ Sent' = Append(Sent, f)
           \/ result'.ret = "unknown" /\ UNCHANGED Sent
    BY <1>1, <1>3, <1>13 DEF Got, SendCall, Idle
  <2>2. f.port = index /\ f.kind = "ip" /\ f.src = interface_mac[index]
    BY DEF IpFrame, MkFrame
  <2>3. Stage' /\ Got'
    BY <1>1, <1>13, <2>1 DEF Stage, Got
  <2>4. ASSUME NEW i \in Iface \ refused PROVE Handed(i)'
    <3>1. i \in Int /\ index \in Int /\ Len(delivered) \in Nat
      BY <1>2, <2>1, SeqIs, ApiAssumption DEF Iface
    <3>2. CASE i # index
      <4>1. Due(i)' = Due(i)
        BY <1>1, <2>1, <3>1, <3>2 DEF Due
      <4>2. f.port # i
        BY <2>2, <3>2
      <4> HIDE DEF f
      <4> QED BY <1>4, <1>13, <2>1, <4>1, <4>2
    <3>3. CASE i = index /\ result'.ret = "unknown" /\ UNCHANGED Sent
      <4>1. Due(i)' = Due(i)
        BY <1>1, <2>1, <3>1, <3>3 DEF Due
      <4>2. NoFrame.kind # "ip"
        BY DEF NoFrame, MkFrame
      <4> QED BY <1>4, <1>13, <3>3, <4>1, <4>2
    <3>4. CASE i = index /\ result'.ret = "ok" /\ Sent' = Append(Sent, f)
      <4>1. Due(i) = Len(delivered) - 1
        BY <2>1, <3>1, <3>4 DEF Due
      <4>2. Due(i)' = Len(delivered)
        BY <1>1, <1>13, <2>1, <3>1, <3>4 DEF Due
      <4>3. Due(i) + 1 = Len(delivered)
        BY <3>1, <4>1
      <4>4. packet.src # JoinMac
        <5>1. Len(delivered) \in 1 .. Len(delivered)
          BY <1>2, <2>1, SeqIs, SeqTail
        <5> QED BY <1>1, <2>1, <5>1 DEF Got
      <4>5. Sent' = Append(Sent, IpFrame(i, interface_mac[i], packet.src, packet.data))
        BY <3>4
      <4> HIDE DEF f
      <4> QED BY <1>1, <1>2, <1>13, <2>1, <4>2, <4>3, <4>4, <4>5, HandedMore
    <3> QED BY <2>1, <3>2, <3>3, <3>4
  <2>5. Origin'
    <3> HIDE DEF f
    <3>1. \A n \in 1 .. Len(Sent') : IsOwn(Sent[n])'
      BY <1>1, <1>2, <1>13, <2>1, <2>2, OwnKept DEF Origin
    <3> QED BY <1>1, <1>13, <2>1, <3>1 DEF Origin, IsOwn, Idle
  <2> HIDE DEF f
  <2> QED BY <1>1, <2>3, <2>4, <2>5 DEF FloodInv
<1>14. CASE /\ UNCHANGED <<call, result, interface_mac, Sent>>
            /\ Len(View') = Len(View) + 1 /\ SubSeq(View', 1, Len(View)) = View
            /\ View'[Len(View')] \in Frame \cup {Sent[n] : n \in DOMAIN Sent}
  <2>1. Stage' /\ Got'
    BY <1>1, <1>14 DEF Stage, Got
  <2>2. \A i \in Iface \ refused : Handed(i)'
    <3>1. NoFrame.kind # "ip"
      BY DEF NoFrame, MkFrame
    <3>2. \A i \in Iface : Due(i)' = Due(i)
      BY <1>14, DueKept
    <3> QED BY <1>4, <1>14, <3>1, <3>2
  <2>3. ASSUME NEW n \in 1 .. Len(View')
        PROVE  \/ n \in 1 .. Len(View) /\ View'[n] = View[n]
               \/ View'[n] \in Frame
               \/ \E m \in 1 .. Len(Sent) : View'[n] = Sent[m]
    <3>1. Len(View) \in Nat /\ DOMAIN Sent = 1 .. Len(Sent)
      BY <1>2, SeqIs
    <3>2. n = Len(View') \/ n \in 1 .. Len(View)
      BY <1>14, <3>1
    <3>3. CASE n \in 1 .. Len(View)
      <4>1. View[n] = SubSeq(View', 1, Len(View))[n]
        BY <1>14
      <4>2. PICK S : View' \in Seq(S)
        BY <1>2 DEF IsSeq
      <4>3. SubSeq(View', 1, Len(View))[n] = View'[n]
        BY <1>14, <3>1, <3>3, <4>2
      <4> QED BY <3>3, <4>1, <4>3
    <3> QED BY <1>14, <3>1, <3>2, <3>3
  <2>4. Origin'
    BY <1>1, <1>14, <2>3 DEF Origin, IsOwn
  <2> QED BY <1>1, <2>1, <2>2, <2>4 DEF FloodInv
<1>15. ASSUME NEW n \in DOMAIN View, call.op = "receive", View' = Without(View, n), UNCHANGED interface_mac,
              UNCHANGED Sent \/ \E f : Sent' = Append(Sent, f) /\ f.kind = "arp_reply",
              UNCHANGED <<call, result>> \/ (call' = Idle /\ result'.ret = "timeout")
       PROVE  FloodInv'
  <2>1. Stage' /\ Got' /\ at = "listen" /\ call'.op # "init"
    BY <1>1, <1>3, <1>15 DEF Stage, Got, Idle
  <2>2. \A i \in Iface : Due(i)' = Due(i)
    BY <2>1, DueKept
  <2> QED BY <1>10, <1>15, <2>1, <2>2
<1>16. ASSUME NEW n \in DOMAIN View, call.op = "receive", View' = Without(View, n), UNCHANGED interface_mac,
              ~IsOwn(View[n]), result'.frame = View[n], call' = Idle, UNCHANGED Sent
       PROVE  FloodInv'
  <2>1. View[n] \in Frame
    BY <1>1, <1>2, <1>16, SeqIs DEF Origin
  <2>2. result'.frame.src # JoinMac
    BY <1>16, <2>1, ApiAssumption
  <2>3. Stage' /\ Got' /\ at = "listen" /\ call'.op # "init"
    BY <1>1, <1>3, <1>16, <2>2 DEF Stage, Got, Idle
  <2>4. \A i \in Iface : Due(i)' = Due(i)
    BY <2>3, DueKept
  <2> QED BY <1>10, <1>16, <2>3, <2>4
<1> QED BY <1>3, <1>6, <1>7, <1>8, <1>9, <1>11, <1>12, <1>13, <1>14, <1>15, <1>16, StepsSeen

\* The program makes its next call, or looks at what the last one returned.
LEMMA FloodProgram ==
  ASSUME FloodInv, program = "broadcaster", HalInv, Program
  PROVE  FloodInv'
<1>1. /\ Stage /\ Got /\ Origin /\ (\A i \in Iface \ refused : Handed(i))
      /\ IsSeq(Sent) /\ IsSeq(delivered)
  BY Views DEF FloodInv, Got
<1>2. /\ UNCHANGED <<result, inited, interface_mac, rx, wire, heard, ownVars, backend>>
      /\ UNCHANGED call \/ call = Idle
  BY ProgramCalls DEF HalInv
<1>3. UNCHANGED <<View, Sent>>
  BY <1>2, ViewKept DEF ownVars, boardVars
<1>4. Len(delivered) \in Nat /\ \A i \in Iface : i \in Nat /\ i < NIface
  BY <1>1, SeqIs, ApiAssumption DEF Iface
<1>5. ASSUME Stage', Got', call'.op = "init" \/ at' = "init" => at = "init",
             \A i \in Iface \ refused' : /\ i \notin refused /\ Due(i)' = Due(i)
                                       /\ \A k \in 1 .. Due(i) : delivered'[k] = delivered[k]
      PROVE  FloodInv'
  <2>1. Origin'
    BY <1>1, <1>2, <1>3, <1>5 DEF Origin, IsOwn
  <2>2. ASSUME NEW i \in Iface \ refused' PROVE Handed(i)'
    <3>1. Packets(i)' = Packets(i) /\ \A n \in Packets(i) : Sent'[n] = Sent[n]
      BY <1>3 DEF Packets
    <3> QED BY <1>1, <1>2, <1>5, <3>1, HandedKept
  <2> QED BY <2>1, <2>2, <1>5 DEF FloodInv
<1>6. CASE Start
  <2>1. /\ at = "init" /\ at' = "macs" /\ call' = InitCall
        /\ UNCHANGED <<index, packet, delivered, refused, program>>
    BY <1>6 DEF Start, Calls, Invoke
  <2> QED BY <1>1, <1>5, <2>1 DEF Stage, Got, Due, InitCall
<1>7. CASE PrintMac
  <2>1. /\ at = "macs" /\ at' = "macs" /\ call' = MacCall(index)
        /\ UNCHANGED <<packet, delivered, refused, program>>
    BY <1>7 DEF PrintMac, Calls, Invoke
  <2> QED BY <1>1, <1>5, <2>1 DEF Stage, Got, Due, MacCall
<1>8. CASE Ready
  <2>1. /\ at = "macs" /\ at' = "run" /\ call = Idle
        /\ UNCHANGED <<call, index, packet, delivered, refused, program>>
    BY <1>8 DEF Ready, apiVars
  <2> QED BY <1>1, <1>5, <2>1 DEF Stage, Got, Due, Idle
<1>9. CASE Listen
  <2>1. /\ at = "run" /\ at' = "listen" /\ call' = ReceiveCall
        /\ UNCHANGED <<index, packet, delivered, refused, program>>
    BY <1>9 DEF Listen, Calls, Invoke
  <2>2. ReceiveCall # Idle
    BY DEF ReceiveCall, Idle
  <2> QED BY <1>1, <1>5, <2>1, <2>2 DEF Stage, Got, Due, ReceiveCall
<1>10. CASE Listened /\ result.ret # "ok"
  <2>1. /\ at = "listen" /\ at' \in {"run", "end"} /\ call = Idle
        /\ UNCHANGED <<call, index, packet, delivered, refused, program>>
    BY <1>10 DEF Listened, Failed, apiVars
  <2> QED BY <1>1, <1>5, <2>1 DEF Stage, Got, Due, Idle
<1>11. CASE Listened /\ result.ret = "ok"
  <2>1. /\ at = "listen" /\ at' = "flood" /\ call = Idle /\ index' = 0
        /\ packet' = result.frame /\ delivered' = Append(delivered, result.frame)
        /\ UNCHANGED <<call, refused, program>>
    BY <1>11 DEF Listened, Failed, apiVars
  <2>2. /\ IsSeq(delivered') /\ Len(delivered') = Len(delivered) + 1
        /\ delivered'[Len(delivered')] = packet' /\ \A k \in 1 .. Len(delivered) : delivered'[k] = delivered[k]
    BY <1>1, <2>1, SeqAppend
  <2>3. \A k \in 1 .. Len(delivered') : delivered'[k].src # JoinMac
    <3>1. \A k \in 1 .. Len(delivered') : k = Len(delivered') \/ k \in 1 .. Len(delivered)
      BY <1>4, <2>2
    <3>2. packet'.src # JoinMac /\ \A k \in 1 .. Len(delivered) : delivered[k].src # JoinMac
      BY <1>1, <1>11, <2>1 DEF Got
    <3> QED BY <2>2, <3>1, <3>2
  <2>4. delivered' # <<>> /\ 0 \in Iface
    <3>1. Len(delivered') # 0
      BY <1>4, <2>2
    <3> QED BY <3>1, ApiAssumption DEF Iface
  <2>5. Got'
    BY <2>1, <2>2, <2>3, <2>4 DEF Got
  <2>6. ASSUME NEW i \in Iface PROVE Due(i)' = Due(i) /\ Due(i) = Len(delivered)
    <3>1. Due(i) = Len(delivered)
      BY <2>1 DEF Due
    <3>2. Due(i)' = Len(delivered') - 1
      BY <1>4, <2>1 DEF Due
    <3> QED BY <1>4, <2>2, <3>1, <3>2
  <2>7. Stage'
    BY <2>1 DEF Stage
  <2> QED BY <1>5, <2>1, <2>2, <2>5, <2>6, <2>7 DEF Idle
<1>12. CASE Flood
  <2>1. /\ at = "flood" /\ at' = "flooding" /\ call' = SendCall(index, packet.src, packet.data)
        /\ UNCHANGED <<index, packet, delivered, refused, program>>
    BY <1>12 DEF Flood, Calls, Invoke
  <2>2. SendCall(index, packet.src, packet.data) # Idle
    BY DEF SendCall, Idle
  <2>3. Stage' /\ Got'
    BY <1>1, <2>1, <2>2 DEF Stage, Got
  <2>4. ASSUME NEW i \in Iface PROVE Due(i)' = Due(i)
    <3>1. index \in Nat
      BY <1>1, <1>4, <2>1 DEF Got
    <3> QED BY <1>4, <2>1, <2>2, <3>1 DEF Due
  <2> QED BY <1>5, <2>1, <2>3, <2>4 DEF SendCall
<1>13. CASE Flooding
  <2>1. /\ at = "flooding" /\ call = Idle /\ index' = index + 1
        /\ at' = IF index + 1 < NIface THEN "flood" ELSE "run"
        /\ refused' = IF Failed THEN refused \cup {index} ELSE refused
        /\ UNCHANGED <<call, packet, delivered, program>>
    BY <1>13 DEF Flooding, apiVars
  <2>2. index \in Nat /\ index < NIface /\ NIface \in Nat /\ (Failed \/ result.ret = "ok")
    BY <1>1, <1>4, <2>1, ApiAssumption DEF Got, Failed
  <2>3. at' = "flood" => index' \in Iface
    BY <2>1, <2>2 DEF Iface
  <2>4. Stage' /\ Got'
    BY <1>1, <2>1, <2>3 DEF Stage, Got
  <2>5. ASSUME NEW i \in Iface \ refused' PROVE i \notin refused /\ Due(i)' = Due(i)
    <3>1. i \notin refused /\ (i = index => result.ret = "ok")
      BY <2>1, <2>2
    <3>2. CASE index < i
      <4>1. index + 1 < NIface
        BY <1>4, <2>2, <3>2
      <4> QED BY <1>4, <2>1, <2>2, <3>1, <3>2, <4>1 DEF Due
    <3>3. CASE ~(index < i)
      BY <1>4, <2>1, <2>2, <3>1, <3>3 DEF Due
    <3> QED BY <3>1, <3>2, <3>3
  <2> QED BY <1>5, <2>1, <2>4, <2>5 DEF Idle
<1>14. CASE Command \/ Quit \/ Loop \/ LoopReceive \/ LoopEnd \/ Interrupt
  BY <1>1, <1>14 DEF Command, Quit, Loop, LoopReceive, LoopEnd, Interrupt, Stage
<1> QED BY <1>6, <1>7, <1>8, <1>9, <1>10, <1>11, <1>12, <1>13, <1>14 DEF Program

\* Only the program begins a call.
LEMMA IdleStays ==
  ASSUME call = Idle, BackendStep \/ World \/ Drain \/ Clock \/ UNCHANGED vars
  PROVE  UNCHANGED call
<1>1. call.op = "idle"
  BY DEF Idle
<1>2. CASE BackendStep
  <2>1. ~Stdio
    BY <1>1 DEF Stdio, StdioStart, StdioArp, StdioEof, StdioIp, StdioSend, StdioOverhear, StdioIgnore,
                Refuse, Refused, GetInterfaceMac, Accepted, Calling
  <2>2. ~Mac
    BY <1>1 DEF Mac, MacStart, MacArp, MacNoPort, MacIp, MacSend, MacNext, MacOwn, MacOverhear, MacPolls,
                Refuse, Refused, GetInterfaceMac, Accepted, Calling
  <2>3. Xilinx => UNCHANGED apiVars
    BY <1>1 DEF Xilinx, XilinxStart, XilinxArp, XilinxSend, XilinxBegin, XilinxTimeout, XilinxIp, XilinxIgnore,
                XilinxOverhear, XilinxReply, HasFrame, Polls, Refuse, Refused, GetInterfaceMac, Accepted, Calling
  <2> QED BY <1>2, <2>1, <2>2, <2>3 DEF BackendStep, Backend, apiVars
<1>3. CASE World
  BY <1>3 DEF World, StdioFeed, MacWorld, XilinxFill, Arrive, apiVars
<1>4. CASE Drain \/ Clock \/ UNCHANGED vars
  BY <1>4 DEF Drain, Clock, XilinxDrain, XilinxClock, apiVars, vars
<1> QED BY <1>2, <1>3, <1>4

LEMMA FloodInit == Init => FloodInv
<1> SUFFICES ASSUME Init, program = "broadcaster" PROVE FloodInv
  BY DEF FloodInv
<1>1. HalInv /\ Service!ServiceInit
  BY HalInvInit, ServiceInitially
<1>2. View = <<>> /\ Sent = <<>> /\ call = Idle /\ at = "init" /\ delivered = <<>>
  BY <1>1 DEF Service!ServiceInit, View, Init, Idle
<1>3. IsSeq(<<>>) /\ Len(<<>>) = 0 /\ 1 .. 0 = {}
  BY SeqNone
<1>4. Stage /\ Got /\ Origin
  BY <1>2, <1>3 DEF Stage, Got, Origin, Idle
<1>5. ASSUME NEW i \in Iface PROVE Handed(i)
  <2>1. Packets(i) = {} /\ Cardinality({}) = 0
    BY <1>2, <1>3, SeqIs, FS_EmptySet DEF Packets
  <2>2. Due(i) = 0
    BY <1>2, <1>3 DEF Due
  <2> QED BY <2>1, <2>2 DEF Handed
<1> QED BY <1>4, <1>5 DEF FloodInv

LEMMA FloodNext == FloodInv /\ HalInv /\ HalInv' /\ [Next]_vars => FloodInv'
<1> SUFFICES ASSUME FloodInv, HalInv, HalInv', [Next]_vars PROVE FloodInv'
  OBVIOUS
<1>1. program' = program
  BY DEF Next, Program, Start, PrintMac, Ready, Command, Quit, Loop, LoopReceive, LoopEnd, Interrupt, Listen,
         Listened, Flood, Flooding, Calls, BackendStep, World, Drain, Clock, clientVars, vars
<1>2. CASE program # "broadcaster"
  BY <1>1, <1>2 DEF FloodInv
<1>3. CASE program = "broadcaster" /\ Program
  BY <1>3, FloodProgram
<1>4. CASE program = "broadcaster" /\ ~Program
  <2>1. UNCHANGED clientVars
    BY <1>4 DEF Next, BackendStep, World, Drain, Clock, vars
  <2>2. call = Idle => UNCHANGED call
    BY <1>4, IdleStays DEF Next
  <2> QED BY <1>4, <2>1, <2>2, NextServes, FloodServes
<1> QED BY <1>2, <1>3, <1>4

\* The broadcaster sends every packet it got once on every port, in the order it got
\* them (Example/broadcaster.cpp), whatever the backend: where all sends went well,
\* the packets on a port are those received, the last one perhaps still to come.
THEOREM FloodsAll == Spec => []Flooded
<1>1. Init => HalInv /\ FloodInv
  BY HalInvInit, FloodInit
<1>2. HalInv /\ [Next]_vars => HalInv'
  BY HalInductive
<1>3. FloodInv => Flooded
  BY DEF FloodInv, Flooded
<1> QED BY <1>1, <1>2, <1>3, FloodNext, PTL DEF Spec

=============================================================================
