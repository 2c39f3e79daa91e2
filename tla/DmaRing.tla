------------------------------ MODULE DmaRing -------------------------------
(***************************************************************************)
(* A ring of buffer descriptors of the AXI DMA driver, as router_hal.c of  *)
(* the Xilinx backend uses it (XAxiDma_BdRing...).  Around the ring come,  *)
(* from head on: post descriptors the driver has taken back, hw ones the   *)
(* hardware owns, of which it is done with the first done, pre ones that   *)
(* are allocated; the rest is free.  An operation on more descriptors than *)
(* there are in that state fails and changes nothing.                      *)
(***************************************************************************)
EXTENDS Integers

CONSTANT BdCount   \* BD_COUNT, 128 in the code

ASSUME RingAssumption == BdCount \in Nat \ {0}

Ring == [head : 0 .. BdCount - 1, post : Nat, hw : Nat, done : Nat, pre : Nat]

\* A ring as the driver keeps it.
Consistent(r) == r \in Ring /\ r.done <= r.hw /\ r.post + r.hw + r.pre <= BdCount

NewRing == [head |-> 0, post |-> 0, hw |-> 0, done |-> 0, pre |-> 0]

Free(r) == BdCount - r.post - r.hw - r.pre

\* The descriptor n places after the head, and those where the segments begin.
Bd(r, n) == (r.head + n) % BdCount
PostBd(r) == Bd(r, 0)
NextDone(r) == Bd(r, r.post + r.done)
FreeBd(r) == Bd(r, r.post + r.hw + r.pre)

\* XAxiDma_BdRingAlloc, XAxiDma_BdRingUnAlloc, XAxiDma_BdRingToHw
Allocated(r, n) == IF n <= Free(r) THEN [r EXCEPT !.pre = @ + n] ELSE r
Unallocated(r, n) == IF n <= r.pre THEN [r EXCEPT !.pre = @ - n] ELSE r
Submitted(r, n) == IF n <= r.pre THEN [r EXCEPT !.pre = @ - n, !.hw = @ + n] ELSE r

\* The hardware is done with one more.
Completed(r) == [r EXCEPT !.done = @ + 1]

\* XAxiDma_BdRingFromHw with a limit: how many it gives, and the ring after it.
Returned(r, limit) == IF limit < r.done THEN limit ELSE r.done
Fetched(r, limit) ==
  [r EXCEPT !.post = @ + Returned(r, limit), !.hw = @ - Returned(r, limit),
            !.done = @ - Returned(r, limit)]

\* XAxiDma_BdRingFree
Freed(r, n) == IF n <= r.post THEN [r EXCEPT !.post = @ - n, !.head = (@ + n) % BdCount] ELSE r

=============================================================================
