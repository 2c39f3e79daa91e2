------------------------------ MODULE RipWire ------------------------------
(***************************************************************************)
(* The wire format of RIP (protocol.cpp): assemble writes a RipPacket,     *)
(* disassemble reads one from an IP packet and says whether it is legal.   *)
(*                                                                         *)
(* A packet on the wire keeps the fields disassemble looks at; a mask is a *)
(* number of MaskBits bits.  Entries that are read before a bad one stay   *)
(* in the RipPacket, but the packet as a whole is refused.                 *)
(***************************************************************************)
EXTENDS Integers, Sequences

CONSTANTS
  MaskBits,   \* bits of a mask, 32 in the code
  Infinity,   \* the largest metric, 16
  Wire        \* the packets that come in

VARIABLES
  packet,     \* the packet disassemble looks at
  reading,         \* "header", "entries", "accepted" or "refused"
  entries     \* rip->entries, numEntries of them

wireVars == <<packet, reading, entries>>

\* fits: Total Length is at most the length that was captured.  whole: Total Length
\* covers the RIP header, and the bytes behind it are a multiple of 20.  (A packet
\* that ends before its RIP header skips the loop and fails the last comparison.)
WirePacket(fits, command, version, zero, whole, es) ==
  [fits |-> fits, command |-> command, version |-> version, zero |-> zero,
   whole |-> whole, entries |-> es]

WireEntry(family, tag, addr, mask, nexthop, metric) ==
  [family |-> family, tag |-> tag, addr |-> addr, mask |-> mask,
   nexthop |-> nexthop, metric |-> metric]

\* 2 to the power of n.
Power[n \in 0 .. MaskBits] == IF n = 0 THEN 1 ELSE 2 * Power[n - 1]

\* The packets that can come in.
MaskNumber == 0 .. Power[MaskBits] - 1
IncomingEntry ==
  [family : Nat, tag : Nat, addr : Nat, mask : MaskNumber, nexthop : Nat, metric : Nat]
IncomingPacket ==
  [fits : BOOLEAN, command : Nat, version : Nat, zero : Nat, whole : BOOLEAN,
   entries : Seq(IncomingEntry)]

ASSUME WireAssumption ==
  MaskBits \in Nat \ {0} /\ Infinity \in Nat /\ Wire \subseteq IncomingPacket

\* What a RipPacket keeps of an entry.
RipEntry(e) == [addr |-> e.addr, mask |-> e.mask, nexthop |-> e.nexthop, metric |-> e.metric]

\* The address family that goes with a command.
Family(command) == IF command = 1 THEN 0 ELSE 2

-----------------------------------------------------------------------------
(* assemble *)

assemble_Bug(command, es) ==                                \* family 2 in requests
  WirePacket(TRUE, command, 2, 0, TRUE,
    [n \in DOMAIN es |->
       WireEntry(2, 0, es[n].addr, es[n].mask, es[n].nexthop, es[n].metric)])

assemble(command, es) ==
  WirePacket(TRUE, command, 2, 0, TRUE,
    [n \in DOMAIN es |->
       WireEntry(Family(command), 0, es[n].addr, es[n].mask, es[n].nexthop, es[n].metric)])

-----------------------------------------------------------------------------
(* disassemble *)

\* The mask without its leading ones, shifted out one by one.
Shifted(mask) ==
  LET s[m \in MaskNumber] ==
        IF m >= Power[MaskBits - 1] THEN s[(2 * m) % Power[MaskBits]] ELSE m
  IN s[mask]

HeaderOK(p) ==
  /\ p.fits
  /\ p.command \in {1, 2}
  /\ p.version = 2
  /\ p.zero = 0
  /\ p.whole

EntryOK(e, command) ==
  /\ e.family = Family(command) /\ e.tag = 0
  /\ e.metric >= 1 /\ e.metric <= Infinity
  /\ Shifted(e.mask) = 0

WireInit ==
  /\ packet \in Wire
  /\ reading = "header"
  /\ entries = <<>>

ReadHeader ==
  /\ reading = "header"
  /\ reading' = IF HeaderOK(packet) THEN "entries" ELSE "refused"
  /\ UNCHANGED <<packet, entries>>

\* One round of the loop: the next entry, or the end of the packet.
ReadEntry_Bug ==                                                \* refused only at once
  /\ reading = "entries"
  /\ LET n == Len(entries) + 1 IN
       IF n > Len(packet.entries)
         THEN reading' = "accepted" /\ UNCHANGED entries
       ELSE IF EntryOK(packet.entries[n], packet.command)
         THEN entries' = Append(entries, RipEntry(packet.entries[n])) /\ UNCHANGED reading
       ELSE reading' = (IF n = 1 THEN "refused" ELSE "accepted") /\ UNCHANGED entries
  /\ UNCHANGED packet

ReadEntry ==
  /\ reading = "entries"
  /\ LET n == Len(entries) + 1 IN
       IF n > Len(packet.entries)
         THEN reading' = "accepted" /\ UNCHANGED entries
       ELSE IF EntryOK(packet.entries[n], packet.command)
         THEN entries' = Append(entries, RipEntry(packet.entries[n])) /\ UNCHANGED reading
       ELSE reading' = "refused" /\ UNCHANGED entries
  /\ UNCHANGED packet

\* The driver of the homework writes out again what it has read; here the packet
\* it writes comes in once more.
Again ==
  /\ reading = "accepted"
  /\ packet' = assemble(packet.command, entries)
  /\ reading' = "header" /\ entries' = <<>>

WireNext == ReadHeader \/ ReadEntry \/ Again

-----------------------------------------------------------------------------
(* Properties *)

\* A mask is legal when it is ones followed by zeros.
Masks == {Power[MaskBits] - Power[n] : n \in 0 .. MaskBits}

\* The comment of disassemble says what is to be checked.
Legal(p) ==
  /\ p.fits /\ p.command \in {1, 2} /\ p.version = 2 /\ p.zero = 0 /\ p.whole
  /\ \A n \in DOMAIN p.entries :
       LET e == p.entries[n] IN
         /\ (p.command = 1 /\ e.family = 0) \/ (p.command = 2 /\ e.family = 2)
         /\ e.tag = 0 /\ e.metric \in 1 .. Infinity /\ e.mask \in Masks

\* disassemble accepts exactly the legal packets, and of those it reads all.
AcceptsLegal ==
  /\ reading = "accepted" =>
       /\ Legal(packet)
       /\ entries = [n \in DOMAIN packet.entries |-> RipEntry(packet.entries[n])]
  /\ reading = "refused" => ~Legal(packet)

\* The wire format of a packet can be restored from the fields a RipPacket keeps.
Restored == [][reading = "accepted" => packet' = packet]_wireVars

=============================================================================
