------------------------------ MODULE Checksum ------------------------------
(***************************************************************************)
(* The checksum of an IP header on its way through a router: calChecksum   *)
(* in main.cpp makes it, validateIPChecksum in checksum.cpp looks at it,   *)
(* and forward in forwarding.cpp adapts it to the lower TTL without adding *)
(* the whole header up again.                                              *)
(*                                                                         *)
(* A byte is a number below Base (256 in the code), a header a function to *)
(* 16-bit words; which words hold the TTL and the checksum is a constant.  *)
(***************************************************************************)
EXTENDS Integers

CONSTANTS
  Base,       \* values of a byte
  NWords,     \* words of a header, 10 without options
  TtlWord,    \* the word with TTL (high byte) and protocol (low byte)
  SumWord     \* the word with the checksum

ASSUME ChecksumAssumption ==
  /\ Base \in Nat /\ Base >= 2
  /\ NWords \in Nat
  /\ TtlWord \in 1 .. NWords /\ SumWord \in 1 .. NWords /\ TtlWord # SumWord

Word == 0 .. Base * Base - 1
Header == [1 .. NWords -> Word]

High(w) == w \div Base
Low(w) == w % Base
Not(w) == Base * Base - 1 - w

\* n with what overflows m added at the low end until nothing does.
Folded(n, m) ==
  LET f[k \in Nat] == IF k < m THEN k ELSE f[(k \div m) + (k % m)] IN f[n]

Words(h) ==
  LET s[n \in 0 .. NWords] == IF n = 0 THEN 0 ELSE s[n - 1] + h[n] IN s[NWords]

\* calChecksum: the complement of the folded sum of the words.
calChecksum(h) == Not(Folded(Words(h), Base * Base))

calIpChksum(h) == [h EXCEPT ![SumWord] = calChecksum([h EXCEPT ![SumWord] = 0])]

validateIPChecksum_Bug(h) ==                              \* overflow dropped
  LET s[n \in 0 .. NWords] ==
        IF n = 0 THEN 0 ELSE (s[n - 1] + High(h[n]) + Low(h[n])) % Base
  IN s[NWords] = Base - 1

\* validateIPChecksum adds up single bytes.
validateIPChecksum(h) ==
  LET s[n \in 0 .. NWords] ==
        IF n = 0 THEN 0
        ELSE Folded(Folded(s[n - 1] + High(h[n]), Base) + Low(h[n]), Base)
  IN s[NWords] = Base - 1

Ttl(h) == High(h[TtlWord])

\* The checksum of forward, from the old checksum and the old and new TTL word.
Adapted_Bug(old, ttl, new) ==                             \* overflow dropped
  Not((Not(old) + Not(ttl) + new) % (Base * Base))

Adapted(old, ttl, new) == Not(Folded(Not(old) + Not(ttl) + new, Base * Base))

\* forward on a header that validateIPChecksum accepts.
Lowered(h) ==
  LET new == h[TtlWord] - Base IN
    [h EXCEPT ![TtlWord] = new, ![SumWord] = Adapted(h[SumWord], h[TtlWord], new)]

VARIABLES
  header,     \* the header as it is on the link
  made,       \* how the checksum came about: "calIpChksum", "forward", "damage"
  accepted    \* what validateIPChecksum says of the header

checksumVars == <<header, made, accepted>>

\* A router has made a packet and sent it.
ChecksumInit ==
  /\ \E h \in {x \in Header : x[SumWord] = 0 /\ \E n \in 1 .. NWords : x[n] # 0} :
       header = calIpChksum(h)
  /\ made = "calIpChksum"
  /\ accepted = validateIPChecksum(header)

\* The next router takes it and passes it on.
Forward ==
  /\ accepted
  /\ Ttl(header) > 1
  /\ header' = Lowered(header)
  /\ made' = IF made = "damage" THEN "damage" ELSE "forward"
  /\ accepted' = validateIPChecksum(header')

\* The checksum gets damaged on the link; nothing else does.
Damage ==
  /\ made # "damage"
  /\ \E w \in Word \ {header[SumWord]} : header' = [header EXCEPT ![SumWord] = w]
  /\ made' = "damage"
  /\ accepted' = validateIPChecksum(header')

ChecksumNext == Forward \/ Damage

\* The checksum of a header, as README.md of the homework defines it: right when
\* header and checksum add up to all ones.
Right(h) == Folded(Words(h), Base * Base) = Base * Base - 1

\* What forward makes of the checksum, however often, is what adding the header
\* up again would have made of it, including the two forms of zero.
ForwardExact ==
  made \in {"calIpChksum", "forward"} => header = calIpChksum(header)

\* No header with a right checksum is refused, although validateIPChecksum adds up
\* bytes.  (The converse does not hold: it also accepts the bytes of the checksum
\* in the wrong order.)
RightAccepted == Right(header) => accepted

=============================================================================
