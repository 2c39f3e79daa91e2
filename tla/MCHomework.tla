----------------------------- MODULE MCHomework -----------------------------
(***************************************************************************)
(* Packets for the protocol program: every header with every single entry, *)
(* and good headers with two entries.  One key that is no prefix.          *)
(***************************************************************************)
EXTENDS Homework

AnyEntry == [family : {0, 1, 2}, tag : {0, 1}, addr : {5}, mask : MaskNumber,
             nexthop : {3}, metric : {0, 1, Infinity, Infinity + 1}]

AnyHeader(es) ==
  {WirePacket(f, c, v, z, w, es) : f \in BOOLEAN, c \in {0, 1, 2, 3}, v \in {1, 2},
                                   z \in {0, 1}, w \in BOOLEAN}

MCWire ==
  UNION {AnyHeader(es) : es \in {<<>>} \cup {<<e>> : e \in AnyEntry}}
    \cup {WirePacket(TRUE, c, 2, 0, TRUE, <<d, e>>) :
            c \in {1, 2}, d \in {x \in AnyEntry : x.tag = 0 /\ x.family # 1},
            e \in {x \in AnyEntry : x.family # 1}}

MCForeign == {<<<<0, 1>>, 1>>}

=============================================================================
