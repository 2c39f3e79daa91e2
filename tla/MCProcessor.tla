----------------------------- MODULE MCProcessor -----------------------------
(***************************************************************************)
(* A processor with words of four bits, four words of memory and three     *)
(* registers, and an encoding in which each of its sixteen words is an     *)
(* instruction.                                                            *)
(***************************************************************************)
EXTENDS Processor

\* Words have four bits.
Bit(a, i) == (a \div 2 ^ i) % 2
MCAnd(a, b) == CHOOSE c \in 0 .. 15 : \A i \in 0 .. 3 : Bit(c, i) = 1 <=> Bit(a, i) = 1 /\ Bit(b, i) = 1
MCOr(a, b)  == CHOOSE c \in 0 .. 15 : \A i \in 0 .. 3 : Bit(c, i) = 1 <=> Bit(a, i) = 1 \/ Bit(b, i) = 1

\* The fields of an instruction.  The fields overlap in its word, so the immediates
\* of the other formats and the registers have values, too.
Fields(op, funct3, alter, rd, rs1, rs2, immI, immS, immB) ==
  [op |-> op, funct3 |-> funct3, alter |-> alter, rd |-> rd, rs1 |-> rs1, rs2 |-> rs2,
   imm |-> [I |-> immI, S |-> immS, B |-> immB]]

MCDecode == [w \in 0 .. 15 |->
  CASE w = 0  -> Fields("L", "more", FALSE, 1, 2, 1, 4, 1, 12)
    [] w = 1  -> Fields("I", "ADD", FALSE, 1, 1, 1, 1, 3, 6)
    [] w = 2  -> Fields("I", "ADD", TRUE, 2, 0, 2, 12, 2, 4)
    [] w = 3  -> Fields("R", "ADD", FALSE, 1, 1, 2, 2, 1, 8)
    [] w = 4  -> Fields("R", "ADD", TRUE, 2, 2, 1, 9, 2, 4)
    [] w = 5  -> Fields("R", "OR", TRUE, 1, 1, 2, 10, 1, 0)
    [] w = 6  -> Fields("I", "AND", FALSE, 2, 1, 0, 6, 2, 14)
    [] w = 7  -> Fields("S", "more", FALSE, 0, 2, 1, 5, 8, 2)
    [] w = 8  -> Fields("S", "more", FALSE, 1, 1, 2, 3, 12, 10)
    [] w = 9  -> Fields("B", "ADD", FALSE, 2, 1, 2, 2, 7, 8)
    [] w = 10 -> Fields("B", "more", FALSE, 1, 0, 0, 0, 5, 12)
    [] w = 11 -> Fields("L", "more", FALSE, 0, 1, 2, 0, 0, 8)
    [] w = 12 -> Fields("JAL", "ADD", FALSE, 1, 2, 0, 0, 1, 4)
    [] w = 13 -> Fields("LUI", "OR", FALSE, 2, 0, 1, 4, 2, 4)
    [] w = 14 -> Fields("R", "more", FALSE, 1, 1, 1, 1, 1, 0)
    [] w = 15 -> Fields("unknown", "AND", TRUE, 2, 2, 2, 15, 13, 10)]

\* Programs of four instructions with data among them.
MCImages ==
  {<<a, b, c, d>> : a \in {1, 2}, b \in {0, 4, 5, 8}, c \in {7, 9, 13}, d \in {11, 12}}
    \cup {<<3, 14, 2, 10>>, <<1, 6, 15, 15>>}

MCMemories == {[i \in 0 .. 3 |-> p[i + 1]] : p \in MCImages}

=============================================================================
