------------------------------- MODULE Machine -------------------------------
(***************************************************************************)
(* Words, registers and instructions, as the instruction set and the       *)
(* processor of codes/cod both see them.  There are WordSize words instead *)
(* of 2^32; the fields that Decoder.v, ImmGen.v and thinpad_top.v cut out  *)
(* of an instruction are a function of the word, so that any word of       *)
(* memory is data and an instruction, too.                                 *)
(***************************************************************************)
EXTENDS Integers

CONSTANTS
  WordSize,    \* number of words
  Cells,       \* words of memory
  LastReg,     \* registers are 0 .. LastReg, and 0 is hardwired
  Decode,      \* the fields of each instruction word
  And(_, _),   \* bit by bit
  Or(_, _)

Word == 0 .. WordSize - 1
Reg  == 0 .. LastReg
Op   == {"R", "I", "S", "L", "B", "JALR", "JAL", "AUIPC", "LUI", "unknown"}

Instruction ==
  [op : Op, funct3 : {"ADD", "OR", "AND", "more"}, alter : BOOLEAN,
   rs1 : Reg, rs2 : Reg, rd : Reg, imm : [{"I", "S", "B"} -> Word]]

ASSUME MachineAssumption ==
  /\ WordSize \in Nat /\ WordSize > 4
  /\ Cells \in Nat \ {0}
  /\ LastReg \in Nat
  /\ Decode \in [Word -> Instruction]
  /\ \A a, b \in Word : And(a, b) \in Word /\ Or(a, b) \in Word

Add(a, b) == (a + b) % WordSize
Sub(a, b) == (a - b) % WordSize

\* The word of memory a byte address is in: the lowest two bits are not wired.
Cell(a) == (a \div 4) % Cells

=============================================================================
