--------------------------------- MODULE Isa ---------------------------------
(***************************************************************************)
(* What a program on the processor sees: one step per instruction.  It is  *)
(* the part of RV32I that the decoder knows: addition, subtraction, and,   *)
(* or; words only; one kind of branch.  An operation the ALU does not have *)
(* leaves some word in its register.  The jumps, LUI and AUIPC are passed  *)
(* over, and an unknown opcode stops the machine for good.                 *)
(***************************************************************************)
EXTENDS Machine

CONSTANT Images   \* contents the memory may start with

VARIABLES
  pc,     \* address of the next instruction
  regs,   \* the registers
  mem     \* the memory, word by word

isaVars == <<pc, regs, mem>>

Init ==
  /\ pc = 0
  /\ regs = [r \in Reg |-> 0]
  /\ mem \in Images

inst == Decode[mem[Cell(pc)]]

\* Registers after v has been written to r: register 0 stays 0.
Written(r, v) == IF r = 0 THEN regs ELSE [regs EXCEPT ![r] = v]

\* What arithmetic instruction i may compute from a and b.
Results(i, a, b) ==
  CASE i.funct3 = "ADD" -> {IF i.op = "R" /\ i.alter THEN Sub(a, b) ELSE Add(a, b)}
    [] i.funct3 = "OR"  -> {Or(a, b)}
    [] i.funct3 = "AND" -> {And(a, b)}
    [] OTHER -> Word

Compute ==
  /\ inst.op \in {"R", "I"}
  /\ \E v \in Results(inst, regs[inst.rs1],
                      IF inst.op = "R" THEN regs[inst.rs2] ELSE inst.imm["I"]) :
       regs' = Written(inst.rd, v)
  /\ pc' = Add(pc, 4)
  /\ UNCHANGED mem

Load ==
  /\ inst.op = "L"
  /\ regs' = Written(inst.rd, mem[Cell(Add(regs[inst.rs1], inst.imm["I"]))])
  /\ pc' = Add(pc, 4)
  /\ UNCHANGED mem

target == Cell(Add(regs[inst.rs1], inst.imm["S"]))

Store ==
  /\ inst.op = "S"
  /\ mem' = [mem EXCEPT ![target] = regs[inst.rs2]]
  /\ pc' = Add(pc, 4)
  /\ UNCHANGED regs

Branch ==
  /\ inst.op = "B"
  /\ pc' = IF regs[inst.rs1] = regs[inst.rs2] THEN Add(pc, inst.imm["B"]) ELSE Add(pc, 4)
  /\ UNCHANGED <<regs, mem>>

PassOver ==
  /\ inst.op \in {"JAL", "JALR", "AUIPC", "LUI"}
  /\ pc' = Add(pc, 4)
  /\ UNCHANGED <<regs, mem>>

\* The reset button.  A store it interrupts may damage the word it writes or the
\* one at address 0, to which the address lines return.
Reset ==
  /\ pc' = 0
  /\ regs' = [r \in Reg |-> 0]
  /\ \/ mem' = mem
     \/ inst.op = "S" /\ \E c \in {target, Cell(0)}, v \in Word : mem' = [mem EXCEPT ![c] = v]

Next == Compute \/ Load \/ Store \/ Branch \/ PassOver \/ Reset

Spec == Init /\ [][Next]_isaVars

=============================================================================
