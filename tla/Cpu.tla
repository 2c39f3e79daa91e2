--------------------------------- MODULE Cpu ---------------------------------
(***************************************************************************)
(* The processor without its memory: the registers and multiplexers of     *)
(* thinpad_top.v and what surrounds them (Decoder.v, ALU.v, ImmGen.v,      *)
(* RegFile.v).  CpuEdge is an edge of the 10 MHz clock.  The signals are   *)
(* functions of the stage and of the instruction in rI; names say what a   *)
(* multiplexer selects where the code has numbers.                         *)
(***************************************************************************)
EXTENDS Machine

VARIABLES
  stage,            \* stage of the current instruction
  pc, pcNow,        \* next and current instruction's addresses
  rI,               \* the instruction
  rA, rB, rC, rD,   \* operands, ALU result, word from memory
  Regs              \* the register file

cpuVars == <<stage, pc, pcNow, rI, rA, rB, rC, rD, Regs>>

CpuTypeOK ==
  /\ stage \in {"IF1", "IF2", "ID", "EXE", "ME1", "ME2", "WB", "ERR"}
  /\ {pc, pcNow, rI, rA, rB, rC, rD} \subseteq Word
  /\ Regs \in [Reg -> Word]

CpuInit ==
  /\ stage = "IF1"
  /\ pc = 0 /\ pcNow = 0 /\ rI = 0 /\ rA = 0 /\ rB = 0 /\ rC = 0 /\ rD = 0
  /\ Regs = [r \in Reg |-> 0]

CpuReset ==
  /\ stage' = "IF1"
  /\ pc' = 0 /\ pcNow' = 0 /\ rI' = 0 /\ rA' = 0 /\ rB' = 0 /\ rC' = 0 /\ rD' = 0
  /\ Regs' = [r \in Reg |-> 0]

fields == Decode[rI]

\* Signals that do nothing.
Quiet ==
  [pcWr |-> "no", pcNowWr |-> FALSE, pcSel |-> "alu", memSel |-> "pc",
   memWr |-> FALSE, memRd |-> FALSE, irWr |-> FALSE, regDSel |-> "zero",
   regWr |-> FALSE, immSel |-> "N", aluASel |-> "zero", aluBSel |-> "zero",
   aluOp |-> "ADD", aluAlter |-> FALSE]

\* Signals of which the code leaves some open, so that the ALU may give any word.
Open == [Quiet EXCEPT !.aluOp = "X"]

\* The ALU adds an immediate to what sel selects.
AddImm(signals, sel, imm) ==
  [signals EXCEPT !.aluASel = sel, !.aluBSel = "imm", !.immSel = imm]

FetchSignals ==
  LET plus4 == [Quiet EXCEPT !.aluASel = "pc", !.aluBSel = "four"]
  IN  IF stage = "IF1" THEN [plus4 EXCEPT !.memRd = TRUE, !.irWr = TRUE]
      ELSE [plus4 EXCEPT !.pcWr = "yes", !.pcNowWr = TRUE]

ExeSignals ==
  CASE fields.op = "R" ->
         [Quiet EXCEPT !.aluASel = "rA", !.aluBSel = "rB",
                       !.aluOp = fields.funct3, !.aluAlter = fields.alter]
    [] fields.op = "I" -> [AddImm(Quiet, "rA", "I") EXCEPT !.aluOp = fields.funct3]
    [] fields.op = "L" -> AddImm(Quiet, "rA", "I")
    [] fields.op = "S" -> AddImm(Quiet, "rA", "S")
    [] fields.op = "B" ->
         [Quiet EXCEPT !.pcWr = "flagZ", !.pcSel = "rC", !.immSel = "B",
                       !.aluASel = "rA", !.aluBSel = "rB", !.aluAlter = TRUE]
    [] OTHER -> Open

\* A slip: a store leaves the address lines to the program counter.
MemSignals_Bug ==
  CASE fields.op = "S" -> AddImm([Quiet EXCEPT !.memWr = stage = "ME1"], "rA", "S")
    [] fields.op = "L" ->
         AddImm([Quiet EXCEPT !.memSel = "rC", !.memRd = stage = "ME1"], "rA", "I")
    [] OTHER -> Open

MemSignals ==
  CASE fields.op = "S" ->
         AddImm([Quiet EXCEPT !.memSel = "rC", !.memWr = stage = "ME1"], "rA", "S")
    [] fields.op = "L" ->
         AddImm([Quiet EXCEPT !.memSel = "rC", !.memRd = stage = "ME1"], "rA", "I")
    [] OTHER -> Open

WbSignals ==
  CASE fields.op \in {"R", "I"} -> [Quiet EXCEPT !.regDSel = "rC", !.regWr = TRUE]
    [] fields.op = "L" -> [Quiet EXCEPT !.regDSel = "rD", !.regWr = TRUE]
    [] OTHER -> Open

Signals ==
  CASE stage \in {"IF1", "IF2"} -> FetchSignals
    [] stage = "ID" -> AddImm(Quiet, "pcNow", "B")
    [] stage = "EXE" -> ExeSignals
    [] stage \in {"ME1", "ME2"} -> MemSignals
    [] stage = "WB" -> WbSignals
    [] OTHER -> Open

\* A slip: the stage stays where it is for what the decoder does not know.
stageAfterExe_Bug ==
  CASE fields.op \in {"R", "I", "JALR", "AUIPC", "LUI"} -> "WB"
    [] fields.op \in {"L", "S"} -> "ME1"
    [] fields.op \in {"B", "JAL"} -> "IF1"
    [] OTHER -> stage

stageAfterExe ==
  CASE fields.op \in {"R", "I", "JALR", "AUIPC", "LUI"} -> "WB"
    [] fields.op \in {"L", "S"} -> "ME1"
    [] fields.op \in {"B", "JAL"} -> "IF1"
    [] OTHER -> "ERR"

stageNext ==
  CASE stage = "IF1" -> "IF2"
    [] stage = "IF2" -> "ID"
    [] stage = "ID"  -> "EXE"
    [] stage = "EXE" -> stageAfterExe
    [] stage = "ME1" -> "ME2"
    [] stage = "ME2" ->
         (CASE fields.op = "S" -> "IF1" [] fields.op = "L" -> "WB" [] OTHER -> "ERR")
    [] stage = "WB"  -> "IF1"
    [] OTHER -> "ERR"

oprandA ==
  CASE Signals.aluASel = "pc" -> pc
    [] Signals.aluASel = "pcNow" -> pcNow
    [] Signals.aluASel = "rA" -> rA
    [] Signals.aluASel = "zero" -> 0

oprandB ==
  CASE Signals.aluBSel = "four" -> 4
    [] Signals.aluBSel = "rB" -> rB
    [] Signals.aluBSel = "imm" -> fields.imm[Signals.immSel]
    [] Signals.aluBSel = "zero" -> 0

\* What the ALU may give: one word, where the code does not leave it open.
aluResults ==
  CASE Signals.aluOp = "ADD" ->
         {IF Signals.aluAlter THEN Sub(oprandA, oprandB) ELSE Add(oprandA, oprandB)}
    [] Signals.aluOp = "OR"  -> {Or(oprandA, oprandB)}
    [] Signals.aluOp = "AND" -> {And(oprandA, oprandB)}
    [] Signals.aluOp = "X"   -> Word
    [] OTHER -> {WordSize - 1}

data2RF ==
  CASE Signals.regDSel = "rD" -> rD
    [] Signals.regDSel = "rC" -> rC
    [] Signals.regDSel = "zero" -> 0

\* The address on the lines of the memory.
baseA == IF Signals.memSel = "rC" THEN rC ELSE pc

\* A slip: register 0 is like any other.
RegFile_Bug ==
  Regs' = IF Signals.regWr THEN [Regs EXCEPT ![fields.rd] = data2RF] ELSE Regs

\* RegFile: register 0 is set to 0 again at every edge.
RegFile ==
  Regs' = [IF Signals.regWr THEN [Regs EXCEPT ![fields.rd] = data2RF] ELSE Regs
             EXCEPT ![0] = 0]

CpuEdge(dataFrRam) ==
  /\ stage' = stageNext
  /\ rA' = Regs[fields.rs1]
  /\ rB' = Regs[fields.rs2]
  /\ rD' = dataFrRam
  /\ \E aluResult \in aluResults :
       /\ rC' = aluResult
       /\ pc' = IF Signals.pcWr = "yes" \/ (Signals.pcWr = "flagZ" /\ aluResult = 0)
                THEN IF Signals.pcSel = "alu" THEN aluResult ELSE rC
                ELSE pc
  /\ pcNow' = IF Signals.pcNowWr THEN pc ELSE pcNow
  /\ rI' = IF Signals.irWr THEN dataFrRam ELSE rI
  /\ RegFile

=============================================================================
