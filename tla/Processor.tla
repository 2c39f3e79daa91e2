------------------------------ MODULE Processor ------------------------------
(***************************************************************************)
(* The processor, its memory controller and the SRAM together, on their    *)
(* two clocks, with a reset at any time.  Between two edges of the slow    *)
(* clock the controller has Ratio edges; both clocks come from one source. *)
(* The SRAM is written when write enable rises.                            *)
(***************************************************************************)
EXTENDS Cpu, MemController

CONSTANTS
  Ratio,       \* edges of the controller's clock for each edge of the CPU's
  MaxResets,   \* resets that may happen
  Images       \* contents the memory may start with

ASSUME ProcessorAssumption ==
  /\ Ratio \in Nat /\ Ratio >= 3
  /\ MaxResets \in Nat
  /\ Images \subseteq [0 .. Cells - 1 -> Word]

VARIABLES
  mem,      \* the words of the SRAM
  ticks,    \* edges of the controller's clock since the last edge of the CPU's
  resets    \* resets that have happened

vars == <<cpuVars, ctlVars, mem, ticks, resets>>

Init ==
  /\ CpuInit
  /\ CtlInit(0)
  /\ mem \in Images
  /\ ticks = 0
  /\ resets = 0

\* What may be read from the data lines.
baseIO ==
  CASE ~baseZ -> {baseData}
    [] baseZ /\ ~baseOeN -> {mem[Cell(baseA)]}
    [] OTHER -> Word

Sram ==
  IF ~baseWeN /\ baseWeN'
  THEN \E data \in baseIO : mem' = [mem EXCEPT ![Cell(baseA)] = data]
  ELSE UNCHANGED mem

Fast ==
  /\ ticks < Ratio
  /\ ticks' = ticks + 1
  /\ CtlEdge(Signals.memRd, Signals.memWr, rB, baseIO)
  /\ Sram
  /\ UNCHANGED <<cpuVars, resets>>

Slow ==
  /\ ticks = Ratio
  /\ ticks' = 0
  /\ CpuEdge(baseDOut)
  /\ UNCHANGED <<ctlVars, mem, resets>>

\* The reset is asynchronous and released at an edge of the slow clock.  When it cuts
\* a write short, the address changes while write enable rises.
Reset ==
  /\ resets < MaxResets
  /\ resets' = resets + 1
  /\ ticks' = 0
  /\ CpuReset
  /\ CtlReset
  /\ \/ UNCHANGED mem
     \/ /\ ~baseWeN
        /\ \E c \in {Cell(baseA), Cell(0)}, v \in Word : mem' = [mem EXCEPT ![c] = v]

Next == Fast \/ Slow \/ Reset

Spec == Init /\ [][Next]_vars

\* The clocks never stop.
FairSpec == Spec /\ WF_vars(Fast \/ Slow)

-----------------------------------------------------------------------------

TypeOK ==
  /\ CpuTypeOK
  /\ CtlTypeOK(Word)
  /\ mem \in [0 .. Cells - 1 -> Word]
  /\ ticks \in 0 .. Ratio
  /\ resets \in 0 .. MaxResets

\* The address of the instruction whose effect is still to come: the program counter
\* has moved on in IF2, and a store has its effect before its last stage.
stored == fields.op = "S" /\ (stage = "ME2" \/ (stage = "ME1" /\ state = "DONE"))
archPc == IF stage \in {"IF1", "IF2"} \/ stored THEN pc ELSE pcNow

\* What the controller is at when the CPU asks for a read, a write or nothing.
reading == stage = "IF1" \/ (stage = "ME1" /\ fields.op = "L")
writing == stage = "ME1" /\ fields.op = "S"

Handshake ==
  /\ baseWeN <=> state # "WR_2"
  /\ baseOeN <=> state # "RD_2"
  /\ state \in {"WR_1", "WR_2"} => ~baseZ /\ baseData = rB
  /\ state \in {"RD_1", "RD_2"} => baseZ
  /\ reading => /\ state = CASE ticks = 0 -> "IDLE" [] ticks = 1 -> "RD_1"
                             [] ticks = 2 -> "RD_2" [] OTHER -> "DONE"
                /\ ticks >= 3 => baseDOut = mem[Cell(baseA)]
  /\ writing => state = CASE ticks = 0 -> "IDLE" [] ticks = 1 -> "WR_1"
                            [] ticks = 2 -> "WR_2" [] OTHER -> "DONE"
  /\ ~reading /\ ~writing => state = "IDLE" \/ (state = "DONE" /\ ticks = 0)

\* What the registers between the stages hold.
Fetched ==
  /\ stage = "IF2" => rI = mem[Cell(pc)]
  /\ stage \in {"ID", "EXE", "ME1", "ME2", "WB"} =>
       /\ pc = Add(pcNow, 4)
       /\ ~stored => rI = mem[Cell(pcNow)]

Operands ==
  /\ stage \in {"EXE", "ME1", "ME2"} => rA = Regs[fields.rs1] /\ rB = Regs[fields.rs2]
  /\ stage = "EXE" => rC = Add(pcNow, fields.imm["B"])
  /\ stage \in {"ME1", "ME2"} =>
       /\ fields.op \in {"S", "L"}
       /\ rC = Add(Regs[fields.rs1], fields.imm[IF fields.op = "S" THEN "S" ELSE "I"])

Arch == INSTANCE Isa WITH pc <- archPc, regs <- Regs

Outcome ==
  /\ stage = "WB" =>
       /\ fields.op \in {"R", "I", "L", "JALR", "AUIPC", "LUI"}
       /\ fields.op \in {"R", "I"} =>
            rC \in Arch!Results(fields, Regs[fields.rs1],
                     IF fields.op = "R" THEN Regs[fields.rs2] ELSE fields.imm["I"])
       /\ fields.op = "L" => rD = mem[Cell(Add(Regs[fields.rs1], fields.imm["I"]))]
  /\ stage = "ME2" /\ fields.op = "L" => baseDOut = mem[Cell(rC)]

\* The inductive invariant: every stage finds what the stages before it have left, the
\* controller is where the clocks have taken it, and register 0 is 0.
IInv == TypeOK /\ Regs[0] = 0 /\ Handshake /\ Fetched /\ Operands /\ Outcome

\* The stages of one instruction, the handshake of the two clocks and the resets
\* together do what the instruction set says, once, and nothing in between.
ImplementsIsa == Arch!Spec

\* Address and data hold still from before write enable falls until after it has
\* risen, as the SRAM asks, unless a reset cuts in.
StrobeFramed ==
  [][(~baseWeN \/ ~baseWeN') /\ resets' = resets
       => baseA' = baseA /\ baseIO' = baseIO]_vars

\* Every instruction that was fetched ends: the machine comes back to fetch the next
\* one, or stands still at an unknown opcode.
InstructionEnds == stage = "ID" ~> stage \in {"IF1", "ERR"}

=============================================================================
