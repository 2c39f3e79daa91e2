--------------------------- MODULE ProcessorProofs ---------------------------
(***************************************************************************)
(* The processor and its memory controller implement the instruction set,  *)
(* for every size of words and memory, every encoding, every program and   *)
(* every ratio of the clocks from 3 on.                                    *)
(***************************************************************************)
EXTENDS Processor, TLAPS

-----------------------------------------------------------------------------
(* Words, signals and what the ALU gives.                                  *)

\* The instruction set is about the same machine.
LEMMA SameMachine ==
  /\ Arch!Word = Word /\ Arch!Reg = Reg
  /\ \A a, b : Arch!Add(a, b) = Add(a, b) /\ Arch!Sub(a, b) = Sub(a, b)
  /\ \A a : Arch!Cell(a) = Cell(a)
BY DEF Arch!Word, Word, Arch!Reg, Reg, Arch!Add, Add, Arch!Sub, Sub, Arch!Cell, Cell

LEMMA WordFacts ==
  /\ 0 \in Word /\ 4 \in Word /\ WordSize - 1 \in Word
  /\ \A a, b \in Word : Add(a, b) \in Word /\ Sub(a, b) \in Word
  /\ \A a, b \in Word : Sub(a, b) = 0 <=> a = b
<1>1. WordSize \in Nat /\ WordSize > 4
  BY MachineAssumption
<1>2. ASSUME NEW a \in Word, NEW b \in Word
      PROVE  Add(a, b) \in Word /\ Sub(a, b) \in Word
  <2>1. a \in Int /\ b \in Int
    BY <1>1 DEF Word
  <2>2. \A i \in Int : i % WordSize \in 0 .. WordSize - 1
    BY <1>1
  <2> QED
    BY <2>1, <2>2 DEF Add, Sub, Word
<1>3. ASSUME NEW a \in Word, NEW b \in Word
      PROVE  Sub(a, b) = 0 <=> a = b
  <2>1. a \in Int /\ b \in Int /\ - WordSize < a - b /\ a - b < WordSize
    BY <1>1 DEF Word
  <2>2. \A i \in Int : - WordSize < i /\ i < WordSize => (i % WordSize = 0 <=> i = 0)
    BY <1>1
  <2> QED
    BY <2>1, <2>2 DEF Sub
<1> QED
  BY <1>1, <1>2, <1>3 DEF Word

LEMMA CellFact == \A a \in Word : Cell(a) \in 0 .. Cells - 1
<1>1. \A i \in Int : i % Cells \in 0 .. Cells - 1
  BY MachineAssumption
<1>2. \A a \in Word : a \div 4 \in Int
  BY MachineAssumption DEF Word
<1> QED
  BY <1>1, <1>2 DEF Cell

LEMMA FieldFacts ==
  ASSUME rI \in Word
  PROVE  /\ fields.op \in Op
         /\ fields.rs1 \in Reg /\ fields.rs2 \in Reg /\ fields.rd \in Reg
         /\ \A f \in {"I", "S", "B"} : fields.imm[f] \in Word
  BY MachineAssumption DEF fields, Instruction

\* The signals that do not depend on the ALU.
LEMMA SignalFacts ==
  /\ Signals.memRd = reading
  /\ Signals.memWr = writing
  /\ Signals.memSel = IF stage \in {"ME1", "ME2"} /\ fields.op \in {"S", "L"} THEN "rC" ELSE "pc"
  /\ Signals.irWr = (stage = "IF1")
  /\ Signals.pcNowWr = (stage = "IF2")
  /\ Signals.regWr = (stage = "WB" /\ fields.op \in {"R", "I", "L"})
  /\ Signals.pcWr = IF stage = "IF2" THEN "yes"
                    ELSE IF stage = "EXE" /\ fields.op = "B" THEN "flagZ" ELSE "no"
  /\ stage = "IF2" => Signals.pcSel = "alu"
  /\ stage = "EXE" /\ fields.op = "B" => Signals.pcSel = "rC"
<1>1. CASE stage \in {"IF1", "IF2"}
  BY <1>1 DEF Signals, FetchSignals, Quiet, reading, writing
<1>2. CASE stage = "ID"
  BY <1>2 DEF Signals, AddImm, Quiet, reading, writing
<1>3. CASE stage = "EXE"
  BY <1>3 DEF Signals, ExeSignals, AddImm, Open, Quiet, reading, writing
<1>4. CASE stage \in {"ME1", "ME2"}
  BY <1>4 DEF Signals, MemSignals, AddImm, Open, Quiet, reading, writing
<1>5. CASE stage = "WB"
  BY <1>5 DEF Signals, WbSignals, Open, Quiet, reading, writing
<1>6. CASE stage \notin {"IF1", "IF2", "ID", "EXE", "ME1", "ME2", "WB"}
  BY <1>6 DEF Signals, Open, Quiet, reading, writing
<1> QED
  BY <1>1, <1>2, <1>3, <1>4, <1>5, <1>6

\* Whatever the ALU is given and does, the result is a word.
LEMMA AluType ==
  ASSUME TypeOK
  PROVE  aluResults \subseteq Word
<1>1. /\ pc \in Word /\ pcNow \in Word /\ rA \in Word /\ rB \in Word /\ rI \in Word
  BY DEF TypeOK, CpuTypeOK
<1> DEFINE A == {"pc", "pcNow", "rA", "zero"}
           B == {"four", "rB", "imm", "zero"}
<1>2. /\ Signals.aluASel \in A
      /\ Signals.aluBSel \in B
      /\ Signals.aluBSel = "imm" => Signals.immSel \in {"I", "S", "B"}
  <2>1. CASE stage \in {"IF1", "IF2"}
    BY <2>1 DEF Signals, FetchSignals, Quiet
  <2>2. CASE stage = "ID"
    BY <2>2 DEF Signals, AddImm, Quiet
  <2>3. CASE stage = "EXE"
    BY <2>3 DEF Signals, ExeSignals, AddImm, Open, Quiet
  <2>4. CASE stage \in {"ME1", "ME2"}
    BY <2>4 DEF Signals, MemSignals, AddImm, Open, Quiet
  <2>5. CASE stage = "WB"
    BY <2>5 DEF Signals, WbSignals, Open, Quiet
  <2>6. CASE stage \notin {"IF1", "IF2", "ID", "EXE", "ME1", "ME2", "WB"}
    BY <2>6 DEF Signals, Open, Quiet
  <2> QED
    BY <2>1, <2>2, <2>3, <2>4, <2>5, <2>6
<1>3. oprandA \in Word
  BY <1>1, <1>2, WordFacts DEF oprandA
<1>4. oprandB \in Word
  BY <1>1, <1>2, WordFacts, FieldFacts DEF oprandB
<1>5. And(oprandA, oprandB) \in Word /\ Or(oprandA, oprandB) \in Word
  BY <1>3, <1>4, MachineAssumption
<1>6. Add(oprandA, oprandB) \in Word /\ Sub(oprandA, oprandB) \in Word /\ WordSize - 1 \in Word
  BY <1>3, <1>4, WordFacts
<1> QED
  BY <1>5, <1>6 DEF aluResults

\* What the ALU computes in each stage.
LEMMA AluFacts ==
  /\ stage = "IF2" => aluResults = {Add(pc, 4)}
  /\ stage = "ID" => aluResults = {Add(pcNow, fields.imm["B"])}
  /\ stage = "EXE" /\ fields.op = "B" => aluResults = {Sub(rA, rB)}
  /\ stage \in {"EXE", "ME1", "ME2"} /\ fields.op = "L" => aluResults = {Add(rA, fields.imm["I"])}
  /\ stage \in {"EXE", "ME1", "ME2"} /\ fields.op = "S" => aluResults = {Add(rA, fields.imm["S"])}
<1>1. CASE stage = "IF2"
  BY <1>1 DEF Signals, FetchSignals, Quiet, oprandA, oprandB, aluResults
<1>2. CASE stage = "ID"
  BY <1>2 DEF Signals, AddImm, Quiet, oprandA, oprandB, aluResults
<1>3. CASE stage = "EXE"
  <2>1. CASE fields.op = "B"
    <3>1. Signals = [Quiet EXCEPT !.pcWr = "flagZ", !.pcSel = "rC", !.immSel = "B",
                       !.aluASel = "rA", !.aluBSel = "rB", !.aluAlter = TRUE]
      BY <1>3, <2>1 DEF Signals, ExeSignals
    <3> QED
      BY <1>3, <2>1, <3>1 DEF Quiet, oprandA, oprandB, aluResults
  <2>2. CASE fields.op = "L"
    <3>1. Signals = AddImm(Quiet, "rA", "I")
      BY <1>3, <2>2 DEF Signals, ExeSignals
    <3> QED
      BY <1>3, <2>2, <3>1 DEF AddImm, Quiet, oprandA, oprandB, aluResults
  <2>3. CASE fields.op = "S"
    <3>1. Signals = AddImm(Quiet, "rA", "S")
      BY <1>3, <2>3 DEF Signals, ExeSignals
    <3> QED
      BY <1>3, <2>3, <3>1 DEF AddImm, Quiet, oprandA, oprandB, aluResults
  <2> QED
    BY <1>3, <2>1, <2>2, <2>3
<1>4. CASE stage \in {"ME1", "ME2"}
  <2>1. CASE fields.op = "L"
    <3>1. Signals = AddImm([Quiet EXCEPT !.memSel = "rC", !.memRd = stage = "ME1"], "rA", "I")
      BY <1>4, <2>1 DEF Signals, MemSignals
    <3> QED
      BY <1>4, <2>1, <3>1 DEF AddImm, Quiet, oprandA, oprandB, aluResults
  <2>2. CASE fields.op = "S"
    <3>1. Signals = AddImm([Quiet EXCEPT !.memSel = "rC", !.memWr = stage = "ME1"], "rA", "S")
      BY <1>4, <2>2 DEF Signals, MemSignals
    <3> QED
      BY <1>4, <2>2, <3>1 DEF AddImm, Quiet, oprandA, oprandB, aluResults
  <2> QED
    BY <1>4, <2>1, <2>2
<1> QED
  BY <1>1, <1>2, <1>3, <1>4

\* For an arithmetic instruction it computes what the instruction set allows.
LEMMA AluComputes ==
  ASSUME stage = "EXE", fields.op \in {"R", "I"}
  PROVE  aluResults \subseteq Arch!Results(fields, rA, IF fields.op = "R" THEN rB ELSE fields.imm["I"])
<1>1. WordSize - 1 \in Word
  BY WordFacts
<1>2. CASE fields.op = "R"
  <2>1. Signals = [Quiet EXCEPT !.aluASel = "rA", !.aluBSel = "rB",
                     !.aluOp = fields.funct3, !.aluAlter = fields.alter]
    BY <1>2 DEF Signals, ExeSignals
  <2>2. /\ Signals.aluOp = fields.funct3 /\ Signals.aluAlter = fields.alter
        /\ Signals.aluASel = "rA" /\ Signals.aluBSel = "rB"
    BY <2>1 DEF Quiet
  <2>3. oprandA = rA /\ oprandB = rB
    BY <2>2 DEF oprandA, oprandB
  <2> QED
    BY <1>1, <1>2, <2>2, <2>3, SameMachine DEF aluResults, Arch!Results
<1>3. CASE fields.op = "I"
  <2>1. Signals = [AddImm(Quiet, "rA", "I") EXCEPT !.aluOp = fields.funct3]
    BY <1>3 DEF Signals, ExeSignals
  <2>2. /\ Signals.aluOp = fields.funct3 /\ Signals.aluAlter = FALSE /\ Signals.immSel = "I"
        /\ Signals.aluASel = "rA" /\ Signals.aluBSel = "imm"
    BY <2>1 DEF AddImm, Quiet
  <2>3. oprandA = rA /\ oprandB = fields.imm["I"]
    BY <2>2 DEF oprandA, oprandB
  <2> QED
    BY <1>1, <1>3, <2>2, <2>3, SameMachine DEF aluResults, Arch!Results
<1> QED
  BY <1>2, <1>3

-----------------------------------------------------------------------------
(* The inductive invariant.                                                *)

LEMMA IInvInit == Init => IInv
<1> SUFFICES ASSUME Init PROVE IInv
  OBVIOUS
<1>1. 0 \in Reg /\ 0 \in Word
  BY MachineAssumption, WordFacts DEF Reg
<1>2. TypeOK
  BY <1>1, ProcessorAssumption DEF Init, CpuInit, CtlInit, TypeOK, CpuTypeOK, CtlTypeOK
<1>3. Regs[0] = 0
  BY <1>1 DEF Init, CpuInit
<1>4. Handshake
  BY DEF Init, CpuInit, CtlInit, Handshake, reading, writing
<1>5. Fetched /\ Operands /\ Outcome
  BY DEF Init, CpuInit, Fetched, Operands, Outcome
<1> QED
  BY <1>2, <1>3, <1>4, <1>5 DEF IInv

\* The address lines depend on registers of the CPU only.
LEMMA SameAddress == UNCHANGED cpuVars => baseA' = baseA /\ reading' = reading /\ writing' = writing
<1> SUFFICES ASSUME UNCHANGED cpuVars PROVE baseA' = baseA /\ reading' = reading /\ writing' = writing
  OBVIOUS
<1>1. Signals.memSel' = Signals.memSel
  BY DEF cpuVars, fields, Signals, FetchSignals, ExeSignals, MemSignals, WbSignals, AddImm, Open, Quiet
<1> QED
  BY <1>1 DEF cpuVars, baseA, reading, writing, fields

\* A step of the controller that does not end a write.
LEMMA QuietStep ==
  ASSUME IInv, Fast, state # "WR_2"
  PROVE  IInv'
<1>1. /\ UNCHANGED cpuVars /\ resets' = resets
      /\ ticks \in Nat /\ ticks < Ratio /\ ticks' = ticks + 1
      /\ CtlEdge(reading, writing, rB, baseIO)
  BY SignalFacts, ProcessorAssumption DEF IInv, TypeOK, Fast
<1>2. UNCHANGED mem
  BY DEF Fast, Sram, IInv, Handshake
<1>3. baseA' = baseA /\ reading' = reading /\ writing' = writing /\ fields' = fields
  BY <1>1, SameAddress DEF cpuVars, fields
<1>4. baseA \in Word /\ Cell(baseA) \in 0 .. Cells - 1 /\ rB \in Word
  BY CellFact DEF baseA, IInv, TypeOK, CpuTypeOK
<1>5. CtlTypeOK(Word)'
  BY <1>1, <1>4 DEF IInv, TypeOK, CtlTypeOK, CtlEdge, StartRead, StartWrite, Read1, Read2,
     Write1, Write2, Done, ctlVars, baseIO
<1>6. TypeOK'
  BY <1>1, <1>2, <1>5, ProcessorAssumption DEF IInv, TypeOK, CpuTypeOK, cpuVars
<1>7. Handshake'
  <2> USE <1>1, <1>2, <1>3 DEF IInv, Handshake, cpuVars, ctlVars
  <2>1. CASE StartRead /\ reading
    BY <2>1 DEF StartRead, reading, writing
  <2>2. CASE StartWrite(rB) /\ writing
    BY <2>2 DEF StartWrite, reading, writing
  <2>3. CASE UNCHANGED ctlVars /\ ~reading /\ ~writing /\ state = "IDLE"
    BY <2>3
  <2>4. CASE Read1
    BY <2>4 DEF Read1, reading, writing
  <2>5. CASE Read2(baseIO)
    BY <2>5 DEF Read2, reading, writing, baseIO
  <2>6. CASE Write1
    BY <2>6 DEF Write1, reading, writing
  <2>7. CASE Done(reading \/ writing)
    BY <2>7 DEF Done
  <2> QED
    BY <2>1, <2>2, <2>3, <2>4, <2>5, <2>6, <2>7 DEF CtlEdge, Write2
<1>8. stored' <=> stored
  BY <1>1, <1>3 DEF IInv, Handshake, writing, reading, stored, cpuVars, CtlEdge, StartRead, StartWrite, Read1, Read2, Write1,
     Write2, Done, ctlVars
<1>9. Fetched'
  BY <1>1, <1>2, <1>3, <1>8 DEF IInv, Fetched, cpuVars
<1>10. Operands'
  BY <1>1, <1>3 DEF IInv, Operands, cpuVars
<1>11. Outcome'
  <2>1. stage = "ME2" => baseDOut' = baseDOut
    BY <1>1 DEF IInv, Handshake, reading, writing, CtlEdge, StartRead, StartWrite, Read1, Read2,
       Write1, Write2, Done, ctlVars
  <2> QED
    BY <1>1, <1>2, <1>3, <2>1 DEF IInv, Outcome, cpuVars, Arch!Results
<1> QED
  BY <1>1, <1>6, <1>7, <1>9, <1>10, <1>11 DEF IInv, cpuVars

\* The end of a write: the word is stored.
LEMMA WriteStep ==
  ASSUME IInv, Fast, state = "WR_2"
  PROVE  /\ IInv'
         /\ stage = "ME1" /\ fields.op = "S" /\ ~stored /\ stored'
         /\ UNCHANGED cpuVars
         /\ mem' = [mem EXCEPT ![Cell(rC)] = rB]
<1>1. /\ UNCHANGED cpuVars /\ resets' = resets
      /\ ticks \in Nat /\ ticks < Ratio /\ ticks' = ticks + 1
      /\ Write2
  BY ProcessorAssumption DEF IInv, TypeOK, Fast, CtlEdge, StartRead, StartWrite, Read1, Read2, Write1, Done
<1>2. writing /\ ~reading /\ ticks = 2
  BY <1>1 DEF IInv, Handshake, reading, writing
<1>3. stage = "ME1" /\ fields.op = "S" /\ fields' = fields
  BY <1>1, <1>2 DEF writing, fields, cpuVars
<1>4. baseA = rC /\ baseIO = {rB}
  BY <1>3, SignalFacts DEF baseA, baseIO, IInv, Handshake
<1>5. mem' = [mem EXCEPT ![Cell(rC)] = rB]
  BY <1>1, <1>4 DEF Fast, Sram, Write2, IInv, Handshake
<1>6. ~stored /\ stored'
  BY <1>1, <1>3 DEF stored, Write2, cpuVars
<1>7. TypeOK'
  <2>1. mem' \in [0 .. Cells - 1 -> Word]
    BY <1>5, CellFact DEF IInv, TypeOK, CpuTypeOK
  <2> QED
    BY <1>1, <2>1, ProcessorAssumption DEF IInv, TypeOK, CpuTypeOK, CtlTypeOK, Write2, cpuVars
<1>8. Handshake'
  BY <1>1, <1>2, <1>3 DEF IInv, Handshake, Write2, cpuVars, reading, writing
<1>9. Fetched' /\ Operands' /\ Outcome' /\ Regs'[0] = 0
  BY <1>1, <1>3, <1>6 DEF IInv, Fetched, Operands, Outcome, cpuVars
<1> QED
  BY <1>1, <1>3, <1>5, <1>6, <1>7, <1>8, <1>9 DEF IInv

LEMMA ResetInv == IInv /\ Reset => IInv'
<1> SUFFICES ASSUME IInv, Reset PROVE IInv'
  OBVIOUS
<1>1. 0 \in Reg /\ 0 \in Word
  BY MachineAssumption, WordFacts DEF Reg
<1>2. mem' \in [0 .. Cells - 1 -> Word]
  BY DEF Reset, IInv, TypeOK
<1>3. TypeOK'
  BY <1>1, <1>2, ProcessorAssumption
     DEF Reset, CpuReset, CtlReset, IInv, TypeOK, CpuTypeOK, CtlTypeOK
<1>4. Regs'[0] = 0
  BY <1>1 DEF Reset, CpuReset
<1>5. Handshake'
  BY DEF Reset, CpuReset, CtlReset, Handshake, reading, writing
<1>6. Fetched' /\ Operands' /\ Outcome'
  BY DEF Reset, CpuReset, Fetched, Operands, Outcome
<1> QED
  BY <1>3, <1>4, <1>5, <1>6 DEF IInv

\* What an edge of the slow clock does.
LEMMA SlowFacts ==
  ASSUME IInv, Slow
  PROVE  /\ UNCHANGED <<ctlVars, mem, resets>> /\ ticks' = 0
         /\ stage' = stageNext
         /\ rA' = Regs[fields.rs1] /\ rB' = Regs[fields.rs2] /\ rD' = baseDOut
         /\ rC' \in aluResults
         /\ pc' = IF stage = "IF2" \/ (stage = "EXE" /\ fields.op = "B" /\ rC' = 0)
                  THEN IF stage = "IF2" THEN rC' ELSE rC
                  ELSE pc
         /\ pcNow' = IF stage = "IF2" THEN pc ELSE pcNow
         /\ rI' = IF stage = "IF1" THEN baseDOut ELSE rI
         /\ stage # "WB" \/ fields.op \notin {"R", "I", "L"} => Regs' = Regs
         /\ stage = "WB" /\ fields.op \in {"R", "I", "L"} => Regs' = Arch!Written(fields.rd, data2RF)
         /\ reading \/ writing => state = "DONE"
         /\ ~reading /\ ~writing => state = "IDLE"
         /\ reading => baseDOut = mem[Cell(baseA)]
<1>1. /\ UNCHANGED <<ctlVars, mem, resets>> /\ ticks = Ratio /\ ticks' = 0
      /\ CpuEdge(baseDOut)
  BY DEF Slow
<1>2. Ratio \in Nat /\ Ratio >= 3
  BY ProcessorAssumption
<1>3. /\ reading \/ writing => state = "DONE"
      /\ ~reading /\ ~writing => state = "IDLE"
      /\ reading => baseDOut = mem[Cell(baseA)]
  BY <1>1, <1>2 DEF IInv, Handshake
<1>4. /\ stage' = stageNext
      /\ rA' = Regs[fields.rs1] /\ rB' = Regs[fields.rs2] /\ rD' = baseDOut
      /\ rC' \in aluResults
      /\ pcNow' = IF stage = "IF2" THEN pc ELSE pcNow
      /\ rI' = IF stage = "IF1" THEN baseDOut ELSE rI
  BY <1>1, SignalFacts DEF CpuEdge
<1>5. pc' = IF stage = "IF2" \/ (stage = "EXE" /\ fields.op = "B" /\ rC' = 0)
            THEN IF stage = "IF2" THEN rC' ELSE rC
            ELSE pc
  <2>1. pc' = IF Signals.pcWr = "yes" \/ (Signals.pcWr = "flagZ" /\ rC' = 0)
              THEN IF Signals.pcSel = "alu" THEN rC' ELSE rC
              ELSE pc
    BY <1>1 DEF CpuEdge
  <2> QED
    BY <2>1, SignalFacts
<1>6. /\ stage # "WB" \/ fields.op \notin {"R", "I", "L"} => Regs' = Regs
      /\ stage = "WB" /\ fields.op \in {"R", "I", "L"} => Regs' = Arch!Written(fields.rd, data2RF)
  <2>1. Regs' = [IF Signals.regWr THEN [Regs EXCEPT ![fields.rd] = data2RF] ELSE Regs EXCEPT ![0] = 0]
    BY <1>1 DEF CpuEdge, RegFile
  <2>2. Regs \in [Reg -> Word] /\ Regs[0] = 0
    BY DEF IInv, TypeOK, CpuTypeOK
  <2> QED
    BY <2>1, <2>2, SignalFacts DEF Arch!Written
<1> QED
  BY <1>1, <1>3, <1>4, <1>5, <1>6

\* What is written to the register file.
LEMMA WriteBackData ==
  /\ stage = "WB" /\ fields.op \in {"R", "I"} => data2RF = rC
  /\ stage = "WB" /\ fields.op = "L" => data2RF = rD
BY DEF data2RF, Signals, WbSignals, Quiet

LEMMA SlowInv == IInv /\ Slow => IInv'
<1> SUFFICES ASSUME IInv, Slow PROVE IInv'
  OBVIOUS
<1> USE SlowFacts
<1>1. /\ pc \in Word /\ pcNow \in Word /\ rI \in Word /\ rA \in Word /\ rB \in Word
      /\ rC \in Word /\ rD \in Word /\ Regs \in [Reg -> Word] /\ Regs[0] = 0 /\ baseDOut \in Word
  BY DEF IInv, TypeOK, CpuTypeOK, CtlTypeOK
<1>2. stage # "IF1" => fields' = fields
  BY DEF fields
<1>3. TypeOK'
  <2>1. rC' \in Word
    BY AluType DEF IInv
  <2>2. pc' \in Word /\ pcNow' \in Word /\ rI' \in Word /\ rA' \in Word /\ rB' \in Word /\ rD' \in Word
    BY <1>1, <2>1, FieldFacts
  <2>3. Regs' \in [Reg -> Word]
    BY <1>1, FieldFacts, WriteBackData DEF Arch!Written
  <2>4. stage' \in {"IF1", "IF2", "ID", "EXE", "ME1", "ME2", "WB", "ERR"}
    BY DEF stageNext, stageAfterExe
  <2>5. CtlTypeOK(Word)' /\ mem' \in [0 .. Cells - 1 -> Word] /\ ticks' \in 0 .. Ratio
        /\ resets' \in 0 .. MaxResets
    BY ProcessorAssumption DEF IInv, TypeOK, CtlTypeOK, ctlVars
  <2> QED
    BY <2>1, <2>2, <2>3, <2>4, <2>5 DEF TypeOK, CpuTypeOK
<1>4. Regs'[0] = 0
  <2>1. 0 \in Reg
    BY MachineAssumption DEF Reg
  <2> QED
    BY <1>1, <2>1 DEF Arch!Written
<1>5. Handshake'
  <2>1. reading' \/ writing' => ~reading /\ ~writing
    BY DEF reading, writing, stageNext, stageAfterExe
  <2>2. state' = state /\ baseZ' = baseZ /\ baseWeN' = baseWeN /\ baseOeN' = baseOeN
    BY DEF ctlVars
  <2> QED
    BY <2>1, <2>2 DEF IInv, Handshake
<1>6. Fetched'
  <2>1. CASE stage = "IF1"
    <3>1. baseDOut = mem[Cell(pc)]
      BY <2>1, SignalFacts DEF reading, baseA
    <3> QED
      BY <2>1, <3>1 DEF Fetched, stageNext
  <2>2. CASE stage = "IF2"
    BY <2>2, AluFacts DEF IInv, Fetched, stageNext
  <2>3. CASE stage \in {"ID", "EXE", "ME1", "ME2", "WB"}
    <3>1. stored => stored' \/ stage' = "IF1"
      BY <1>2, <2>3 DEF stored, stageNext, ctlVars
    <3>2. stage' \in {"EXE", "ME1", "ME2", "WB"} => pc' = pc /\ pcNow' = pcNow
      BY <2>3 DEF stageNext, stageAfterExe
    <3>3. stage' # "IF2" /\ stage' # "ID"
      BY <2>3 DEF stageNext, stageAfterExe
    <3> QED
      BY <2>3, <3>1, <3>2, <3>3 DEF IInv, Fetched
  <2>4. CASE stage \notin {"IF1", "IF2", "ID", "EXE", "ME1", "ME2", "WB"}
    BY <2>4 DEF Fetched, stageNext
  <2> QED
    BY <2>1, <2>2, <2>3, <2>4
<1>7. Operands'
  <2>1. stage' \in {"EXE", "ME1", "ME2"} => /\ stage \in {"ID", "EXE", "ME1"}
                                          /\ fields' = fields /\ Regs' = Regs /\ pcNow' = pcNow
    BY <1>2 DEF stageNext, stageAfterExe
  <2>2. stage' = "EXE" => stage = "ID"
    BY DEF stageNext, stageAfterExe
  <2>3. stage' \in {"ME1", "ME2"} => stage \in {"EXE", "ME1"} /\ fields.op \in {"S", "L"}
    BY DEF stageNext, stageAfterExe, IInv, Operands
  <2>4. stage' \in {"ME1", "ME2"} => rC' = Add(rA, fields.imm[IF fields.op = "S" THEN "S" ELSE "I"])
    BY <2>3, AluFacts
  <2>5. stage' = "EXE" => rC' = Add(pcNow, fields.imm["B"])
    BY <2>2, AluFacts
  <2>6. stage' \in {"ME1", "ME2"} => rA = Regs[fields.rs1]
    BY <2>3 DEF IInv, Operands
  <2> QED
    BY <2>1, <2>3, <2>4, <2>5, <2>6 DEF Operands
<1>8. Outcome'
  <2>1. CASE stage' = "WB"
    <3>1. /\ \/ stage = "EXE" /\ fields.op \in {"R", "I", "JALR", "AUIPC", "LUI"}
             \/ stage = "ME2" /\ fields.op = "L"
          /\ fields' = fields /\ Regs' = Regs
      BY <1>2, <2>1 DEF stageNext, stageAfterExe
    <3>2. fields.op \in {"R", "I"} =>
            rC' \in Arch!Results(fields, Regs[fields.rs1],
                     IF fields.op = "R" THEN Regs[fields.rs2] ELSE fields.imm["I"])
      BY <3>1, AluComputes DEF IInv, Operands
    <3>3. fields.op = "L" => rD' = mem[Cell(Add(Regs[fields.rs1], fields.imm["I"]))]
      BY <3>1 DEF IInv, Operands, Outcome
    <3> QED
      BY <2>1, <3>1, <3>2, <3>3 DEF Outcome, Arch!Results
  <2>2. CASE stage' = "ME2"
    <3>1. stage = "ME1" /\ fields' = fields
      BY <1>2, <2>2 DEF stageNext, stageAfterExe
    <3>2. fields.op = "L" => baseDOut = mem[Cell(rC)]
      BY <3>1, SignalFacts DEF reading, baseA
    <3>3. fields.op = "L" => rC' = rC
      BY <3>1, AluFacts DEF IInv, Operands
    <3> QED
      BY <2>2, <3>1, <3>2, <3>3 DEF Outcome, ctlVars
  <2>3. CASE stage' \notin {"ME2", "WB"}
    BY <2>3 DEF Outcome
  <2> QED
    BY <2>1, <2>2, <2>3
<1> QED
  BY <1>3, <1>4, <1>5, <1>6, <1>7, <1>8 DEF IInv

LEMMA IInvNext == IInv /\ [Next]_vars => IInv'
<1> SUFFICES ASSUME IInv, [Next]_vars PROVE IInv'
  OBVIOUS
<1>1. CASE Fast
  BY <1>1, QuietStep, WriteStep
<1>2. CASE Slow
  BY <1>2, SlowInv
<1>3. CASE Reset
  BY <1>3, ResetInv
<1>4. CASE UNCHANGED vars
  <2>1. /\ UNCHANGED <<cpuVars, ctlVars, mem, ticks, resets>>
        /\ baseA' = baseA /\ reading' = reading /\ writing' = writing
    BY <1>4, SameAddress DEF vars
  <2>2. fields' = fields /\ stored' = stored
    BY <2>1 DEF fields, stored, cpuVars, ctlVars
  <2>3. TypeOK' /\ Regs'[0] = 0
    BY <2>1 DEF IInv, TypeOK, CpuTypeOK, CtlTypeOK, cpuVars, ctlVars
  <2>4. Handshake' /\ Fetched'
    BY <2>1, <2>2 DEF IInv, Handshake, Fetched, cpuVars, ctlVars
  <2>5. Operands' /\ Outcome'
    BY <2>1, <2>2 DEF IInv, Operands, Outcome, Arch!Results, cpuVars, ctlVars
  <2> QED
    BY <2>3, <2>4, <2>5 DEF IInv
<1> QED
  BY <1>1, <1>2, <1>3, <1>4 DEF Next

\* Between any two edges of either clock, every stage finds what the stages before it
\* have left, and the controller is where the clocks have taken it.
THEOREM StagesFit == Spec => []IInv
  BY IInvInit, IInvNext, PTL DEF Spec

-----------------------------------------------------------------------------
(* The refinement.                                                         *)

LEMMA ArchInit == Init => Arch!Init
  BY SameMachine DEF Init, CpuInit, Arch!Init, archPc

\* A step of the controller is a stutter, or the store of the current instruction.
LEMMA ArchFast ==
  ASSUME IInv, Fast
  PROVE  Arch!Store \/ UNCHANGED <<archPc, Regs, mem>>
<1>1. CASE state = "WR_2"
  <2>1. /\ stage = "ME1" /\ fields.op = "S" /\ ~stored /\ stored'
        /\ UNCHANGED cpuVars
        /\ mem' = [mem EXCEPT ![Cell(rC)] = rB]
    BY <1>1, WriteStep
  <2>2. /\ archPc = pcNow /\ archPc' = pc /\ pc = Add(pcNow, 4) /\ rI = mem[Cell(pcNow)]
        /\ rB = Regs[fields.rs2] /\ rC = Add(Regs[fields.rs1], fields.imm["S"])
    BY <2>1 DEF archPc, cpuVars, IInv, Fetched, Operands
  <2>3. Arch!inst = fields
    BY <2>2, SameMachine DEF Arch!inst, fields
  <2> QED
    BY <2>1, <2>2, <2>3, SameMachine DEF Arch!Store, Arch!target, cpuVars
<1>2. CASE state # "WR_2"
  <2>1. UNCHANGED <<cpuVars, mem>>
    BY <1>2 DEF Fast, Sram, IInv, Handshake
  <2>2. stored' <=> stored
    BY <1>2, QuietStep, SignalFacts DEF Fast, IInv, Handshake, writing, reading, stored, fields, cpuVars,
       CtlEdge, StartRead, StartWrite, Read1, Read2, Write1, Write2, Done, ctlVars
  <2> QED
    BY <2>1, <2>2 DEF archPc, cpuVars
<1> QED
  BY <1>1, <1>2

\* An edge of the slow clock is a stutter, or the instruction that ends with it.
LEMMA ArchSlow ==
  ASSUME IInv, Slow
  PROVE  Arch!Next \/ UNCHANGED <<archPc, Regs, mem>>
<1> USE SlowFacts
<1>1. CASE stage \in {"IF1", "IF2", "ID", "ME1"}
  <2>1. stage = "ME1" => (stored <=> fields.op = "S") /\ stage' = "ME2" /\ fields' = fields
    BY DEF stored, writing, stageNext, fields
  <2>2. stage' = CASE stage = "IF1" -> "IF2" [] stage = "IF2" -> "ID" [] stage = "ID" -> "EXE"
                   [] stage = "ME1" -> "ME2"
    BY <1>1 DEF stageNext
  <2>3. archPc' = archPc
    BY <1>1, <2>1, <2>2 DEF archPc, stored
  <2> QED
    BY <1>1, <2>3
<1>2. CASE stage = "EXE"
  <2>1. /\ archPc = pcNow /\ Arch!inst = fields /\ pc = Add(pcNow, 4)
        /\ rA = Regs[fields.rs1] /\ rB = Regs[fields.rs2] /\ rC = Add(pcNow, fields.imm["B"])
        /\ Regs' = Regs /\ mem' = mem
    BY <1>2, SameMachine DEF archPc, stored, IInv, Fetched, Operands, Arch!inst, fields
  <2>2. CASE fields.op = "B"
    <3>1. stage' = "IF1" /\ archPc' = pc'
      BY <1>2, <2>2 DEF stageNext, stageAfterExe, archPc
    <3>2. rC' = 0 <=> Regs[fields.rs1] = Regs[fields.rs2]
      <4>1. Regs[fields.rs1] \in Word /\ Regs[fields.rs2] \in Word
        BY FieldFacts DEF IInv, TypeOK, CpuTypeOK
      <4> QED
        BY <1>2, <2>1, <2>2, <4>1, AluFacts, WordFacts
    <3> QED
      BY <1>2, <2>1, <2>2, <3>1, <3>2, SameMachine DEF Arch!Next, Arch!Branch
  <2>3. CASE fields.op = "JAL"
    BY <1>2, <2>1, <2>3, SameMachine DEF stageNext, stageAfterExe, archPc, Arch!Next, Arch!PassOver
  <2>4. CASE fields.op \notin {"B", "JAL"}
    <3>1. stage' \in {"ME1", "WB", "ERR"} /\ pc' = pc /\ pcNow' = pcNow
      BY <1>2, <2>4 DEF stageNext, stageAfterExe
    <3>2. ~stored'
      BY <1>2, <3>1 DEF stored, ctlVars, reading, writing
    <3> QED
      BY <2>1, <3>1, <3>2 DEF archPc
  <2> QED
    BY <2>2, <2>3, <2>4
<1>3. CASE stage = "ME2"
  <2>1. fields.op \in {"S", "L"} /\ pc' = pc /\ pcNow' = pcNow /\ Regs' = Regs /\ mem' = mem
    BY <1>3 DEF IInv, Operands
  <2>2. stage' = IF fields.op = "S" THEN "IF1" ELSE "WB"
    BY <1>3, <2>1 DEF stageNext
  <2> QED
    BY <1>3, <2>1, <2>2 DEF archPc, stored
<1>4. CASE stage = "WB"
  <2>1. /\ archPc = pcNow /\ Arch!inst = fields /\ pc = Add(pcNow, 4)
        /\ archPc' = pc /\ mem' = mem
    BY <1>4, SameMachine DEF archPc, stored, IInv, Fetched, Arch!inst, fields, stageNext
  <2>2. fields.op \in {"R", "I", "L", "JALR", "AUIPC", "LUI"}
    BY <1>4 DEF IInv, Outcome
  <2>3. CASE fields.op \in {"R", "I"}
    BY <1>4, <2>1, <2>3, SameMachine, WriteBackData DEF IInv, Outcome, Arch!Next, Arch!Compute
  <2>4. CASE fields.op = "L"
    BY <1>4, <2>1, <2>4, SameMachine, WriteBackData DEF IInv, Outcome, Arch!Next, Arch!Load
  <2>5. CASE fields.op \in {"JALR", "AUIPC", "LUI"}
    BY <1>4, <2>1, <2>5, SameMachine DEF Arch!Next, Arch!PassOver
  <2> QED
    BY <2>2, <2>3, <2>4, <2>5
<1>5. CASE stage \notin {"IF1", "IF2", "ID", "EXE", "ME1", "ME2", "WB"}
  <2>1. stage' = "ERR"
    BY <1>5 DEF stageNext
  <2> QED
    BY <1>5, <2>1 DEF archPc, stored
<1> QED
  BY <1>1, <1>2, <1>3, <1>4, <1>5

\* A reset is one to the program, too; only a write in progress may damage a word.
LEMMA ArchReset ==
  ASSUME IInv, Reset
  PROVE  Arch!Reset
<1>1. archPc' = 0 /\ Regs' = [r \in Reg |-> 0]
  BY DEF Reset, CpuReset, archPc
<1>2. ASSUME ~baseWeN
      PROVE  Arch!inst.op = "S" /\ Arch!target = Cell(baseA)
  <2>1. state = "WR_2"
    BY <1>2 DEF IInv, Handshake
  <2>2. stage = "ME1" /\ fields.op = "S"
    BY <2>1 DEF IInv, Handshake, reading, writing
  <2>3. ~stored /\ archPc = pcNow /\ rI = mem[Cell(pcNow)] /\ rC = Add(Regs[fields.rs1], fields.imm["S"])
    BY <2>1, <2>2 DEF stored, archPc, IInv, Fetched, Operands
  <2>4. Arch!inst = fields /\ baseA = rC
    BY <2>2, <2>3, SameMachine, SignalFacts DEF Arch!inst, fields, baseA
  <2> QED
    BY <2>2, <2>3, <2>4, SameMachine DEF Arch!target
<1> QED
  BY <1>1, <1>2, SameMachine DEF Reset, Arch!Reset

\* The stages of the processor and the handshake of its clocks do what the instruction
\* set says, once for each instruction, and nothing else, also across resets.
THEOREM Implementation == Spec => ImplementsIsa
<1>1. IInv /\ [Next]_vars => [Arch!Next]_<<archPc, Regs, mem>>
  <2> SUFFICES ASSUME IInv, [Next]_vars PROVE [Arch!Next]_<<archPc, Regs, mem>>
    OBVIOUS
  <2>1. CASE Fast
    BY <2>1, ArchFast DEF Arch!Next
  <2>2. CASE Slow
    BY <2>2, ArchSlow
  <2>3. CASE Reset
    BY <2>3, ArchReset DEF Arch!Next
  <2>4. CASE UNCHANGED vars
    BY <2>4 DEF vars, cpuVars, ctlVars, archPc, stored, fields
  <2> QED
    BY <2>1, <2>2, <2>3, <2>4 DEF Next
<1> QED
  BY ArchInit, StagesFit, <1>1, PTL DEF Spec, ImplementsIsa, Arch!Spec, Arch!isaVars

-----------------------------------------------------------------------------
(* The write strobe.                                                       *)

\* The SRAM sees one address and one word from before write enable falls until after it
\* has risen, for every ratio of the clocks from 3 on.
THEOREM StrobeHolds == Spec => StrobeFramed
<1> DEFINE Framed == (~baseWeN \/ ~baseWeN') /\ resets' = resets
                       => baseA' = baseA /\ baseIO' = baseIO
<1>1. IInv /\ [Next]_vars => [Framed]_vars
  <2> SUFFICES ASSUME IInv, [Next]_vars PROVE Framed \/ UNCHANGED vars
    OBVIOUS
  <2>1. CASE Fast
    <3> SUFFICES ASSUME ~baseWeN \/ ~baseWeN' PROVE Framed
      OBVIOUS
    <3>1. UNCHANGED cpuVars /\ (Write1 \/ Write2)
      BY <2>1 DEF Fast, CtlEdge, StartRead, StartWrite, Read1, Read2, Done, ctlVars, IInv, Handshake
    <3>2. ~baseZ /\ ~baseZ' /\ baseData' = baseData
      BY <3>1 DEF Write1, Write2, IInv, Handshake
    <3>3. baseIO = {baseData} /\ baseIO' = {baseData'}
      BY <3>2 DEF baseIO
    <3> QED
      BY <3>1, <3>2, <3>3, SameAddress
  <2>2. CASE Slow
    BY <2>2, SlowFacts DEF IInv, Handshake, ctlVars
  <2>3. CASE Reset
    BY <2>3, ProcessorAssumption DEF Reset, IInv, TypeOK
  <2> QED
    BY <2>1, <2>2, <2>3 DEF Next
<1> QED
  BY StagesFit, <1>1, PTL DEF Spec, StrobeFramed

=============================================================================
