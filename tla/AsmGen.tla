------------------------------ MODULE AsmGen ------------------------------
(***************************************************************************)
(* What the assembly of AsmGen.java does on a RISC-V machine: one step per *)
(* instruction of the intermediate code.  Memory is a stretch of words,    *)
(* the globals at its bottom and the stack at its top; t1 and t2 live no   *)
(* longer than an instruction.  Addresses count words, so the shifts by    *)
(* two in the sums of pointers are gone.                                   *)
(***************************************************************************)
EXTENDS Visitor

CONSTANTS MemTop,       \* the first address behind the stack
          GlobalWords,  \* room for each global variable
          Reach,        \* words that the 12 bits of an immediate reach down, 512 in the code
          Garbage       \* what memory holds that nobody wrote

ASSUME ReachAssumption == Reach \in Nat

VARIABLES phase,        \* "compile", "run", "exit"; "refused" by the assembler or the linker
          pc, sp, fp, ra, a0, mem

machineVars == <<phase, pc, sp, fp, ra, a0, mem>>
-----------------------------------------------------------------------------
Get(a) == IF a \in DOMAIN mem THEN mem[a] ELSE Garbage
Set(m, a, v) == [m EXCEPT ![a] = v]

Find(op, name) == CHOOSE i \in DOMAIN ir : ir[i].op = op /\ ir[i].name = name
Label(name, n) == {i \in DOMAIN ir : ir[i].op = "label" /\ ir[i].name = name /\ ir[i].n = n}

\* Some order of the globals; the assembler and the linker lay them out.
Place == CHOOSE f \in [DOMAIN globDeclared -> 1..Cardinality(DOMAIN globDeclared)] :
            \A x, y \in DOMAIN f : f[x] = f[y] => x = y
Address(x) == (Place[x] - 1) * GlobalWords + 1

Image ==               \* .data and .comm
    [a \in 1..MemTop - 1 |->
        IF \E x \in DOMAIN globDeclared : a \in Address(x)..Address(x) + GlobalWords - 1
        THEN LET x == CHOOSE x \in DOMAIN globDeclared : a \in Address(x)..Address(x) + GlobalWords - 1
             IN  IF a = Address(x) /\ globDeclared[x].init # NoInit THEN globDeclared[x].init ELSE 0
        ELSE Garbage]

\* The label of the epilogue is made from the name of the function, and only labels with a dot are
\* out of reach of the names of a program.
EpilogueLabel(f) == f \o "_epilogue"

FrameSize(f) == 2 + funcFrameSize[f]

\* Whether an offset of w words fits lw, sw and addi.
Immediate(w) == w \in -Reach..Reach - 1

\* A call finds a function or, if there is none of that name, the epilogue of one.
Known(name) == name \in DOMAIN funcDefined \/ \E f \in DOMAIN funcDefined : name = EpilogueLabel(f)

\* The assembler wants every name once, every label of a jump and offsets in reach; the linker
\* every function that is called.
OwnLabels ==
    \A i \in DOMAIN ir :
        /\ ir[i].op \in {"br", "beqz", "bnez"} => Label(ir[i].name, ir[i].n) # {}
        /\ ir[i].op = "label" => Label(ir[i].name, ir[i].n) = {i}

NamesApart == \A f \in DOMAIN funcDefined : EpilogueLabel(f) \notin DOMAIN funcDefined \cup DOMAIN globDeclared

InReach ==
    /\ \A f \in DOMAIN funcDefined : Immediate(FrameSize(f))
    /\ \A i \in DOMAIN ir : /\ ir[i].op = "frameaddr" => Immediate(-3 - ir[i].n)
                            /\ ir[i].op = "call" => Immediate(ir[i].n)

CallsKnown == \A i \in DOMAIN ir : ir[i].op = "call" => Known(ir[i].name)

Links == OwnLabels /\ NamesApart /\ InReach /\ CallsKnown

Load_Program ==
    /\ phase = "compile" /\ todo = <<>> /\ ~failed
    /\ IF Links
       THEN /\ phase' = "run"
            /\ mem' = Image /\ sp' = MemTop /\ fp' = 0 /\ ra' = 0 /\ a0' = 0
            /\ pc' = Find("func", "main")
       ELSE phase' = "refused" /\ UNCHANGED <<mem, sp, fp, ra, a0, pc>>
-----------------------------------------------------------------------------
in == ir[pc]
Runs(ops) == phase = "run" /\ in.op \in ops
Next_Line == pc' = pc + 1 /\ UNCHANGED <<phase, fp, ra, a0>>

mPush(v) == sp' = sp - 1 /\ mem' = Set(mem, sp - 1, v)
Replace(v) == UNCHANGED sp /\ mem' = Set(mem, sp, v)               \* pop one, push one
ReplaceTwo(v) == sp' = sp + 1 /\ mem' = Set(mem, sp + 1, v)        \* pop two, push one

doPush == Runs({"push"}) /\ mPush(in.n) /\ Next_Line
doFrAddr == Runs({"frameaddr"}) /\ mPush(fp - 3 - in.n) /\ Next_Line
doGlAddr == Runs({"globaladdr"}) /\ mPush(Address(in.name)) /\ Next_Line
doLoad == Runs({"load"}) /\ Replace(Get(Get(sp))) /\ Next_Line
doPop == Runs({"pop"}) /\ sp' = sp + 1 /\ UNCHANGED mem /\ Next_Line
doStore == Runs({"store"}) /\ sp' = sp + 1 /\ mem' = Set(mem, Get(sp), Get(sp + 1)) /\ Next_Line
doLabel == Runs({"label"}) /\ UNCHANGED <<sp, mem>> /\ Next_Line

Truth(b) == IF b THEN 1 ELSE 0
Sign(a) == IF a < 0 THEN -1 ELSE 1
Quotient(a, b) == IF b = 0 THEN -1 ELSE Sign(a) * Sign(b) * ((Sign(a) * a) \div (Sign(b) * b))

Unary(op, a) ==
    CASE op = "notl" -> Truth(a = 0)
      [] op = "notb" -> -a - 1
      [] op = "neg" -> -a

Arith(op, a, b) ==
    CASE op = "orl" -> Truth(a # 0 \/ b # 0)
      [] op = "andl" -> Truth(a # 0 /\ b # 0)
      [] op = "eq" -> Truth(a = b)
      [] op = "neq" -> Truth(a # b)
      [] op = "lt" -> Truth(a < b)
      [] op = "gt" -> Truth(b < a)
      [] op = "le" -> 1 - Truth(b < a)
      [] op = "ge" -> 1 - Truth(a < b)
      [] op \in {"add", "addip", "addpi"} -> a + b
      [] op \in {"sub", "subpi", "subpp"} -> a - b
      [] op = "mul" -> a * b
      [] op = "div" -> Quotient(a, b)
      [] op = "rem" -> IF b = 0 THEN a ELSE a - b * Quotient(a, b)

doUnaryOp == Runs({"notl", "notb", "neg"}) /\ Replace(Unary(in.op, Get(sp))) /\ Next_Line
doBinaryOp ==
    /\ Runs(IntOps \cup AnyOps \cup {"addip", "addpi", "subpi", "subpp"})
    /\ ReplaceTwo(Arith(in.op, Get(sp + 1), Get(sp))) /\ Next_Line

Target == CHOOSE i \in Label(in.name, in.n) : TRUE

doJump == Runs({"br"}) /\ pc' = Target /\ UNCHANGED <<phase, sp, fp, ra, a0, mem>>

doBranch ==
    /\ Runs({"beqz", "bnez"})
    /\ pc' = IF (Get(sp) = 0) <=> (in.op = "beqz") THEN Target ELSE pc + 1
    /\ sp' = sp + 1
    /\ UNCHANGED <<phase, fp, ra, a0, mem>>
-----------------------------------------------------------------------------
(***************************************************************************)
(* Calls.  ra names the call instruction, whose last part runs after the   *)
(* function has returned; 0 is the caller of main.                         *)
(***************************************************************************)
doFunc ==
    /\ Runs({"func"})
    /\ LET size == FrameSize(in.name)
       IN  /\ sp' = sp - size /\ fp' = sp
           /\ mem' = Set(Set(mem, sp - 1, ra), sp - 2, fp)
    /\ pc' = pc + 1
    /\ UNCHANGED <<phase, ra, a0>>

\* From the label of the epilogue of f on, the value on top; then the rest of the call. Where ra is
\* no call of the program, the program is left.
Epilogue(f, m, s) ==
    LET bottom == s + 1
        caller == Get(bottom + FrameSize(f) - 1)
        top == bottom + FrameSize(f)
        v == IF s \in DOMAIN m THEN m[s] ELSE Garbage
    IN  /\ a0' = v
        /\ fp' = Get(bottom + FrameSize(f) - 2)
        /\ ra' = caller
        /\ IF caller \in DOMAIN ir /\ ir[caller].op = "call"
           THEN /\ sp' = top + ir[caller].n - 1
                /\ mem' = Set(m, top + ir[caller].n - 1, v)
                /\ pc' = caller + 1 /\ UNCHANGED phase
           ELSE sp' = top /\ mem' = m /\ phase' = "exit" /\ UNCHANGED pc

doCall ==
    /\ Runs({"call"})
    /\ IF in.name \in DOMAIN funcDefined
       THEN ra' = pc /\ pc' = Find("func", in.name) /\ UNCHANGED <<phase, sp, fp, a0, mem>>
       ELSE \E f \in DOMAIN funcDefined : in.name = EpilogueLabel(f) /\ Epilogue(f, mem, sp)

doRet == Runs({"ret"}) /\ Epilogue(in.of, mem, sp)
doEpilogue == Runs({"endfunc"}) /\ Epilogue(in.of, Set(mem, sp - 1, 0), sp - 1)

MachineInit ==
    /\ phase = "compile" /\ pc = 0 /\ sp = 0 /\ fp = 0 /\ ra = 0 /\ a0 = 0 /\ mem = <<>>

Execute ==
    \/ Load_Program \/ doPush \/ doFrAddr \/ doGlAddr \/ doLoad \/ doPop \/ doStore \/ doLabel
    \/ doUnaryOp \/ doBinaryOp \/ doJump \/ doBranch
    \/ doCall \/ doFunc \/ doRet \/ doEpilogue
=============================================================================
