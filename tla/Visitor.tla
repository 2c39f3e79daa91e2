------------------------------ MODULE Visitor ------------------------------
(***************************************************************************)
(* The compiler's one pass over the parse tree (MainVisitor.java): types,  *)
(* scopes, stack slots, labels and the intermediate code.                  *)
(*                                                                         *)
(* A node of the tree is a record [kind, name, n, refs, dims, params,      *)
(* kids]; a child that the grammar allows to be absent is NoNode.  The     *)
(* visitor methods call each other, so the Java stack is state: todo has   *)
(* a list of tasks for every open scope, innermost first, and one for      *)
(* visitProgram at the bottom.  Names, not letters; words, not bytes.      *)
(***************************************************************************)
EXTENDS Integers, Sequences, FiniteSets

CONSTANTS NoNode,
          MaxInt    \* Integer.MAX_VALUE

ASSUME MaxIntAssumption == MaxInt \in Nat

VARIABLES todo, types,                            \* tasks; the types visit() has returned
          symbolTable, marks, localCntr, frameCntr,
          labelCntr, loopCntr, loopStack,
          currentFunc, funcDeclared, funcDefined, funcFrameSize, globDeclared,
          ir, failed

slots == <<symbolTable, marks, localCntr, frameCntr>>   \* marks: localCntr where the scope began
labels == <<labelCntr, loopCntr, loopStack>>
decls == <<currentFunc, funcDeclared, funcDefined, funcFrameSize, globDeclared>>
visitorVars == <<todo, types, slots, labels, decls, ir, failed>>

Empty == [x \in {} |-> x]
Put(f, k, v) == [x \in DOMAIN f \cup {k} |-> IF x = k THEN v ELSE f[x]]
-----------------------------------------------------------------------------
(***************************************************************************)
(* Types.  sizes has the words of a value, of its elements, of their       *)
(* elements, down to an int or a pointer; lv is the value category.        *)
(***************************************************************************)
Scalar(refs, lv) == [refs |-> refs, sizes |-> <<1>>, lv |-> lv]
IntType == Scalar(0, FALSE)
LValue(t) == [t EXCEPT !.lv = TRUE]
RValue(t) == [t EXCEPT !.lv = FALSE]
\* The type of an array is built from its last dimension to its first.
Proper(dims) == \A i \in DOMAIN dims : dims[i] \in 1..MaxInt
ArrayType(t, x) == [refs |-> t.refs, sizes |-> <<x * Head(t.sizes)>> \o t.sizes, lv |-> FALSE]
baseType(t) == [refs |-> t.refs, sizes |-> Tail(t.sizes), lv |-> Len(t.sizes) = 2]

Dimensions(t, dims) ==
    LET n == Len(dims)
        type[i \in 0..n] == IF i = 0 THEN t ELSE ArrayType(type[i - 1], dims[n + 1 - i])
    IN  type[n]
Fits(t) == Head(t.sizes) \in 1..MaxInt      \* no array is so large that its size overflows

IsArray(t) == Len(t.sizes) > 1
IsPointer(t) == t.refs > 0 /\ ~IsArray(t)
IsInt(t) == t.refs = 0 /\ ~IsArray(t)
Same(t, u) == t.refs = u.refs /\ t.sizes = u.sizes
Func(f) == [ret |-> Scalar(f.refs, FALSE),
            params |-> [i \in DOMAIN f.params |-> Scalar(f.params[i].refs, FALSE)]]
-----------------------------------------------------------------------------
(***************************************************************************)
(* Tasks: visit a child, finish a method, append an instruction.           *)
(***************************************************************************)
Ins(op, name, n) == [op |-> op, name |-> name, n |-> n, of |-> currentFunc]
Task(do, n, name, k) == [do |-> do, node |-> n, name |-> name, n |-> k]

V(child) == Task("visit", child, "", 0)
T(do) == Task(do, NoNode, "", 0)
After(do, n, k) == Task(do, n, "", k)               \* the rest of the method of n
E(op, name, k) == Task(op, NoNode, name, k)         \* append an instruction
Test(op, name, k) == Task(op, NoNode, name, k)      \* typeCheck to int, then append a branch

now == Head(Head(todo))
node == now.node
At(do) == ~failed /\ Len(todo) > 1 /\ Head(todo) # <<>> /\ now.do = do
Visiting(kind) == At("visit") /\ node.kind = kind
TopLevel(kind) == ~failed /\ Len(todo) = 1 /\ Head(todo) # <<>> /\ node.kind = kind

Kid(i) == IF i \in DOMAIN node.kids THEN node.kids[i] ELSE NoNode
Items == [i \in DOMAIN node.kids |-> V(node.kids[i])]
Maybe(child, ts) == IF child = NoNode THEN <<>> ELSE ts

Rest == Tail(Head(todo))
Do(ts) == todo' = <<ts \o Rest>> \o Tail(todo) /\ UNCHANGED failed
Emit(is) == ir' = ir \o is
reportError == failed' = TRUE /\ UNCHANGED <<todo, types, slots, labels, decls, ir>>

\* The last value types first: visit() returned type Top, and before it Second.
Top == Head(types)
Second == Head(Tail(types))
Returned(t, k) == types' = <<t>> \o SubSeq(types, k + 1, Len(types))    \* k types are used up
Dropped(k) == types' = SubSeq(types, k + 1, Len(types))
-----------------------------------------------------------------------------
(***************************************************************************)
(* Expressions.                                                            *)
(***************************************************************************)
Expression == UNCHANGED <<slots, labels, decls>>

visitPrimIntLit ==
    /\ Visiting("int")
    /\ IF node.n > MaxInt
       THEN reportError
       ELSE Do(<<>>) /\ Emit(<<Ins("push", "", node.n)>>) /\ Returned(IntType, 0) /\ Expression

\* (A mistake to find: the outermost scope.)
lookup_Bug(name) == {j \in DOMAIN symbolTable : /\ name \in DOMAIN symbolTable[j]
                                                /\ \A k \in DOMAIN symbolTable : k > j => name \notin DOMAIN symbolTable[k]}

\* The innermost scope that knows the name, if there is one.
lookup(name) == {j \in DOMAIN symbolTable : /\ name \in DOMAIN symbolTable[j]
                                            /\ \A k \in 1..j - 1 : name \notin DOMAIN symbolTable[k]}

visitPrimIdent ==
    /\ Visiting("ident")
    /\ \/ \E j \in lookup(node.name) :
             LET symbol == symbolTable[j][node.name]
             IN  /\ Emit(<<Ins("frameaddr", "", symbol.offset)>>) /\ Returned(symbol.type, 0)
                 /\ Do(<<>>) /\ Expression
       \/ /\ lookup(node.name) = {} /\ node.name \in DOMAIN globDeclared
          /\ Emit(<<Ins("globaladdr", node.name, 0)>>) /\ Returned(globDeclared[node.name].type, 0)
          /\ Do(<<>>) /\ Expression
       \/ lookup(node.name) = {} /\ node.name \notin DOMAIN globDeclared /\ reportError

Load(t) == IF t.lv THEN <<Ins("load", "", 0)>> ELSE <<>>

castToRValue ==
    At("rvalue") /\ Do(<<>>) /\ Emit(Load(Top)) /\ Returned(RValue(Top), 1) /\ Expression

typeCheckInt ==
    /\ At("int")
    /\ IF IsInt(Top) THEN Do(<<>>) /\ Emit(Load(Top)) /\ Returned(IntType, 1) /\ Expression
                     ELSE reportError

visitExprAssign ==     \* the value comes first on the stack, then the address
    /\ Visiting("assign")
    /\ Do(<<V(Kid(2)), T("rvalue"), V(Kid(1)), T("assign")>>)
    /\ UNCHANGED <<types, ir>> /\ Expression

Assigned ==
    /\ At("assign")
    /\ IF Top.lv /\ Same(Top, Second)
       THEN Do(<<>>) /\ Emit(<<Ins("store", "", 0)>>) /\ Returned(RValue(Top), 2) /\ Expression
       ELSE reportError

visitExprTernary ==
    /\ Visiting("ternary")
    /\ labelCntr' = labelCntr + 1
    /\ Do(<<V(Kid(1)), Test("beqz", ".elseter", labelCntr'), V(Kid(2)), T("rvalue"),
            E("br", ".endter", labelCntr'), E("label", ".elseter", labelCntr'),
            V(Kid(3)), T("rvalue"), E("label", ".endter", labelCntr'), T("ternary")>>)
    /\ UNCHANGED <<types, ir, slots, loopCntr, loopStack, decls>>

TernaryEnd ==
    /\ At("ternary")
    /\ IF Same(Top, Second)
       THEN Do(<<>>) /\ Returned(Second, 2) /\ UNCHANGED ir /\ Expression
       ELSE reportError

IntOps == {"orl", "andl", "lt", "gt", "le", "ge", "mul", "div", "rem"}
AnyOps == {"eq", "neq", "add", "sub"}

visitBinary ==         \* visitExprOr, ...And, ...Equal, ...Relation, ...Add, ...Multiply
    /\ Visiting("binary")
    /\ LET check == T(IF node.name \in IntOps THEN "int" ELSE "rvalue")
       IN  Do(<<V(Kid(1)), check, V(Kid(2)), check, After("binary", node, 0)>>)
    /\ UNCHANGED <<types, ir>> /\ Expression

\* What a sum or difference of l and r appends and returns.
Sums(op, l, r) ==
    {s \in {[op |-> op, type |-> IntType], [op |-> "addip", type |-> r], [op |-> "addpi", type |-> l],
            [op |-> "subpi", type |-> l], [op |-> "subpp", type |-> IntType]} :
        \/ s.op \in {"add", "sub"} /\ IsInt(l) /\ IsInt(r)
        \/ s.op = "addip" /\ op = "add" /\ IsInt(l) /\ IsPointer(r)
        \/ s.op = "addpi" /\ op = "add" /\ IsPointer(l) /\ IsInt(r)
        \/ s.op = "subpi" /\ op = "sub" /\ IsPointer(l) /\ IsInt(r)
        \/ s.op = "subpp" /\ op = "sub" /\ IsPointer(l) /\ Same(l, r)}

Results(op, l, r) ==
    CASE op \in IntOps -> {[op |-> op, type |-> IntType]}
      [] op \in {"eq", "neq"} -> {s \in {[op |-> op, type |-> IntType]} : Same(l, r) /\ ~IsArray(l)}
      [] OTHER -> Sums(op, l, r)

Binary ==
    /\ At("binary")
    /\ \/ \E s \in Results(node.name, Second, Top) :
             Do(<<>>) /\ Emit(<<Ins(s.op, "", 0)>>) /\ Returned(s.type, 2) /\ Expression
       \/ Results(node.name, Second, Top) = {} /\ reportError

visitUnaryOp ==
    /\ Visiting("unary")
    /\ Do(<<V(Kid(1)), T("int"), E(node.name, "", 0)>>)
    /\ UNCHANGED <<types, ir>> /\ Expression

visitUnaryAddr ==
    /\ Visiting("deref") \/ Visiting("ref")
    /\ Do(IF node.kind = "deref" THEN <<V(Kid(1)), T("rvalue"), T("deref")>>
                                 ELSE <<V(Kid(1)), T("ref")>>)
    /\ UNCHANGED <<types, ir>> /\ Expression

Deref ==
    /\ At("deref")
    /\ IF IsPointer(Top) THEN Do(<<>>) /\ Returned(Scalar(Top.refs - 1, TRUE), 1) /\ UNCHANGED ir /\ Expression
                         ELSE reportError

Ref ==
    /\ At("ref")
    /\ IF Top.lv THEN Do(<<>>) /\ Returned(Scalar(Top.refs + 1, FALSE), 1) /\ UNCHANGED ir /\ Expression
                 ELSE reportError

visitUnaryCast ==
    /\ Visiting("cast")
    /\ Do(<<V(Kid(1)), After("cast", node, 0)>>)
    /\ UNCHANGED <<types, ir>> /\ Expression

Cast == At("cast") /\ Do(<<>>) /\ Returned(Scalar(node.refs, Top.lv), 1) /\ UNCHANGED ir /\ Expression

visitPfixFCall ==      \* the arguments from the last to the first
    /\ Visiting("call")
    /\ LET n == Len(node.kids)
       IN  IF node.name \in DOMAIN funcDeclared /\ Len(funcDeclared[node.name].params) = n
           THEN /\ Do([i \in 1..2 * n |-> LET k == n - (i - 1) \div 2
                                          IN  IF i % 2 = 1 THEN V(node.kids[k]) ELSE After("arg", node, k)]
                      \o <<After("call", node, 0)>>)
                /\ UNCHANGED <<types, ir>> /\ Expression
           ELSE reportError

Argument ==
    /\ At("arg")
    /\ IF Same(Top, funcDeclared[node.name].params[now.n])
       THEN Do(<<>>) /\ Emit(Load(Top)) /\ Dropped(1) /\ Expression
       ELSE reportError

Call ==
    /\ At("call")
    /\ LET func == funcDeclared[node.name]
       IN  Emit(<<Ins("call", node.name, Len(func.params))>>) /\ Returned(func.ret, 0)
    /\ Do(<<>>) /\ Expression

visitPfixSubscri ==
    /\ Visiting("index")
    /\ Do(<<V(Kid(1)), T("rvalue"), V(Kid(2)), T("int"), T("index")>>)
    /\ UNCHANGED <<types, ir>> /\ Expression

Subscript ==
    /\ At("index")
    /\ \/ /\ IsPointer(Second)
          /\ Emit(<<Ins("addpi", "", 0)>>) /\ Returned(Scalar(Second.refs - 1, TRUE), 2)
          /\ Do(<<>>) /\ Expression
       \/ /\ IsArray(Second)
          /\ Emit(<<Ins("push", "", Head(baseType(Second).sizes)), Ins("mul", "", 0), Ins("addpi", "", 0)>>)
          /\ Returned(baseType(Second), 2)
          /\ Do(<<>>) /\ Expression
       \/ IsInt(Second) /\ reportError
-----------------------------------------------------------------------------
(***************************************************************************)
(* Statements.                                                             *)
(***************************************************************************)
Plain == {"label", "br", "notl", "notb", "neg"}

Appended ==
    \E op \in Plain :
        At(op) /\ Emit(<<Ins(op, now.name, now.n)>>) /\ Do(<<>>) /\ UNCHANGED types /\ Expression

Tested ==
    \E op \in {"beqz", "bnez"} :
        /\ At(op)
        /\ IF IsInt(Top)
           THEN /\ Emit(Load(Top) \o <<Ins(op, now.name, now.n)>>)
                /\ Do(<<>>) /\ Dropped(1) /\ Expression
           ELSE reportError

DroppedValue == At("drop") /\ Emit(<<Ins("pop", "", 0)>>) /\ Do(<<>>) /\ Dropped(1) /\ Expression

visitStmtRet ==
    /\ Visiting("return")
    /\ Do(<<V(Kid(1)), T("rvalue"), T("return")>>)
    /\ UNCHANGED <<types, ir>> /\ Expression

Return ==
    /\ At("return")
    /\ IF Same(Top, funcDefined[currentFunc].ret)
       THEN Do(<<>>) /\ Emit(<<Ins("ret", "", 0)>>) /\ Dropped(1) /\ Expression
       ELSE reportError

visitStmtExpr ==
    /\ Visiting("expr")
    /\ Do(Maybe(Kid(1), <<V(Kid(1)), T("drop")>>))
    /\ UNCHANGED <<types, ir>> /\ Expression

\* (A mistake to find: an if takes no number of its own.)
visitStmtIf_Bug ==
    /\ Visiting("if")
    /\ Do(<<V(Kid(1)), T("int"), After("if", node, 0)>>)
    /\ UNCHANGED <<types, ir, slots, labels, decls>>

visitStmtIf ==
    /\ Visiting("if")
    /\ labelCntr' = labelCntr + 1
    /\ Do(<<V(Kid(1)), T("int"), After("if", node, 0)>>)
    /\ UNCHANGED <<types, ir, slots, loopCntr, loopStack, decls>>

Branches ==            \* the condition may have raised labelCntr: its last value names the labels
    /\ At("if")
    /\ Emit(<<Ins("beqz", IF Kid(3) # NoNode THEN ".elseif" ELSE ".endif", labelCntr)>>)
    /\ Do(<<V(Kid(2))>>
          \o Maybe(Kid(3), <<E("br", ".endif", labelCntr), E("label", ".elseif", labelCntr), V(Kid(3))>>)
          \o <<E("label", ".endif", labelCntr)>>)
    /\ Dropped(1) /\ Expression

Body(child, no) ==     \* the statement of a loop, between push and pop of loopStack
    <<After("enter", NoNode, no), V(child), After("leave", NoNode, no), E("label", ".continue_loop", no)>>

LoopStack ==
    /\ \/ At("enter") /\ loopStack' = <<now.n>> \o loopStack
       \/ At("leave") /\ loopStack' = Tail(loopStack)
    /\ Do(<<>>)
    /\ UNCHANGED <<types, ir, slots, labelCntr, loopCntr, decls>>

visitStmtWhile ==
    /\ Visiting("while")
    /\ loopCntr' = loopCntr + 1
    /\ Do(<<E("label", ".begin_loop", loopCntr), V(Kid(1)), Test("beqz", ".break_loop", loopCntr)>>
          \o Body(Kid(2), loopCntr)
          \o <<E("br", ".begin_loop", loopCntr), E("label", ".break_loop", loopCntr)>>)
    /\ UNCHANGED <<types, ir, slots, labelCntr, loopStack, decls>>

\* (A mistake to find: continue starts the statement again, without the condition.)
visitStmtDo_Bug ==
    /\ Visiting("do")
    /\ loopCntr' = loopCntr + 1
    /\ Do(<<E("label", ".begin_loop", loopCntr), E("label", ".continue_loop", loopCntr),
            After("enter", NoNode, loopCntr), V(Kid(1)), T("leave"),
            V(Kid(2)), Test("bnez", ".begin_loop", loopCntr), E("label", ".break_loop", loopCntr)>>)
    /\ UNCHANGED <<types, ir, slots, labelCntr, loopStack, decls>>

visitStmtDo ==
    /\ Visiting("do")
    /\ loopCntr' = loopCntr + 1
    /\ Do(<<E("label", ".begin_loop", loopCntr)>>
          \o Body(Kid(1), loopCntr)
          \o <<V(Kid(2)), Test("bnez", ".begin_loop", loopCntr), E("label", ".break_loop", loopCntr)>>)
    /\ UNCHANGED <<types, ir, slots, labelCntr, loopStack, decls>>

visitStmtJump ==       \* visitStmtBreak, visitStmtConti
    /\ Visiting("break") \/ Visiting("continue")
    /\ IF loopStack = <<>>
       THEN reportError
       ELSE /\ Emit(<<Ins("br", IF node.kind = "break" THEN ".break_loop" ELSE ".continue_loop", Head(loopStack))>>)
            /\ Do(<<>>) /\ UNCHANGED types /\ Expression
-----------------------------------------------------------------------------
(***************************************************************************)
(* Scopes and stack slots.                                                 *)
(***************************************************************************)
startScope(ts) ==      \* the method that opens the scope goes on with ts in it
    /\ todo' = <<ts, Rest>> \o Tail(todo)
    /\ symbolTable' = <<Empty>> \o symbolTable
    /\ marks' = <<localCntr>> \o marks
    /\ UNCHANGED <<localCntr, frameCntr, failed>>

visitCompoundStatement ==
    /\ Visiting("block")
    /\ startScope(Items)
    /\ UNCHANGED <<types, ir, labels, decls>>

visitStmtFor ==        \* kids: declaration or expression, condition, expression, statement
    /\ Visiting("for")
    /\ loopCntr' = loopCntr + 1
    /\ startScope(Maybe(Kid(1), IF Kid(1).kind \in {"decl", "array"} THEN <<V(Kid(1))>> ELSE <<V(Kid(1)), T("drop")>>)
                  \o <<E("label", ".begin_loop", loopCntr)>>
                  \o Maybe(Kid(2), <<V(Kid(2)), Test("beqz", ".break_loop", loopCntr)>>)
                  \o Body(Kid(4), loopCntr)
                  \o Maybe(Kid(3), <<V(Kid(3)), T("drop")>>)
                  \o <<E("br", ".begin_loop", loopCntr), E("label", ".break_loop", loopCntr)>>)
    /\ UNCHANGED <<types, ir, labelCntr, loopStack, decls>>

ScopeSize == Cardinality(DOMAIN Head(symbolTable))

endScope ==            \* of a block or a for: the slots of its symbols are handed back
    /\ ~failed /\ Len(todo) > 2 /\ Head(todo) = <<>>
    /\ todo' = Tail(todo)
    /\ symbolTable' = Tail(symbolTable) /\ marks' = Tail(marks)
    /\ localCntr' = localCntr - ScopeSize
    /\ UNCHANGED <<types, ir, frameCntr, labels, decls, failed>>

\* (A mistake to find: an array counts as one word.)
declLocalVar_Bug(num) ==
    /\ localCntr' = localCntr + 1
    /\ frameCntr' = IF localCntr' > frameCntr THEN localCntr' ELSE frameCntr

declLocalVar(num) ==
    /\ localCntr' = localCntr + num
    /\ frameCntr' = IF localCntr' > frameCntr THEN localCntr' ELSE frameCntr

Declare(name, symbol) ==
    symbolTable' = <<Put(Head(symbolTable), name, symbol)>> \o Tail(symbolTable)

visitDeclLoNaive ==
    /\ Visiting("decl")
    /\ IF node.name \in DOMAIN Head(symbolTable)
       THEN reportError
       ELSE /\ Declare(node.name, [offset |-> localCntr, type |-> Scalar(node.refs, TRUE)])
            /\ declLocalVar(1)
            /\ Do(Maybe(Kid(1), <<V(Kid(1)), T("rvalue"), After("init", node, 0)>>))
            /\ UNCHANGED <<types, ir, marks, labels, decls>>

Initialize ==
    /\ At("init")
    /\ IF Same(Top, Scalar(node.refs, FALSE))
       THEN /\ Emit(<<Ins("frameaddr", "", localCntr - 1), Ins("store", "", 0), Ins("pop", "", 0)>>)
            /\ Do(<<>>) /\ Dropped(1) /\ Expression
       ELSE reportError

visitDeclLoArray ==     \* its symbol is its last slot, which is its lowest address
    /\ Visiting("array")
    /\ IF node.name \in DOMAIN Head(symbolTable) \/ ~Proper(node.dims)
       THEN reportError
       ELSE LET type == Dimensions(Scalar(node.refs, TRUE), node.dims)
            IN  /\ Fits(type)
                /\ declLocalVar(Head(type.sizes))
                /\ Declare(node.name, [offset |-> localCntr' - 1, type |-> type])
                /\ Do(<<>>) /\ UNCHANGED <<types, ir, marks, labels, decls>>
-----------------------------------------------------------------------------
(***************************************************************************)
(* The top level of a program.                                             *)
(***************************************************************************)
NoInit == -1

Global(type, init) ==
    /\ globDeclared' = Put(globDeclared, node.name, [type |-> type, init |-> init])
    /\ UNCHANGED <<currentFunc, funcDeclared, funcDefined, funcFrameSize>>

visitDeclGlNaive ==    \* an initialiser of a pointer fails in the cast to IntType
    /\ TopLevel("declGlNaive")
    /\ LET type == Scalar(node.refs, TRUE)
       IN  IF /\ node.name \notin DOMAIN funcDeclared
              /\ node.n # NoInit => node.refs = 0 /\ node.n <= MaxInt
              /\ node.name \in DOMAIN globDeclared =>
                    /\ Same(globDeclared[node.name].type, type)
                    /\ node.n = NoInit \/ globDeclared[node.name].init = NoInit
           THEN Global(type, node.n) /\ Do(<<>>) /\ UNCHANGED <<types, ir, slots, labels>>
           ELSE reportError

visitDeclGlArray ==
    /\ TopLevel("declGlArray")
    /\ LET type == Dimensions(Scalar(node.refs, TRUE), node.dims)
       IN  IF /\ node.name \notin DOMAIN funcDeclared
              /\ Proper(node.dims)
              /\ node.name \in DOMAIN globDeclared => Same(globDeclared[node.name].type, type)
           THEN Fits(type) /\ Global(type, NoInit) /\ Do(<<>>) /\ UNCHANGED <<types, ir, slots, labels>>
           ELSE reportError

Agrees ==              \* with the globals and with what is declared already
    /\ node.name \notin DOMAIN globDeclared
    /\ node.name \in DOMAIN funcDeclared => funcDeclared[node.name] = Func(node)

visitFuncDecl ==
    /\ TopLevel("funcDecl")
    /\ IF Agrees
       THEN /\ funcDeclared' = Put(funcDeclared, node.name, Func(node))
            /\ UNCHANGED <<currentFunc, funcDefined, funcFrameSize, globDeclared>>
            /\ Do(<<>>) /\ UNCHANGED <<types, ir, slots, labels>>
       ELSE reportError

\* Parameter k of a call lies at fp + k: the slot of a local variable would be -3 - k.
Parameters ==
    LET params == node.params
        at(x) == CHOOSE i \in 1..Len(params) : params[i].name = x
    IN  [x \in {params[i].name : i \in 1..Len(params)} |->
            [offset |-> 0 - 2 - at(x), type |-> Scalar(params[at(x)].refs, TRUE)]]

visitFuncDef ==
    /\ TopLevel("funcDef")
    /\ IF /\ Agrees
          /\ node.name \notin DOMAIN funcDefined
          /\ \A i, j \in DOMAIN node.params : node.params[i].name = node.params[j].name => i = j
       THEN /\ currentFunc' = node.name
            /\ funcDefined' = Put(funcDefined, node.name, Func(node))
            /\ funcDeclared' = Put(funcDeclared, node.name, Func(node))
            /\ localCntr' = 0 /\ frameCntr' = 0
            /\ symbolTable' = <<Parameters>> /\ marks' = <<0>>
            /\ todo' = <<Items, Rest>>
            /\ Emit(<<[Ins("func", node.name, 0) EXCEPT !.of = node.name]>>)
            /\ UNCHANGED <<types, labels, funcFrameSize, globDeclared, failed>>
       ELSE reportError

EndFunction ==         \* the last lines of visitFuncDef
    /\ ~failed /\ Len(todo) = 2 /\ Head(todo) = <<>>
    /\ todo' = Tail(todo)
    /\ symbolTable' = Tail(symbolTable) /\ marks' = Tail(marks)
    /\ funcFrameSize' = Put(funcFrameSize, currentFunc, frameCntr)
    /\ Emit(<<Ins("endfunc", currentFunc, 0)>>)
    /\ UNCHANGED <<types, localCntr, frameCntr, labels, currentFunc, funcDeclared, funcDefined, globDeclared, failed>>

EndProgram ==          \* the last lines of visitProgram
    /\ ~failed /\ todo = <<<<>>>>
    /\ IF "main" \in DOMAIN funcDefined
       THEN todo' = <<>> /\ UNCHANGED <<types, slots, labels, decls, ir, failed>>
       ELSE reportError
-----------------------------------------------------------------------------
VisitorInit(program) ==
    /\ todo = <<[i \in DOMAIN program |-> [do |-> "visit", node |-> program[i], name |-> "", n |-> 0]]>>
    /\ types = <<>> /\ symbolTable = <<>> /\ marks = <<>> /\ loopStack = <<>> /\ ir = <<>>
    /\ localCntr = 0 /\ frameCntr = 0 /\ labelCntr = 0 /\ loopCntr = 0
    /\ currentFunc = "" /\ funcDeclared = Empty /\ funcDefined = Empty
    /\ funcFrameSize = Empty /\ globDeclared = Empty
    /\ failed = FALSE

Visit ==
    \/ visitPrimIntLit \/ visitPrimIdent \/ castToRValue \/ typeCheckInt
    \/ visitExprAssign \/ Assigned \/ visitExprTernary \/ TernaryEnd
    \/ visitBinary \/ Binary \/ visitUnaryOp \/ visitUnaryAddr \/ Deref \/ Ref
    \/ visitUnaryCast \/ Cast \/ visitPfixFCall \/ Argument \/ Call
    \/ visitPfixSubscri \/ Subscript
    \/ Appended \/ Tested \/ DroppedValue \/ visitStmtRet \/ Return \/ visitStmtExpr \/ visitStmtIf \/ Branches
    \/ LoopStack \/ visitStmtWhile \/ visitStmtDo \/ visitStmtJump
    \/ visitCompoundStatement \/ visitStmtFor \/ endScope
    \/ visitDeclLoNaive \/ Initialize \/ visitDeclLoArray
    \/ visitDeclGlNaive \/ visitDeclGlArray
    \/ visitFuncDecl \/ visitFuncDef \/ EndFunction \/ EndProgram
-----------------------------------------------------------------------------
(***************************************************************************)
(* Stack slots.  Slot n of a frame is the word at fp - 3 - n; arguments    *)
(* have negative slots, which belong to the caller's frame.                *)
(***************************************************************************)
Words(symbol) == Head(symbol.type.sizes)
Slots(symbol) == (symbol.offset - Words(symbol) + 1)..symbol.offset

\* No two variables that live at the same time share a slot, those that are hidden by another
\* of the same name included, and every local variable lies inside the frame. What a scope
\* hands back (line 194: the number of its symbols, not of their words) is never too much.
SlotsApart ==
    \A j, k \in DOMAIN symbolTable : \A x \in DOMAIN symbolTable[j], y \in DOMAIN symbolTable[k] :
        /\ j # k \/ x # y => Slots(symbolTable[j][x]) \cap Slots(symbolTable[k][y]) = {}
        /\ symbolTable[j][x].offset >= 0 => Slots(symbolTable[j][x]) \subseteq 0..frameCntr - 1

\* The frame that AsmGen will make for a function, whose size is only known at its end, holds
\* every address the code of that function takes.
FrameCovers ==
    \A i \in DOMAIN ir : ir[i].op = "frameaddr" =>
        ir[i].n < IF ir[i].of \in DOMAIN funcFrameSize THEN funcFrameSize[ir[i].of] ELSE frameCntr

FramesSound == SlotsApart /\ FrameCovers
-----------------------------------------------------------------------------
\* The inductive invariant of the proof of FramesSound. Scope j has the slots from marks[j] up
\* to Limit(j); a function's own scope also has the parameters.
Limit(j) == IF j = 1 THEN localCntr ELSE marks[j - 1]
Outermost(j) == j = Len(symbolTable)

Counters == localCntr \in Nat /\ frameCntr \in Nat /\ localCntr <= frameCntr

Depths ==
    /\ Len(marks) = Len(symbolTable)
    /\ Len(symbolTable) = IF todo = <<>> THEN 0 ELSE Len(todo) - 1

ScopeBounds ==
    \A j \in DOMAIN marks :
        /\ marks[j] \in Nat /\ marks[j] <= localCntr
        /\ \A k \in DOMAIN marks : j <= k => marks[k] <= marks[j]
        /\ ~Outermost(j) => /\ IsFiniteSet(DOMAIN symbolTable[j])
                            /\ Cardinality(DOMAIN symbolTable[j]) <= Limit(j) - marks[j]

SymbolBounds ==
    \A j \in DOMAIN symbolTable : \A x \in DOMAIN symbolTable[j] :
        LET s == symbolTable[j][x]
        IN  /\ s.offset \in Int /\ Words(s) \in Nat \ {0}
            /\ \/ Outermost(j) /\ s.offset < 0 /\ Words(s) = 1
               \/ marks[j] <= s.offset - Words(s) + 1 /\ s.offset < Limit(j)

SymbolsApart ==
    \A j \in DOMAIN symbolTable : \A x, y \in DOMAIN symbolTable[j] :
        x # y => Slots(symbolTable[j][x]) \cap Slots(symbolTable[j][y]) = {}

Functions ==
    /\ DOMAIN funcFrameSize \subseteq DOMAIN funcDefined
    /\ \A f \in DOMAIN funcFrameSize : funcFrameSize[f] \in Nat
    /\ symbolTable # <<>> => currentFunc \in DOMAIN funcDefined \ DOMAIN funcFrameSize
    /\ \A i \in DOMAIN ir : ir[i].op = "frameaddr" => ir[i].n \in Int
    /\ \A i \in DOMAIN ir : ir[i].op = "frameaddr" =>
          \/ ir[i].of \in DOMAIN funcFrameSize
          \/ symbolTable # <<>> /\ ir[i].of = currentFunc

IInv == Counters /\ Depths /\ ScopeBounds /\ SymbolBounds /\ SymbolsApart /\ Functions /\ FrameCovers
=============================================================================
