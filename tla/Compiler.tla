----------------------------- MODULE Compiler -----------------------------
(***************************************************************************)
(* The compiler on a program, and then the program (Main.java): the tree   *)
(* is visited, the code generated, assembled and run.                      *)
(***************************************************************************)
EXTENDS AsmGen

CONSTANTS Program,      \* a sequence of programs, each a sequence of top-level nodes
          Nodes,        \* all nodes of their trees
          Expressions   \* those of them that are expressions, or absent

\* What the parser (MiniDecaf.g4) gives: below an expression there are only expressions, and the
\* condition of an if is one.
Statements == {"return", "expr", "if", "block", "for", "while", "do", "break", "continue", "decl", "array"}

Grammar(nodes, expressions) ==
    /\ Program \in Seq(Seq(nodes))
    /\ NoNode \in expressions /\ expressions \subseteq nodes
    /\ \A n \in nodes : n.kids \in Seq(nodes)
    /\ \A e \in expressions : e.kind \notin Statements /\ e.kids \in Seq(expressions)
    /\ \A n \in nodes : n.kind = "if" => n.kids # <<>> /\ Head(n.kids) \in expressions
    /\ \A n \in nodes : n.kind = "unary" => n.name \in {"notl", "notb", "neg"}

ASSUME GrammarAssumption == Grammar(Nodes, Expressions)

VARIABLES prog          \* the program at hand

vars == <<prog, visitorVars, machineVars>>

Init ==
    /\ prog \in DOMAIN Program
    /\ VisitorInit(Program[prog])
    /\ MachineInit

Refused == failed \/ phase = "refused"
Ended == Refused \/ phase = "exit"

Compile == Visit /\ UNCHANGED <<prog, machineVars>>
Run == ~failed /\ todo = <<>> /\ Execute /\ UNCHANGED <<prog, visitorVars>>
Stop == Ended /\ UNCHANGED vars     \* so that a deadlock is a compiler that gets stuck

Next == Compile \/ Run \/ Stop
Spec == Init /\ [][Next]_vars /\ WF_vars(Compile \/ Run)
-----------------------------------------------------------------------------
Jumps == {"br", "beqz", "bnez"}
Compiled == phase = "compile" /\ todo = <<>> /\ ~failed

\* When the compiler is through with a program, nested and following statements have not got in
\* the way of each other's labels (lines 241, 336, 614): every label is there once, and every jump
\* finds its label, in the function it is in.
JumpsLand ==
    Compiled =>
        \A i \in DOMAIN ir :
            /\ ir[i].op = "label" => Label(ir[i].name, ir[i].n) = {i}
            /\ ir[i].op \in Jumps => \E k \in Label(ir[i].name, ir[i].n) : ir[k].of = ir[i].of
=============================================================================
