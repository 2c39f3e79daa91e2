---------------------------- MODULE MCCompiler ----------------------------
(* Programs for TLC: pairs of statements in every kind of scope, tests of  *)
(* minidecaf-tests/testcases, and wrong programs of .../failcases.         *)
EXTENDS SourceMeaning

None == [kind |-> "none", name |-> "", n |-> -1, refs |-> 0, dims |-> <<>>, params |-> <<>>, kids |-> <<>>]
N(kind, kids) == [None EXCEPT !.kind = kind, !.kids = kids]
I(n) == [None EXCEPT !.kind = "int", !.n = n]
Id(x) == [None EXCEPT !.kind = "ident", !.name = x]
Op(op, a, b) == [N("binary", <<a, b>>) EXCEPT !.name = op]
Un(op, a) == [N("unary", <<a>>) EXCEPT !.name = op]
Cst(refs, a) == [N("cast", <<a>>) EXCEPT !.refs = refs]
Fn(f, args) == [N("call", args) EXCEPT !.name = f]
Index(a, i) == N("index", <<a, i>>)
Star(a) == N("deref", <<a>>)
Amp(a) == N("ref", <<a>>)
Asg(l, r) == N("assign", <<l, r>>)
Ex(e) == N("expr", <<e>>)
Let(l, r) == Ex(Asg(l, r))
Ret(e) == N("return", <<e>>)
Dcl(refs, x, init) == [N("decl", init) EXCEPT !.name = x, !.refs = refs]
Arr(refs, x, dims) == [N("array", <<>>) EXCEPT !.name = x, !.refs = refs, !.dims = dims]
Blk(items) == N("block", items)
For(i, c, p, b) == N("for", <<i, c, p, b>>)
If(c, s) == N("if", <<c, s>>)
IfElse(c, s, t) == N("if", <<c, s, t>>)
Glob(refs, x, n) == [None EXCEPT !.kind = "declGlNaive", !.name = x, !.refs = refs, !.n = n]
GArr(refs, x, dims) == [None EXCEPT !.kind = "declGlArray", !.name = x, !.refs = refs, !.dims = dims]
P(refs, x) == [refs |-> refs, name |-> x]
Def(refs, f, params, items) ==
    [N("funcDef", items) EXCEPT !.name = f, !.refs = refs, !.params = params]
Decl(refs, f, params) == [None EXCEPT !.kind = "funcDecl", !.name = f, !.refs = refs, !.params = params]
Main(items) == Def(0, "main", <<>>, items)

a == Id("a")
s == Id("s")
Inc(x, e) == Let(x, Op("add", x, e))
-----------------------------------------------------------------------------
\* Helpers the statements call, and the globals they use.
Prelude == <<
    Glob(0, "g", 4), GArr(0, "h", <<2, 2>>),
    Decl(0, "minus", <<P(0, "x"), P(0, "y")>>),
    Def(0, "sum", <<P(0, "n")>>,        \* recursive, a local of its own in each call
        <<IfElse(Op("le", Id("n"), I(0)), Ret(I(0)), Blk(<<Dcl(0, "m", <<Id("n")>>),
            Ret(Op("add", Fn("sum", <<Op("sub", Id("n"), I(1))>>), Id("m")))>>))>>),
    Def(0, "minus", <<P(0, "x"), P(0, "y")>>,
        <<Dcl(0, "z", <<Op("sub", Id("x"), Id("y"))>>), Ret(Id("z"))>>),
    Def(1, "bump", <<P(1, "p")>>,
        <<Let(Star(Id("p")), Op("add", Star(Id("p")), I(1))), Ret(Id("p"))>>)>>

Statement == <<
    Blk(<<Dcl(0, "a", <<I(3)>>), Inc(s, a)>>),
    Blk(<<Arr(0, "t", <<2>>), Let(Index(Id("t"), I(0)), I(5)), Let(Index(Id("t"), I(1)), I(6)),
          Dcl(0, "u", <<I(1)>>), Inc(s, Op("sub", Index(Id("t"), I(1)), Id("u")))>>),
    For(Dcl(0, "i", <<I(0)>>), Op("lt", Id("i"), I(3)), Asg(Id("i"), Op("add", Id("i"), I(1))),
        Blk(<<Dcl(0, "c", <<Id("i")>>), Inc(s, Id("c")), If(Id("c"), N("continue", <<>>)), Inc(s, I(7))>>)),
    N("while", <<Op("lt", a, I(5)), Blk(<<Inc(a, I(1)), If(Op("eq", a, I(2)), N("continue", <<>>)),
                                          Dcl(0, "d", <<a>>), Inc(s, Id("d")), N("break", <<>>)>>)>>),
    N("do", <<Blk(<<Dcl(0, "e", <<I(2)>>), Inc(a, Id("e"))>>), Op("lt", a, I(4))>>),
    Let(s, Op("add", Fn("minus", <<Fn("sum", <<I(2)>>), a>>), Op("mul", I(2), Fn("minus", <<s, a>>)))),
    Ex(Fn("bump", <<Fn("bump", <<Amp(a)>>)>>)),
    Let(s, N("ternary", <<a, N("ternary", <<Op("gt", s, I(2)), Op("add", s, I(1)), Un("neg", s)>>), I(8)>>)),
    Blk(<<Arr(0, "m", <<2, 2>>), Let(Index(Index(Id("m"), I(1)), I(0)), a), Let(Index(Index(Id("m"), I(0)), I(1)), s),
          Let(s, Op("sub", Index(Index(Id("m"), I(1)), I(0)), Index(Index(Id("m"), I(0)), I(1))))>>),
    IfElse(Op("andl", a, Op("neq", s, I(1))), Blk(<<Dcl(0, "b", <<s>>), Let(a, Id("b"))>>),
           If(Op("ge", a, I(1)), Inc(Id("g"), Op("rem", I(7), I(4))))),
    Let(Index(Index(Id("h"), I(1)), I(1)), Asg(Id("g"), Op("add", Id("g"), Index(Index(Id("h"), I(1)), I(1))))) >>

\* Where a pair of statements stands: in a block, in a loop, in the branches of an if.
Context(k, p, q) ==
    CASE k = 1 -> <<Blk(<<p, q>>)>>
      [] k = 2 -> <<For(Dcl(0, "j", <<I(0)>>), Op("lt", Id("j"), I(2)), Asg(Id("j"), Op("add", Id("j"), I(1))),
                        Blk(<<p, Dcl(0, "v", <<Id("j")>>), q, Inc(s, Id("v"))>>))>>
      [] k = 3 -> <<IfElse(Op("gt", Id("g"), I(4)), p, q), p>>

\* k is declared after the scopes are gone: it may get their slots, a and s keep theirs.
Pair(k, p, q) == Prelude \o <<Main(
    <<Dcl(0, "a", <<I(1)>>), Dcl(0, "s", <<I(2)>>)>> \o Context(k, p, q) \o
    <<Dcl(0, "k", <<I(9)>>), q, Ret(Op("add", Op("add", a, Op("mul", I(3), s)), Op("add", Id("g"), Id("k"))))>>)>>

Size == Len(Statement)
Pairs == [i \in 1..(3 * Size * Size) |->
            Pair(1 + ((i - 1) \div (Size * Size)), Statement[1 + (((i - 1) \div Size) % Size)], Statement[1 + ((i - 1) % Size)])]
-----------------------------------------------------------------------------
Right == <<
    \* step11/ptr_2lv, ptr_asgn, ptr_nlv in short
    <<Main(<<Dcl(0, "x", <<I(2)>>), Dcl(0, "y", <<I(3)>>), Dcl(1, "p", <<Amp(Id("x"))>>), Dcl(1, "q", <<>>),
             Let(Id("q"), Amp(Id("y"))), Let(Star(Id("p")), I(3)), Dcl(2, "r", <<Amp(Id("p"))>>),
             Let(Star(Id("r")), Amp(Id("y"))), Let(Star(Star(Id("r"))), I(6)),
             Ret(Op("add", Op("mul", Id("x"), I(10)), Op("add", Id("y"), Op("eq", Id("p"), Id("q")))))>>)>>,
    \* step11/cast, ptr_null
    <<Glob(1, "gp", NoInit), Main(<<Dcl(0, "x", <<I(21)>>), Dcl(0, "b", <<Cst(0, Amp(Id("x")))>>),
             If(Op("neq", Id("gp"), Cst(1, I(0))), Ret(I(9))), N("expr", <<>>),
             Ret(Star(Cst(1, Id("b"))))>>)>>,
    \* step12/ptrarith_*, arr_addr
    <<GArr(0, "h", <<2, 3>>), Main(<<Arr(0, "t", <<5>>), Arr(1, "ps", <<2>>), Dcl(0, "k", <<I(0)>>),
             N("while", <<Op("lt", Id("k"), I(5)),
                Blk(<<Let(Index(Id("t"), Id("k")), Op("mul", Id("k"), Id("k"))), Inc(Id("k"), I(1))>>)>>),
             Let(Index(Id("ps"), I(0)), Amp(Index(Id("t"), I(3)))),
             Let(Index(Id("ps"), I(1)), Op("sub", Op("add", I(1), Index(Id("ps"), I(0))), I(2))),
             If(Op("neq", Cst(1, Index(Id("h"), I(1))), Amp(Index(Cst(1, Id("h")), I(3)))), Ret(I(99))),
             Let(Index(Cst(1, Id("h")), I(4)), Op("sub", Index(Id("ps"), I(0)), Index(Id("ps"), I(1)))),
             Ret(Op("add", Index(Index(Id("ps"), I(1)), I(2)), Index(Index(Id("h"), I(1)), I(1))))>>)>>,
    \* step9/forward_decl, mutual_recursion; step10/fun_shadowed_by_variable
    <<Decl(0, "odd", <<P(0, "n")>>), Decl(0, "odd", <<P(0, "m")>>),
      Def(0, "even", <<P(0, "n")>>, <<Ret(N("ternary", <<Id("n"), Fn("odd", <<Op("sub", Id("n"), I(1))>>), I(1)>>))>>),
      Def(0, "odd", <<P(0, "n")>>, <<If(N("ternary", <<Id("n"), I(0), I(1)>>), Ret(I(0))), Ret(Fn("even", <<Op("sub", Id("n"), I(1))>>))>>),
      Main(<<Dcl(0, "even", <<I(5)>>), Ret(Op("div", Op("mul", Id("even"), Fn("odd", <<I(3)>>)), Un("neg", I(2))))>>)>>,
    \* step8/break, continue in nested loops; step6/if without a return
    <<Main(<<Dcl(0, "n", <<I(0)>>), Dcl(0, "j", <<>>),
             For(Asg(Id("j"), I(0)), None, Asg(Id("j"), Op("add", Id("j"), I(1))), Blk(<<
                 If(Op("gt", Id("j"), I(3)), N("break", <<>>)),
                 N("do", <<Blk(<<Inc(Id("n"), I(1)), If(Op("rem", Id("n"), I(2)), N("continue", <<>>)),
                                N("break", <<>>)>>), Op("le", Id("n"), Op("mul", I(2), Id("j")))>>)>>)),
             Ret(Op("add", Op("mul", Id("n"), I(4)), Un("notb", Id("j"))))>>)>>,
    <<Main(<<Dcl(0, "x", <<I(1)>>),
             N("do", <<Blk(<<If(Id("x"), N("continue", <<>>)), Let(Id("x"), I(2))>>), Op("sub", Id("x"), I(1))>>),
             Ret(Id("x"))>>)>>,
    <<Def(0, "swap", <<P(1, "x"), P(1, "y")>>, <<Dcl(0, "c", <<Star(Id("x"))>>),
             Let(Star(Id("x")), Star(Id("y"))), Let(Star(Id("y")), Id("c"))>>),
      Main(<<Dcl(0, "x", <<I(2)>>), Dcl(0, "y", <<I(3)>>), Ex(Fn("swap", <<Amp(Id("x")), Amp(Id("y"))>>)),
             If(Op("orl", Op("lt", Id("y"), I(1)), Op("eq", Id("x"), I(9))), Ret(I(1))),
             Blk(<<>>), For(None, I(1), None, Ret(Op("sub", Op("mul", I(7), Id("x")), Id("y"))))>>)>>,
    \* the largest frame that immediates reach, and names that only look taken
    <<Glob(0, "g_epilogue", 2), Def(0, "main_", <<>>, <<Ret(Id("g_epilogue"))>>),
      Main(<<Arr(0, "t", <<3, 7>>), Let(Index(Index(Id("t"), I(2)), I(6)), Fn("main_", <<>>)),
             Let(Index(Index(Id("t"), I(0)), I(0)), I(3)), Ret(Index(Index(Id("t"), I(2)), I(6)))>>)>> >>

In(items) == <<Main(items)>>
Null(refs) == Cst(refs, I(0))
Wrong == <<
    In(<<Ret(I(128))>>), <<Def(0, "f", <<>>, <<Ret(I(0))>>)>>,                        \* step1/badint_2, no_main
    In(<<Let(I(1), I(1))>>), In(<<Dcl(0, "a", <<>>), Dcl(0, "a", <<>>)>>), In(<<Ret(a)>>),             \* step5
    In(<<If(I(1), Blk(<<Dcl(0, "a", <<>>)>>)), Ret(a)>>),                             \* step7/var_out_of_scope
    In(<<N("do", <<Blk(<<Dcl(0, "a", <<I(0)>>)>>), a>>)>>),                          \* step8/bad_do_while_cond
    In(<<N("break", <<>>)>>), In(<<N("continue", <<>>)>>),
    <<Decl(0, "f", <<P(0, "x")>>), Def(0, "f", <<P(0, "x"), P(0, "y")>>, <<>>), Main(<<>>)>>,           \* step9
    <<Def(0, "f", <<P(0, "x"), P(0, "x")>>, <<>>), Main(<<>>)>>,
    <<Main(<<>>), Main(<<>>)>>, In(<<Ret(Fn("f", <<>>))>>), <<Decl(0, "f", <<>>), Main(<<Ret(Fn("f", <<>>))>>)>>,
    <<Def(0, "f", <<P(0, "x")>>, <<Dcl(0, "x", <<I(1)>>)>>), Main(<<>>)>>,
    <<Def(0, "f", <<P(0, "x")>>, <<>>), Main(<<Ret(Fn("f", <<I(1), I(2)>>))>>)>>,
    <<Glob(0, "f", NoInit), Decl(0, "f", <<>>), Main(<<>>)>>, <<Decl(0, "f", <<>>), Glob(0, "f", NoInit), Main(<<>>)>>,
    <<Glob(0, "a", 1), Glob(0, "a", 2), Main(<<>>)>>, <<Decl(0, "f", <<>>), GArr(0, "f", <<2>>), Main(<<>>)>>,
    <<GArr(0, "a", <<2>>), GArr(0, "a", <<3>>), Main(<<>>)>>,                         \* step10
    In(<<Ex(Amp(I(1)))>>), In(<<Ret(N("ternary", <<I(1), Null(1), I(1)>>))>>),       \* step11
    <<Def(0, "f", <<P(2, "x")>>, <<>>), Main(<<Dcl(1, "a", <<Null(1)>>), Ex(Fn("f", <<a>>))>>)>>,
    In(<<Dcl(2, "a", <<Null(2)>>), Dcl(1, "b", <<a>>)>>), In(<<Ex(Op("eq", Null(1), I(0)))>>),
    In(<<Ex(Op("gt", Null(1), Null(1)))>>), In(<<Ex(Un("notl", Null(1)))>>), In(<<Dcl(0, "a", <<>>), Ret(Amp(a))>>),
    In(<<Let(Star(I(0)), I(0))>>), In(<<If(Null(1), Ex(I(1)))>>), In(<<N("while", <<Null(1), Ex(I(1))>>)>>),
    In(<<Arr(0, "a", <<2>>), Ex(Amp(a))>>), In(<<Arr(0, "a", <<2>>), Ex(Op("add", a, I(1)))>>),        \* step12
    In(<<Arr(0, "a", <<2>>), Arr(0, "a", <<2>>)>>), In(<<Arr(0, "a", <<0>>)>>),
    In(<<Arr(0, "a", <<2>>), Arr(0, "b", <<2>>), Ex(Asg(a, Id("b")))>>), In(<<Dcl(0, "a", <<>>), Ret(Index(a, I(1)))>>),
    In(<<Ex(Op("add", Null(1), Null(1)))>>), In(<<Ex(Op("sub", Null(2), Null(1)))>>),
    In(<<Arr(0, "a", <<2>>), Ex(Index(a, Null(1)))>>) >>

\* Right, and compiled, but refused by the assembler: a name is taken, a frame too large.
Unassembled == <<
    <<Def(0, "f", <<>>, <<Ret(I(1))>>), Def(0, "f_epilogue", <<>>, <<Ret(I(2))>>), Main(<<Ret(Fn("f", <<>>))>>)>>,
    <<Glob(0, "main_epilogue", 1), Main(<<Ret(Id("main_epilogue"))>>)>>,
    In(<<Arr(0, "a", <<2, 11>>), Ret(I(0))>>) >>

Others == Right \o Wrong \o Unassembled
Programs == Pairs \o Others

\* The nodes of the trees.
Members(l) == {l[i] : i \in DOMAIN l}
RECURSIVE Tree(_)
Tree(n) == {n} \cup UNION {Tree(kid) : kid \in Members(n.kids)}
Parts == {Pair(k, p, q) : k \in 1..3, p \in Members(Statement), q \in Members(Statement)} \cup Members(Others)
AllNodes == {None} \cup UNION {UNION {Tree(n) : n \in Members(p)} : p \in Parts}
AllExpressions ==
    {n \in AllNodes : n.kind \in {"none", "int", "ident", "assign", "ternary", "binary", "unary", "deref", "ref",
                                  "cast", "call", "index"}}

RightOnes == 1..(Len(Pairs) + Len(Right))
=============================================================================
