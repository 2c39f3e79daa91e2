--------------------------- MODULE SourceMeaning ---------------------------
(***************************************************************************)
(* What a program of the language means, said without stack, slots, labels *)
(* or jumps: the reference the compiled program is compared with.  Every   *)
(* variable that comes to life gets cells of its own and keeps them.       *)
(* Programs whose meaning C leaves open (overflow, values that were never  *)
(* set, effects whose order is open) are not asked for.                    *)
(***************************************************************************)
EXTENDS Compiler

CONSTANTS Legal         \* the programs that are right: indices into Program

Num(b) == IF b THEN 1 ELSE 0
Trunc(a, b) == CHOOSE q \in -128..127 : \E r \in -127..127 : a = q * b + r /\ r * r < b * b /\ r * a >= 0

Apply(op, a, b) ==
    CASE op = "eq" -> Num(a = b)  [] op = "neq" -> Num(a # b)
      [] op = "lt" -> Num(a < b)  [] op = "gt" -> Num(a > b)
      [] op = "le" -> Num(a <= b) [] op = "ge" -> Num(a >= b)
      [] op = "add" -> a + b      [] op = "sub" -> a - b
      [] op = "mul" -> a * b      [] op = "div" -> Trunc(a, b)
      [] op = "rem" -> a - b * Trunc(a, b)

Result(v, t, m) == [v |-> v, t |-> t, m |-> m]
Val(r) == IF r.t.lv THEN r.m[r.v] ELSE r.v
End(how, v, m) == [how |-> how, v |-> v, m |-> m]
Cells(m, n) == m \o [i \in 1..n |-> Garbage]
Bind(env, x, at, t) == Put(env, x, [at |-> at, type |-> t])
Fold(dims, refs) == Dimensions(Scalar(refs, TRUE), dims)

Definition(p, f) == p[CHOOSE i \in DOMAIN p : p[i].kind = "funcDef" /\ p[i].name = f]

\* Ev: an expression; Args: arguments from k on; Block: a list of items; St: a statement;
\* Loop: a loop from its condition on; Enter: a function on the cells of its parameters.
RECURSIVE Ev(_, _, _, _), Args(_, _, _, _, _), Block(_, _, _, _), St(_, _, _, _), Loop(_, _, _, _), Enter(_, _, _, _)

Args(p, kids, env, m, vs) ==
    IF kids = <<>> THEN [vs |-> vs, m |-> m]
    ELSE LET r == Ev(p, Head(kids), env, m) IN Args(p, Tail(kids), env, r.m, Append(vs, Val(r)))

\* The environment of the globals, which come first in memory.
Globals(p) ==
    LET is == {i \in DOMAIN p : p[i].kind \in {"declGlNaive", "declGlArray"}}
        at(i) == 8 * (i - 1) + 1
        first(x) == CHOOSE i \in is : p[i].name = x /\ \A j \in is : p[j].name = x => i <= j
    IN  [x \in {p[i].name : i \in is} |-> [at |-> at(first(x)), type |-> Fold(p[first(x)].dims, p[first(x)].refs)]]

Memory(p) ==
    [a \in 1..8 * Len(p) |->
        IF \E i \in DOMAIN p : p[i].kind = "declGlNaive" /\ p[i].n # NoInit /\ Globals(p)[p[i].name].at = a
        THEN p[CHOOSE i \in DOMAIN p : p[i].kind = "declGlNaive" /\ p[i].n # NoInit /\ Globals(p)[p[i].name].at = a].n
        ELSE 0]

Enter(p, f, vs, m) ==
    LET d == Definition(p, f)
        env == [x \in {d.params[i].name : i \in DOMAIN d.params} |->
                   LET i == CHOOSE i \in DOMAIN d.params : d.params[i].name = x
                   IN  [at |-> Len(m) + i, type |-> Scalar(d.params[i].refs, TRUE)]]
        r == Block(p, d.kids, [x \in DOMAIN env \cup DOMAIN Globals(p) |->
                                  IF x \in DOMAIN env THEN env[x] ELSE Globals(p)[x]], m \o vs)
    IN  Result(IF r.how = "return" THEN r.v ELSE 0, Scalar(d.refs, FALSE), r.m)

Ev(p, e, env, m) ==
    CASE e.kind = "int" -> Result(e.n, IntType, m)
      [] e.kind = "ident" -> Result(env[e.name].at, env[e.name].type, m)
      [] e.kind = "assign" ->
           LET r == Ev(p, e.kids[2], env, m)
               l == Ev(p, e.kids[1], env, r.m)
           IN  Result(Val(r), RValue(l.t), [l.m EXCEPT ![l.v] = Val(r)])
      [] e.kind = "ternary" ->
           LET c == Ev(p, e.kids[1], env, m)
               r == Ev(p, e.kids[IF Val(c) # 0 THEN 2 ELSE 3], env, c.m)
           IN  Result(Val(r), RValue(r.t), r.m)
      [] e.kind = "binary" /\ e.name \in {"andl", "orl"} ->
           LET a == Ev(p, e.kids[1], env, m)
               b == Ev(p, e.kids[2], env, a.m)
           IN  IF (Val(a) # 0) = (e.name = "orl") THEN Result(Num(e.name = "orl"), IntType, a.m)
                                                  ELSE Result(Num(Val(b) # 0), IntType, b.m)
      [] e.kind = "binary" /\ e.name \notin {"andl", "orl"} ->
           LET a == Ev(p, e.kids[1], env, m)
               b == Ev(p, e.kids[2], env, a.m)
               refs == IF e.name \in {"add", "sub"} /\ a.t.refs # b.t.refs THEN a.t.refs + b.t.refs ELSE 0
           IN  Result(Apply(e.name, Val(a), Val(b)), Scalar(refs, FALSE), b.m)
      [] e.kind = "unary" ->
           LET r == Ev(p, e.kids[1], env, m)
           IN  Result(CASE e.name = "neg" -> 0 - Val(r) [] e.name = "notb" -> -1 - Val(r)
                        [] e.name = "notl" -> Num(Val(r) = 0), IntType, r.m)
      [] e.kind = "deref" ->
           LET r == Ev(p, e.kids[1], env, m) IN Result(Val(r), Scalar(r.t.refs - 1, TRUE), r.m)
      [] e.kind = "ref" ->
           LET r == Ev(p, e.kids[1], env, m) IN Result(r.v, Scalar(r.t.refs + 1, FALSE), r.m)
      [] e.kind = "cast" ->
           LET r == Ev(p, e.kids[1], env, m) IN Result(r.v, Scalar(e.refs, r.t.lv), r.m)
      [] e.kind = "index" ->
           LET a == Ev(p, e.kids[1], env, m)
               i == Ev(p, e.kids[2], env, a.m)
           IN  IF IsArray(a.t) THEN Result(a.v + Val(i) * a.t.sizes[2], baseType(a.t), i.m)
                               ELSE Result(Val(a) + Val(i), Scalar(a.t.refs - 1, TRUE), i.m)
      [] e.kind = "call" ->
           LET as == Args(p, e.kids, env, m, <<>>) IN Enter(p, e.name, as.vs, as.m)

Block(p, items, env, m) ==
    IF items = <<>> THEN End("next", 0, m)
    ELSE LET s == Head(items)
         IN  CASE s.kind = "decl" ->
                    LET env1 == Bind(env, s.name, Len(m) + 1, Scalar(s.refs, TRUE))
                        r == Ev(p, s.kids[1], env1, Cells(m, 1))
                    IN  Block(p, Tail(items), env1,
                              IF s.kids = <<>> THEN Cells(m, 1) ELSE [r.m EXCEPT ![Len(m) + 1] = Val(r)])
               [] s.kind = "array" ->
                    LET t == Fold(s.dims, s.refs)
                    IN  Block(p, Tail(items), Bind(env, s.name, Len(m) + 1, t), Cells(m, Head(t.sizes)))
               [] s.kind \notin {"decl", "array"} ->
                    LET r == St(p, s, env, m)
                    IN  IF r.how = "next" THEN Block(p, Tail(items), env, r.m) ELSE r

\* The parts of loop s: a while or a for whose first part is over.
Loop(p, s, env, m) ==
    LET isFor == s.kind = "for"
        cond == IF isFor THEN s.kids[2] ELSE IF s.kind = "do" THEN s.kids[2] ELSE s.kids[1]
        body == IF isFor THEN s.kids[4] ELSE IF s.kind = "do" THEN s.kids[1] ELSE s.kids[2]
        c == IF cond = NoNode THEN Result(1, IntType, m) ELSE Ev(p, cond, env, m)
        b == St(p, body, env, c.m)
        after == IF isFor /\ s.kids[3] # NoNode THEN Ev(p, s.kids[3], env, b.m).m ELSE b.m
    IN  IF Val(c) = 0 THEN End("next", 0, c.m)
        ELSE IF b.how \in {"next", "continue"} THEN Loop(p, s, env, after)
        ELSE End(IF b.how = "break" THEN "next" ELSE b.how, b.v, b.m)

St(p, s, env, m) ==
    CASE s.kind = "return" -> LET r == Ev(p, s.kids[1], env, m) IN End("return", Val(r), r.m)
      [] s.kind = "expr" -> End("next", 0, IF s.kids = <<>> THEN m ELSE Ev(p, s.kids[1], env, m).m)
      [] s.kind = "if" ->
           LET c == Ev(p, s.kids[1], env, m)
           IN  IF Val(c) # 0 THEN St(p, s.kids[2], env, c.m)
               ELSE IF Len(s.kids) = 3 THEN St(p, s.kids[3], env, c.m) ELSE End("next", 0, c.m)
      [] s.kind = "block" -> Block(p, s.kids, env, m)
      [] s.kind = "for" ->
           IF s.kids[1] = NoNode THEN Loop(p, s, env, m)
           ELSE Block(p, <<IF s.kids[1].kind \in {"decl", "array"} THEN s.kids[1]
                           ELSE [s EXCEPT !.kind = "expr", !.kids = <<s.kids[1]>>],
                           [s EXCEPT !.kids = <<NoNode>> \o Tail(s.kids)]>>, env, m)
      [] s.kind = "while" -> Loop(p, s, env, m)
      [] s.kind = "do" ->
           LET b == St(p, s.kids[1], env, m)
           IN  IF b.how \in {"next", "continue"} THEN Loop(p, s, env, b.m)
               ELSE End(IF b.how = "break" THEN "next" ELSE b.how, b.v, b.m)
      [] s.kind \in {"break", "continue"} -> End(s.kind, 0, m)

Meaning(p) == Enter(p, "main", <<>>, Memory(p)).v
-----------------------------------------------------------------------------
\* A program that is right is accepted and returns what it means; a wrong one is refused
\* (the tests in minidecaf-tests: testcases and failcases, and the contract in its README).
RightResult ==
    /\ Refused => prog \notin Legal
    /\ phase = "exit" => prog \in Legal /\ a0 = Meaning(Program[prog])

\* Every program is compiled to the end and, if it is right, ends.
Ends == <>Ended
=============================================================================
