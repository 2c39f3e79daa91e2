--------------------------- MODULE CompilerProofs ---------------------------
(***************************************************************************)
(* In every program the compiler accepts, two variables that live at the   *)
(* same time have slots of their own, inside the frame of their function;  *)
(* every label is in the code once, and every jump finds its label in its  *)
(* own function.                                                           *)
(***************************************************************************)
EXTENDS Compiler, FiniteSetTheorems, TLAPS

\* What the sequences are made of does not matter, only that they are sequences.
Shape ==
  /\ \E S : todo \in Seq(S)
  /\ \E S : symbolTable \in Seq(S)
  /\ marks \in Seq(Nat)
  /\ \E S : ir \in Seq(S)

Inv == Shape /\ IInv
-----------------------------------------------------------------------------
(* Sequences                                                               *)

LEMMA PushSeq ==
  ASSUME NEW S, NEW s \in Seq(S), NEW x
  PROVE  /\ <<x>> \o s \in Seq(S \cup {x})
         /\ Len(<<x>> \o s) = Len(s) + 1
         /\ (<<x>> \o s)[1] = x
         /\ \A i \in 1 .. Len(s) : (<<x>> \o s)[i + 1] = s[i]
  <1>1. s \in Seq(S \cup {x}) /\ <<x>> \in Seq(S \cup {x}) /\ Len(s) \in Nat
    OBVIOUS
  <1> QED BY <1>1

LEMMA PopSeq ==
  ASSUME NEW S, NEW s \in Seq(S), Len(s) > 0
  PROVE  /\ Tail(s) \in Seq(S)
         /\ Len(Tail(s)) = Len(s) - 1
         /\ \A i \in 1 .. Len(s) - 1 : Tail(s)[i] = s[i + 1]
         /\ Head(s) = s[1]
  OBVIOUS

LEMMA GrowSeq ==
  ASSUME NEW S, NEW s \in Seq(S), NEW D, NEW t \in Seq(D)
  PROVE  /\ s \o t \in Seq(S \cup D)
         /\ Len(s \o t) = Len(s) + Len(t)
         /\ \A i \in 1 .. Len(s) : (s \o t)[i] = s[i]
         /\ \A i \in 1 .. Len(t) : (s \o t)[Len(s) + i] = t[i]
  <1>1. s \in Seq(S \cup D) /\ t \in Seq(S \cup D)
    OBVIOUS
  <1> QED BY <1>1
-----------------------------------------------------------------------------
(* Steps that leave the scopes alone: all expressions and most statements  *)

SameScopes == UNCHANGED <<symbolTable, marks, localCntr, frameCntr>>
SameFunctions == UNCHANGED <<currentFunc, funcDefined, funcFrameSize>>
GoesOn == Len(todo) > 0 /\ \E x : todo' = <<x>> \o Tail(todo)

\* The code grows by instructions that take no address outside the frame so far.
Grown ==
  \E D : \E t \in Seq(D) :
    /\ ir' = ir \o t
    /\ \A i \in 1 .. Len(t) : t[i].op = "frameaddr" =>
          t[i].of = currentFunc /\ t[i].n \in Int /\ t[i].n < frameCntr /\ symbolTable # <<>>

Quiet == /\ UNCHANGED todo \/ GoesOn
         /\ UNCHANGED ir \/ Grown
         /\ SameScopes /\ SameFunctions

LEMMA GoesOnShape ==
  ASSUME Shape, GoesOn
  PROVE  (\E S : todo' \in Seq(S)) /\ Len(todo') = Len(todo) /\ todo # <<>> /\ todo' # <<>>
  <1>1. PICK S : todo \in Seq(S)  BY DEF Shape
  <1>2. PICK x : todo' = <<x>> \o Tail(todo)  BY DEF GoesOn
  <1>3. Tail(todo) \in Seq(S) /\ Len(Tail(todo)) = Len(todo) - 1 /\ Len(todo) \in Nat /\ Len(todo) > 0
    BY <1>1, PopSeq DEF GoesOn
  <1>4. todo' \in Seq(S \cup {x}) /\ Len(todo') = Len(todo)
    BY <1>2, <1>3, PushSeq
  <1> QED BY <1>3, <1>4

LEMMA CodeGrows ==
  ASSUME Inv, Grown, UNCHANGED frameCntr, SameFunctions, UNCHANGED symbolTable
  PROVE  (\E S : ir' \in Seq(S)) /\ FrameCovers' /\ Functions'
  <1>1. PICK S : ir \in Seq(S)  BY DEF Inv, Shape
  <1>2. PICK D : \E t \in Seq(D) :
           /\ ir' = ir \o t
           /\ \A i \in 1 .. Len(t) : t[i].op = "frameaddr" =>
                t[i].of = currentFunc /\ t[i].n \in Int /\ t[i].n < frameCntr /\ symbolTable # <<>>
    BY DEF Grown
  <1>3. PICK t \in Seq(D) :
           /\ ir' = ir \o t
           /\ \A i \in 1 .. Len(t) : t[i].op = "frameaddr" =>
                t[i].of = currentFunc /\ t[i].n \in Int /\ t[i].n < frameCntr /\ symbolTable # <<>>
    BY <1>2
  <1>4. /\ ir' \in Seq(S \cup D) /\ Len(ir') = Len(ir) + Len(t)
        /\ \A i \in 1 .. Len(ir) : ir'[i] = ir[i]
        /\ \A i \in 1 .. Len(t) : ir'[Len(ir) + i] = t[i]
    BY <1>1, <1>3, GrowSeq
  <1>5. ASSUME NEW i \in DOMAIN ir', ir'[i].op = "frameaddr"
        PROVE  \/ i \in DOMAIN ir /\ ir'[i] = ir[i]
               \/ ir'[i].of = currentFunc /\ ir'[i].n \in Int /\ ir'[i].n < frameCntr /\ symbolTable # <<>>
    <2>1. Len(ir) \in Nat /\ Len(t) \in Nat /\ i \in 1 .. Len(ir) + Len(t) /\ DOMAIN ir = 1 .. Len(ir)
      BY <1>1, <1>4, <1>5
    <2>2. CASE i \in 1 .. Len(ir)  BY <2>1, <2>2, <1>4
    <2>3. CASE i \notin 1 .. Len(ir)
      <3>1. i - Len(ir) \in 1 .. Len(t) /\ i = Len(ir) + (i - Len(ir))  BY <2>1, <2>3
      <3>2. ir'[i] = t[i - Len(ir)]  BY <3>1, <1>4
      <3> QED BY <3>1, <3>2, <1>3, <1>5
    <2> QED BY <2>2, <2>3
  <1>6. FrameCovers'
    BY <1>5 DEF FrameCovers, Inv, IInv, Functions, SameFunctions
  <1>7. Functions'
    BY <1>5 DEF Inv, IInv, Functions, SameFunctions
  <1> QED BY <1>4, <1>6, <1>7

LEMMA QuietStep ==
  ASSUME Inv, Quiet
  PROVE  Inv'
  <1>1. (\E S : todo' \in Seq(S)) /\ Len(todo') = Len(todo) /\ (todo' = <<>> <=> todo = <<>>)
    <2>1. CASE UNCHANGED todo  BY <2>1 DEF Inv, Shape
    <2>2. CASE GoesOn  BY <2>2, GoesOnShape DEF Inv
    <2> QED BY <2>1, <2>2 DEF Quiet
  <1>2. (\E S : ir' \in Seq(S)) /\ FrameCovers' /\ Functions'
    <2>1. CASE UNCHANGED ir
      BY <2>1 DEF Inv, IInv, Shape, Quiet, SameScopes, SameFunctions, FrameCovers, Functions
    <2>2. CASE Grown  BY <2>2, CodeGrows DEF Quiet, SameScopes
    <2> QED BY <2>1, <2>2 DEF Quiet
  <1>3. Shape'  BY <1>1, <1>2 DEF Inv, Shape, Quiet, SameScopes
  <1>4. Counters' /\ Depths'
    BY <1>1 DEF Inv, IInv, Counters, Depths, Quiet, SameScopes
  <1>5. ScopeBounds'  BY DEF Inv, IInv, ScopeBounds, Limit, Outermost, Quiet, SameScopes
  <1>6. SymbolBounds' /\ SymbolsApart'
    BY DEF Inv, IInv, SymbolBounds, SymbolsApart, Limit, Outermost, Words, Slots, Quiet, SameScopes
  <1> QED BY <1>2, <1>3, <1>4, <1>5, <1>6 DEF Inv, IInv
-----------------------------------------------------------------------------
(* Declarations                                                            *)

\* A symbol of num words is added to the innermost scope.
LEMMA NewSymbol ==
  ASSUME Inv, GoesOn, UNCHANGED <<ir, marks>>, SameFunctions,
         symbolTable # <<>>,
         NEW name, name \notin DOMAIN Head(symbolTable),
         NEW num \in Nat \ {0}, declLocalVar(num),
         NEW symbol, Declare(name, symbol),
         symbol.offset = localCntr + num - 1, Words(symbol) = num
  PROVE  Inv'
  <1>1. PICK S : symbolTable \in Seq(S)  BY DEF Inv, Shape
  <1> DEFINE top == symbolTable[1]
             new == Put(top, name, symbol)
  <1>2. /\ Len(symbolTable) \in Nat /\ Len(symbolTable) > 0
        /\ DOMAIN symbolTable = 1 .. Len(symbolTable) /\ Head(symbolTable) = top
    BY <1>1
  <1>3. symbolTable' = <<new>> \o Tail(symbolTable)
    BY <1>2 DEF Declare
  <1>4. /\ \E R : symbolTable' \in Seq(R)
        /\ DOMAIN symbolTable' = DOMAIN symbolTable /\ Len(symbolTable') = Len(symbolTable)
        /\ symbolTable'[1] = new
        /\ \A j \in 2 .. Len(symbolTable) : symbolTable'[j] = symbolTable[j]
    <2> HIDE DEF new
    <2>1. /\ Tail(symbolTable) \in Seq(S) /\ Len(Tail(symbolTable)) = Len(symbolTable) - 1
          /\ \A i \in 1 .. Len(symbolTable) - 1 : Tail(symbolTable)[i] = symbolTable[i + 1]
      BY <1>1, <1>2, PopSeq
    <2>2. /\ symbolTable' \in Seq(S \cup {new}) /\ Len(symbolTable') = Len(symbolTable)
          /\ symbolTable'[1] = new
          /\ \A i \in 1 .. Len(symbolTable) - 1 : symbolTable'[i + 1] = Tail(symbolTable)[i]
      BY <1>2, <1>3, <2>1, PushSeq
    <2>3. ASSUME NEW j \in 2 .. Len(symbolTable)  PROVE symbolTable'[j] = symbolTable[j]
      <3>1. j - 1 \in 1 .. Len(symbolTable) - 1 /\ j = (j - 1) + 1  BY <1>2
      <3> QED BY <2>1, <2>2, <3>1
    <2> QED BY <1>2, <2>2, <2>3
  <1>5. /\ DOMAIN new = DOMAIN top \cup {name} /\ new[name] = symbol
        /\ \A x \in DOMAIN top : x # name /\ new[x] = top[x]
    BY <1>2 DEF Put
  <1>6. /\ localCntr \in Nat /\ localCntr' = localCntr + num
        /\ frameCntr \in Nat /\ frameCntr' \in Nat /\ frameCntr <= frameCntr' /\ localCntr' <= frameCntr'
    BY DEF Inv, IInv, Counters, declLocalVar
  <1>7. /\ Len(marks) = Len(symbolTable) /\ DOMAIN marks = DOMAIN symbolTable
        /\ \A j \in DOMAIN marks : marks[j] \in Nat /\ marks[j] <= localCntr
    BY <1>2 DEF Inv, IInv, Shape, Depths, ScopeBounds
  <1> HIDE DEF new, top
  <1>8. \A j \in DOMAIN marks : /\ Outermost(j)' <=> Outermost(j)
                                /\ Limit(j)' = IF j = 1 THEN localCntr + num ELSE Limit(j)
    BY <1>4, <1>6 DEF Outermost, Limit
  <1>9. Shape' /\ Depths' /\ Counters'
    BY <1>4, <1>6, GoesOnShape DEF Inv, IInv, Shape, Depths, Counters
  <1>10. ScopeBounds'
    <2>1. ASSUME NEW j \in DOMAIN marks, ~Outermost(j)
          PROVE  /\ IsFiniteSet(DOMAIN symbolTable'[j])
                 /\ Cardinality(DOMAIN symbolTable'[j]) <= Limit(j)' - marks[j]
      <3>1. /\ IsFiniteSet(DOMAIN symbolTable[j])
            /\ Cardinality(DOMAIN symbolTable[j]) <= Limit(j) - marks[j]
        BY <2>1 DEF Inv, IInv, ScopeBounds
      <3>2. CASE j = 1
        <4>1. name \notin DOMAIN top /\ DOMAIN symbolTable'[1] = DOMAIN top \cup {name}
          BY <1>2, <1>4, <1>5
        <4>2. IsFiniteSet(DOMAIN top) /\ Cardinality(DOMAIN top) <= localCntr - marks[1]
          BY <3>1, <3>2 DEF top, Limit
        <4>3. /\ IsFiniteSet(DOMAIN top \cup {name})
              /\ Cardinality(DOMAIN top \cup {name}) = Cardinality(DOMAIN top) + 1
              /\ Cardinality(DOMAIN top) \in Nat
          BY <4>1, <4>2, FS_AddElement, FS_CardinalityType
        <4>4. Cardinality(DOMAIN top) + 1 <= localCntr + num - marks[1]
          BY <4>2, <4>3, <1>6, <1>7, <3>2
        <4>5. Limit(j)' = localCntr + num  BY <1>8, <3>2
        <4>6. symbolTable'[j] = symbolTable'[1] /\ marks[j] = marks[1]  BY <3>2
        <4>7. DOMAIN symbolTable'[j] = DOMAIN top \cup {name}  BY <4>1, <4>6
        <4>8. Cardinality(DOMAIN symbolTable'[j]) <= Limit(j)' - marks[j]
          <5>1. Cardinality(DOMAIN top \cup {name}) <= localCntr + num - marks[1]  BY <4>3, <4>4
          <5>2. Limit(j)' - marks[j] = localCntr + num - marks[1]  BY <4>5, <4>6, <1>6, <1>7, <3>2
          <5>3. Cardinality(DOMAIN symbolTable'[j]) = Cardinality(DOMAIN top \cup {name})  BY <4>7
          <5> QED BY <5>1, <5>2, <5>3
        <4> QED BY <4>3, <4>7, <4>8
      <3>3. CASE j # 1
        <4>1. symbolTable'[j] = symbolTable[j]  BY <1>2, <1>4, <1>7, <3>3
        <4> QED BY <3>1, <3>3, <4>1, <1>8
      <3> QED BY <3>2, <3>3
    <2>2. \A j \in DOMAIN marks : /\ marks[j] \in Nat /\ marks[j] <= localCntr'
                                  /\ \A k \in DOMAIN marks : j <= k => marks[k] <= marks[j]
      BY <1>6, <1>7 DEF Inv, IInv, ScopeBounds
    <2> QED BY <2>1, <2>2, <1>8 DEF ScopeBounds
  <1>11. /\ symbol.offset \in Int /\ symbol.offset >= 0 /\ Words(symbol) \in Nat \ {0}
         /\ symbol.offset - Words(symbol) + 1 = localCntr /\ symbol.offset < localCntr + num
         /\ Slots(symbol) = localCntr .. localCntr + num - 1
    BY <1>6 DEF Slots
  <1>12. ASSUME NEW j \in DOMAIN symbolTable, NEW x \in DOMAIN symbolTable'[j]
         PROVE  \/ j = 1 /\ x = name /\ symbolTable'[j][x] = symbol
                \/ /\ x \in DOMAIN symbolTable[j] /\ symbolTable'[j][x] = symbolTable[j][x]
                   /\ ~(j = 1 /\ x = name)
    <2>1. CASE j = 1  BY <2>1, <1>2, <1>4, <1>5, <1>12 DEF top
    <2>2. CASE j # 1
      <3>1. symbolTable'[j] = symbolTable[j]  BY <1>2, <1>4, <2>2
      <3> QED BY <3>1, <2>2, <1>12
    <2> QED BY <2>1, <2>2
  \* The slots that were there before end below the new ones.
  <1>13. ASSUME NEW j \in DOMAIN symbolTable, NEW x \in DOMAIN symbolTable[j]
         PROVE  LET s == symbolTable[j][x]
                IN  /\ s.offset \in Int /\ Words(s) \in Nat \ {0} /\ s.offset < localCntr
                    /\ \/ Outermost(j) /\ s.offset < 0 /\ Words(s) = 1
                       \/ marks[j] <= s.offset - Words(s) + 1 /\ s.offset < Limit(j)'
    <2> DEFINE s == symbolTable[j][x]
    <2>1. /\ s.offset \in Int /\ Words(s) \in Nat \ {0}
          /\ \/ Outermost(j) /\ s.offset < 0 /\ Words(s) = 1
             \/ marks[j] <= s.offset - Words(s) + 1 /\ s.offset < Limit(j)
      BY DEF Inv, IInv, SymbolBounds
    <2>2. Limit(j) \in Nat /\ Limit(j) <= localCntr /\ Limit(j) <= Limit(j)'
      <3>1. CASE j = 1  BY <3>1, <1>6, <1>7, <1>8 DEF Limit
      <3>2. CASE j # 1
        <4>1. j - 1 \in DOMAIN marks /\ Limit(j) = marks[j - 1] /\ Limit(j)' = Limit(j)
          BY <3>2, <1>2, <1>7, <1>8 DEF Limit
        <4> QED BY <4>1, <1>7
      <3> QED BY <3>1, <3>2
    <2>3. Limit(j)' \in Int  BY <2>2, <1>6, <1>7, <1>8
    <2> HIDE DEF s
    <2>4. s.offset < localCntr  BY <2>1, <2>2, <1>6
    <2>5. marks[j] <= s.offset - Words(s) + 1 /\ s.offset < Limit(j) => s.offset < Limit(j)'
      BY <2>1, <2>2, <2>3
    <2> QED BY <2>1, <2>4, <2>5 DEF s
  <1>14. SymbolBounds'
    <2>1. ASSUME NEW j \in DOMAIN symbolTable, NEW x \in DOMAIN symbolTable'[j]
          PROVE  LET s == symbolTable'[j][x]
                 IN  /\ s.offset \in Int /\ Words(s) \in Nat \ {0}
                     /\ \/ Outermost(j)' /\ s.offset < 0 /\ Words(s) = 1
                        \/ marks'[j] <= s.offset - Words(s) + 1 /\ s.offset < Limit(j)'
      <3>1. CASE j = 1 /\ x = name /\ symbolTable'[j][x] = symbol
        BY <3>1, <1>6, <1>7, <1>8, <1>11
      <3>2. CASE x \in DOMAIN symbolTable[j] /\ symbolTable'[j][x] = symbolTable[j][x]
        BY <3>2, <1>7, <1>8, <1>13
      <3> QED BY <3>1, <3>2, <1>12
    <2> QED BY <2>1, <1>4 DEF SymbolBounds, Words
  <1>15. SymbolsApart'
    <2>1. ASSUME NEW j \in DOMAIN symbolTable, NEW x \in DOMAIN symbolTable[j]
          PROVE  Slots(symbolTable[j][x]) \cap Slots(symbol) = {}
      <3> DEFINE s == symbolTable[j][x]
      <3>1. s.offset \in Int /\ Words(s) \in Nat \ {0} /\ s.offset < localCntr  BY <1>13
      <3> HIDE DEF s
      <3>2. Slots(s) \cap Slots(symbol) = {}  BY <3>1, <1>6, <1>11 DEF Slots
      <3> QED BY <3>2 DEF s
    <2>2. ASSUME NEW j \in DOMAIN symbolTable,
                 NEW x \in DOMAIN symbolTable'[j], NEW y \in DOMAIN symbolTable'[j], x # y
          PROVE  Slots(symbolTable'[j][x]) \cap Slots(symbolTable'[j][y]) = {}
      <3>1. CASE symbolTable'[j][x] = symbol /\ symbolTable'[j][y] # symbol
        BY <3>1, <2>1, <1>12
      <3>2. CASE symbolTable'[j][y] = symbol /\ x \in DOMAIN symbolTable[j] /\ symbolTable'[j][x] = symbolTable[j][x]
        BY <3>2, <2>1
      <3>3. CASE symbolTable'[j][x] = symbol /\ y \in DOMAIN symbolTable[j] /\ symbolTable'[j][y] = symbolTable[j][y]
        BY <3>3, <2>1
      <3>4. CASE /\ x \in DOMAIN symbolTable[j] /\ symbolTable'[j][x] = symbolTable[j][x]
                 /\ y \in DOMAIN symbolTable[j] /\ symbolTable'[j][y] = symbolTable[j][y]
        BY <3>4, <2>2 DEF Inv, IInv, SymbolsApart
      <3> QED BY <3>1, <3>2, <3>3, <3>4, <2>2, <1>12
    <2> QED BY <2>2, <1>4 DEF SymbolsApart, Slots, Words
  <1>16. FrameCovers'
    <2>1. ASSUME NEW i \in DOMAIN ir, ir[i].op = "frameaddr"
          PROVE  ir[i].n < IF ir[i].of \in DOMAIN funcFrameSize THEN funcFrameSize[ir[i].of] ELSE frameCntr'
      BY <2>1, <1>6 DEF Inv, IInv, FrameCovers, Functions
    <2> QED BY <2>1 DEF FrameCovers, SameFunctions
  <1>17. Functions'
    BY <1>2, <1>4 DEF Inv, IInv, Functions, SameFunctions
  <1> QED BY <1>9, <1>10, <1>14, <1>15, <1>16, <1>17 DEF Inv, IInv
-----------------------------------------------------------------------------
(* Scopes                                                                  *)

LEMMA Opened ==
  ASSUME Inv, Len(todo) > 1, NEW ts, startScope(ts), UNCHANGED ir, SameFunctions
  PROVE  Inv'
  <1>1. PICK S : symbolTable \in Seq(S)  BY DEF Inv, Shape
  <1>2. PICK R : todo \in Seq(R)  BY DEF Inv, Shape
  <1>3. /\ Len(todo) \in Nat /\ Tail(todo) \in Seq(R) /\ Len(Tail(todo)) = Len(todo) - 1
    BY <1>2, PopSeq
  <1>4. (\E Q : todo' \in Seq(Q)) /\ Len(todo') = Len(todo) + 1 /\ todo # <<>> /\ todo' # <<>>
    <2>1. <<ts, Rest>> \in Seq({ts, Rest}) /\ Len(<<ts, Rest>>) = 2  OBVIOUS
    <2>2. todo' = <<ts, Rest>> \o Tail(todo)  BY DEF startScope
    <2>3. todo' \in Seq({ts, Rest} \cup R) /\ Len(todo') = 2 + Len(Tail(todo))  BY <2>1, <2>2, <1>3, GrowSeq
    <2> QED BY <2>3, <1>3
  <1>5. /\ Len(symbolTable) = Len(todo) - 1 /\ Len(marks) = Len(symbolTable) /\ Len(symbolTable) > 0
        /\ Len(symbolTable) \in Nat
        /\ DOMAIN symbolTable = 1 .. Len(symbolTable) /\ DOMAIN marks = DOMAIN symbolTable
    BY <1>1, <1>3, <1>4 DEF Inv, IInv, Shape, Depths
  <1>6. /\ (\E Q : symbolTable' \in Seq(Q)) /\ Len(symbolTable') = Len(symbolTable) + 1
        /\ symbolTable'[1] = Empty
        /\ \A j \in DOMAIN symbolTable : symbolTable'[j + 1] = symbolTable[j]
    <2>1. symbolTable' = <<Empty>> \o symbolTable  BY DEF startScope
    <2> DEFINE e == Empty
    <2> HIDE DEF e
    <2>2. /\ <<e>> \o symbolTable \in Seq(S \cup {e}) /\ Len(<<e>> \o symbolTable) = Len(symbolTable) + 1
          /\ (<<e>> \o symbolTable)[1] = e
          /\ \A j \in 1 .. Len(symbolTable) : (<<e>> \o symbolTable)[j + 1] = symbolTable[j]
      BY <1>1, PushSeq
    <2>3. symbolTable' = <<e>> \o symbolTable /\ e = Empty  BY <2>1 DEF e
    <2> QED BY <1>5, <2>2, <2>3
  <1>7. /\ marks' \in Seq(Nat) /\ Len(marks') = Len(marks) + 1
        /\ marks'[1] = localCntr
        /\ \A j \in DOMAIN marks : marks'[j + 1] = marks[j]
    <2>1. localCntr \in Nat /\ marks \in Seq(Nat) /\ marks' = <<localCntr>> \o marks
      BY DEF Inv, IInv, Shape, Counters, startScope
    <2>2. /\ <<localCntr>> \o marks \in Seq(Nat \cup {localCntr}) /\ Nat \cup {localCntr} = Nat
      BY <2>1, PushSeq
    <2> QED BY <2>1, <2>2, <1>5, PushSeq
  <1>8. DOMAIN symbolTable' = 1 .. Len(symbolTable) + 1 /\ DOMAIN marks' = DOMAIN symbolTable'
    BY <1>5, <1>6, <1>7
  <1>9. localCntr \in Nat /\ localCntr' = localCntr  BY DEF Inv, IInv, Counters, startScope
  \* A scope of before lies one further out; what bounds it has not changed.
  <1>10. ASSUME NEW j \in DOMAIN symbolTable', j # 1
         PROVE  /\ j - 1 \in DOMAIN symbolTable
                /\ symbolTable'[j] = symbolTable[j - 1] /\ marks'[j] = marks[j - 1]
                /\ Limit(j)' = Limit(j - 1)
                /\ Outermost(j)' <=> Outermost(j - 1)
    <2>1. j - 1 \in DOMAIN symbolTable /\ j = (j - 1) + 1  BY <1>5, <1>8, <1>10
    <2>2. symbolTable'[j] = symbolTable[j - 1] /\ marks'[j] = marks[j - 1]  BY <2>1, <1>5, <1>6, <1>7
    <2>3. Limit(j)' = marks'[j - 1]  BY <1>10 DEF Limit
    <2>4. Limit(j)' = Limit(j - 1)
      <3>1. CASE j = 2
        <4>1. j - 1 = 1  BY <3>1
        <4> QED BY <2>3, <4>1, <1>7 DEF Limit
      <3>2. CASE j # 2
        <4>1. j - 2 \in DOMAIN marks /\ j - 1 = (j - 2) + 1 /\ (j - 1) - 1 = j - 2 /\ j - 1 # 1
          BY <2>1, <3>2, <1>5
        <4>2. marks'[j - 1] = marks[j - 2]  BY <4>1, <1>7
        <4>3. Limit(j - 1) = marks[j - 2]  BY <4>1 DEF Limit
        <4> QED BY <2>3, <4>2, <4>3
      <3> QED BY <3>1, <3>2
    <2>6. Outermost(j)' <=> Outermost(j - 1)  BY <2>1, <1>5, <1>6, <1>8 DEF Outermost
    <2> QED BY <2>1, <2>2, <2>4, <2>6
  <1>11. Limit(1)' = localCntr /\ ~Outermost(1)' /\ 1 \in DOMAIN symbolTable'
    BY <1>5, <1>6, <1>8, <1>9 DEF Limit, Outermost
  <1>12. DOMAIN Empty = {} /\ IsFiniteSet(DOMAIN Empty) /\ Cardinality(DOMAIN Empty) = 0
    BY FS_EmptySet DEF Empty
  <1>13. Shape' /\ Depths' /\ Counters'
    BY <1>3, <1>4, <1>5, <1>6, <1>7 DEF Inv, IInv, Shape, Depths, Counters, startScope
  <1>14. ScopeBounds'
    <2>1. ASSUME NEW j \in DOMAIN marks'
          PROVE  marks'[j] \in Nat /\ marks'[j] <= localCntr'
      <3>1. CASE j = 1  BY <3>1, <1>7, <1>9
      <3>2. CASE j # 1  BY <3>2, <1>5, <1>8, <1>9, <1>10 DEF Inv, IInv, ScopeBounds
      <3> QED BY <3>1, <3>2
    <2>2. ASSUME NEW j \in DOMAIN marks', NEW k \in DOMAIN marks', j <= k
          PROVE  marks'[k] <= marks'[j]
      <3>1. CASE j = 1  BY <3>1, <2>1, <1>7, <1>9
      <3>2. CASE j # 1
        <4>1. k # 1 /\ j - 1 <= k - 1  BY <3>2, <2>2, <1>5, <1>8
        <4> QED BY <3>2, <4>1, <1>5, <1>8, <1>10 DEF Inv, IInv, ScopeBounds
      <3> QED BY <3>1, <3>2
    <2>3. ASSUME NEW j \in DOMAIN marks', ~Outermost(j)'
          PROVE  /\ IsFiniteSet(DOMAIN symbolTable'[j])
                 /\ Cardinality(DOMAIN symbolTable'[j]) <= Limit(j)' - marks'[j]
      <3>1. CASE j = 1  BY <3>1, <1>6, <1>7, <1>9, <1>11, <1>12
      <3>2. CASE j # 1  BY <3>2, <2>3, <1>5, <1>8, <1>10 DEF Inv, IInv, ScopeBounds
      <3> QED BY <3>1, <3>2
    <2> QED BY <2>1, <2>2, <2>3 DEF ScopeBounds
  <1>15. SymbolBounds'
    <2>1. ASSUME NEW j \in DOMAIN symbolTable', NEW x \in DOMAIN symbolTable'[j]
          PROVE  LET s == symbolTable'[j][x]
                 IN  /\ s.offset \in Int /\ Words(s) \in Nat \ {0}
                     /\ \/ Outermost(j)' /\ s.offset < 0 /\ Words(s) = 1
                        \/ marks'[j] <= s.offset - Words(s) + 1 /\ s.offset < Limit(j)'
      <3>1. j # 1  BY <1>6, <1>12, <2>1
      <3> QED BY <3>1, <1>10 DEF Inv, IInv, SymbolBounds
    <2> QED BY <2>1 DEF SymbolBounds, Words
  <1>16. SymbolsApart'
    <2>1. ASSUME NEW j \in DOMAIN symbolTable',
                 NEW x \in DOMAIN symbolTable'[j], NEW y \in DOMAIN symbolTable'[j], x # y
          PROVE  Slots(symbolTable'[j][x]) \cap Slots(symbolTable'[j][y]) = {}
      <3>1. j # 1  BY <1>6, <1>12, <2>1
      <3> QED BY <3>1, <2>1, <1>10 DEF Inv, IInv, SymbolsApart
    <2> QED BY <2>1 DEF SymbolsApart, Slots, Words
  <1>17. Functions' /\ FrameCovers'
    <2>1. symbolTable # <<>> /\ symbolTable' # <<>>  BY <1>5, <1>6
    <2> QED BY <2>1 DEF Inv, IInv, Functions, FrameCovers, SameFunctions, startScope
  <1> QED BY <1>13, <1>14, <1>15, <1>16, <1>17 DEF Inv, IInv

LEMMA Closed ==
  ASSUME Inv, endScope
  PROVE  Inv'
  <1>1. PICK S : symbolTable \in Seq(S)  BY DEF Inv, Shape
  <1>2. PICK R : todo \in Seq(R)  BY DEF Inv, Shape
  <1>3. /\ Len(todo) \in Nat /\ Len(todo) > 2 /\ todo' \in Seq(R) /\ Len(todo') = Len(todo) - 1
        /\ todo # <<>> /\ todo' # <<>>
    <2>1. Len(todo) \in Nat /\ Len(todo) > 2 /\ Len(todo) > 0 /\ todo' = Tail(todo)
      BY <1>2 DEF endScope
    <2>2. Tail(todo) \in Seq(R) /\ Len(Tail(todo)) = Len(todo) - 1  BY <1>2, <2>1, PopSeq
    <2> QED BY <2>1, <2>2
  <1>4. /\ Len(symbolTable) = Len(todo) - 1 /\ Len(marks) = Len(symbolTable) /\ Len(symbolTable) > 1
        /\ Len(symbolTable) \in Nat
        /\ DOMAIN symbolTable = 1 .. Len(symbolTable) /\ DOMAIN marks = DOMAIN symbolTable
    BY <1>1, <1>3 DEF Inv, IInv, Shape, Depths
  <1>5. /\ symbolTable' \in Seq(S) /\ Len(symbolTable') = Len(symbolTable) - 1
        /\ \A j \in 1 .. Len(symbolTable) - 1 : symbolTable'[j] = symbolTable[j + 1]
        /\ Head(symbolTable) = symbolTable[1]
    BY <1>1, <1>4, PopSeq DEF endScope
  <1>6. /\ marks' \in Seq(Nat) /\ Len(marks') = Len(marks) - 1
        /\ \A j \in 1 .. Len(marks) - 1 : marks'[j] = marks[j + 1]
    BY <1>4, PopSeq DEF endScope, Inv, Shape
  <1>7. DOMAIN symbolTable' = 1 .. Len(symbolTable) - 1 /\ DOMAIN marks' = DOMAIN symbolTable'
    BY <1>4, <1>5, <1>6
  \* What is handed back does not reach into the scopes that stay.
  <1>8. /\ localCntr' \in Nat /\ localCntr' <= localCntr /\ marks[1] <= localCntr'
    <2>1. 1 \in DOMAIN marks /\ ~Outermost(1)  BY <1>4 DEF Outermost
    <2>2. /\ marks[1] \in Nat /\ localCntr \in Nat
          /\ IsFiniteSet(DOMAIN symbolTable[1])
          /\ Cardinality(DOMAIN symbolTable[1]) <= localCntr - marks[1]
      BY <2>1 DEF Inv, IInv, ScopeBounds, Counters, Limit
    <2>3. ScopeSize = Cardinality(DOMAIN symbolTable[1]) /\ ScopeSize \in Nat
      BY <2>2, <1>5, FS_CardinalityType DEF ScopeSize
    <2>4. localCntr' = localCntr - ScopeSize  BY DEF endScope
    <2> QED BY <2>2, <2>3, <2>4
  <1>9. ASSUME NEW j \in DOMAIN symbolTable'
        PROVE  /\ j \in Int /\ j + 1 \in DOMAIN symbolTable
               /\ symbolTable'[j] = symbolTable[j + 1] /\ marks'[j] = marks[j + 1]
               /\ Limit(j)' \in Int /\ Limit(j + 1) \in Int /\ Limit(j + 1) <= Limit(j)'
               /\ Outermost(j)' <=> Outermost(j + 1)
    <2>1. j \in Int /\ 1 <= j /\ j + 1 \in DOMAIN symbolTable /\ (j + 1) - 1 = j /\ j + 1 # 1 /\ j \in DOMAIN marks
      BY <1>4, <1>7
    <2>2. symbolTable'[j] = symbolTable[j + 1] /\ marks'[j] = marks[j + 1]
      BY <1>4, <1>5, <1>6, <1>7
    <2>3. Limit(j + 1) = marks[j] /\ marks[j] \in Nat
      BY <2>1 DEF Limit, Inv, IInv, ScopeBounds
    <2>4. Limit(j)' \in Int /\ marks[j] <= Limit(j)'
      <3>1. CASE j = 1  BY <3>1, <1>8, <2>3 DEF Limit
      <3>2. CASE j # 1
        <4>1. j - 1 \in 1 .. Len(marks) - 1 /\ (j - 1) + 1 = j  BY <3>2, <2>1, <1>4
        <4>2. Limit(j)' = marks[j]  BY <3>2, <4>1, <1>6 DEF Limit
        <4> QED BY <4>2, <2>3
      <3> QED BY <3>1, <3>2
    <2>5. Outermost(j)' <=> Outermost(j + 1)  BY <2>1, <1>4, <1>5 DEF Outermost
    <2> QED BY <2>1, <2>2, <2>3, <2>4, <2>5
  <1>10. Shape' /\ Depths' /\ Counters'
    BY <1>3, <1>4, <1>5, <1>6, <1>8 DEF Inv, IInv, Shape, Depths, Counters, endScope
  <1>11. ScopeBounds'
    <2>1. ASSUME NEW j \in DOMAIN marks'
          PROVE  marks'[j] \in Nat /\ marks'[j] <= localCntr'
      <3>1. marks[j + 1] \in Nat /\ marks[j + 1] <= marks[1] /\ marks[1] \in Nat
        <4>1. 1 \in DOMAIN marks /\ j + 1 \in DOMAIN marks /\ 1 <= j + 1  BY <1>4, <1>7
        <4> QED BY <4>1 DEF Inv, IInv, ScopeBounds
      <3> QED BY <3>1, <1>7, <1>8, <1>9
    <2>2. ASSUME NEW j \in DOMAIN marks', NEW k \in DOMAIN marks', j <= k
          PROVE  marks'[k] <= marks'[j]
      <3>1. j + 1 <= k + 1  BY <2>2, <1>7, <1>9
      <3> QED BY <3>1, <1>4, <1>7, <1>9 DEF Inv, IInv, ScopeBounds
    <2>3. ASSUME NEW j \in DOMAIN marks', ~Outermost(j)'
          PROVE  /\ IsFiniteSet(DOMAIN symbolTable'[j])
                 /\ Cardinality(DOMAIN symbolTable'[j]) <= Limit(j)' - marks'[j]
      <3>1. /\ IsFiniteSet(DOMAIN symbolTable'[j])
            /\ Cardinality(DOMAIN symbolTable'[j]) <= Limit(j + 1) - marks'[j]
        BY <2>3, <1>4, <1>7, <1>9 DEF Inv, IInv, ScopeBounds
      <3>2. Cardinality(DOMAIN symbolTable'[j]) \in Nat  BY <3>1, FS_CardinalityType
      <3> QED BY <3>1, <3>2, <2>1, <1>7, <1>9
    <2> QED BY <2>1, <2>2, <2>3 DEF ScopeBounds
  <1>12. SymbolBounds'
    <2>1. ASSUME NEW j \in DOMAIN symbolTable', NEW x \in DOMAIN symbolTable'[j]
          PROVE  LET s == symbolTable'[j][x]
                 IN  /\ s.offset \in Int /\ Words(s) \in Nat \ {0}
                     /\ \/ Outermost(j)' /\ s.offset < 0 /\ Words(s) = 1
                        \/ marks'[j] <= s.offset - Words(s) + 1 /\ s.offset < Limit(j)'
      <3> DEFINE s == symbolTable'[j][x]
      <3>1. /\ s.offset \in Int /\ Words(s) \in Nat \ {0}
            /\ \/ Outermost(j)' /\ s.offset < 0 /\ Words(s) = 1
               \/ marks'[j] <= s.offset - Words(s) + 1 /\ s.offset < Limit(j + 1)
        BY <1>9 DEF Inv, IInv, SymbolBounds
      <3> HIDE DEF s
      <3>2. s.offset < Limit(j + 1) => s.offset < Limit(j)'  BY <3>1, <1>9
      <3> QED BY <3>1, <3>2 DEF s
    <2> QED BY <2>1 DEF SymbolBounds, Words
  <1>13. SymbolsApart'
    <2>1. ASSUME NEW j \in DOMAIN symbolTable',
                 NEW x \in DOMAIN symbolTable'[j], NEW y \in DOMAIN symbolTable'[j], x # y
          PROVE  Slots(symbolTable'[j][x]) \cap Slots(symbolTable'[j][y]) = {}
      BY <2>1, <1>9 DEF Inv, IInv, SymbolsApart
    <2> QED BY <2>1 DEF SymbolsApart, Slots, Words
  <1>14. Functions' /\ FrameCovers'
    <2>1. symbolTable # <<>> /\ symbolTable' # <<>>  BY <1>4, <1>5
    <2> QED BY <2>1 DEF Inv, IInv, Functions, FrameCovers, endScope, decls
  <1> QED BY <1>10, <1>11, <1>12, <1>13, <1>14 DEF Inv, IInv
-----------------------------------------------------------------------------
(* Functions                                                               *)

\* One parameter in each slot below the frame.
LEMMA ParameterSlots ==
  ASSUME NEW x \in DOMAIN Parameters
  PROVE  \E i \in Nat : /\ i >= 1 /\ node.params[i].name = x
                        /\ Parameters[x].offset = 0 - 2 - i
                        /\ Words(Parameters[x]) = 1
                        /\ Slots(Parameters[x]) = {0 - 2 - i}
  <1> DEFINE n == Len(node.params)
             i == CHOOSE k \in 1 .. n : node.params[k].name = x
             p == Parameters[x]
  <1>1. \E k \in 1 .. n : node.params[k].name = x  BY DEF Parameters
  <1>2. i \in 1 .. n /\ node.params[i].name = x  BY <1>1
  <1>3. i \in Nat /\ i >= 1  BY <1>2
  <1>4. p = [offset |-> 0 - 2 - i, type |-> Scalar(node.params[i].refs, TRUE)]
    BY DEF Parameters
  <1> HIDE DEF i, p
  <1>5. p.offset = 0 - 2 - i /\ Words(p) = 1  BY <1>4 DEF Words, Scalar
  <1>6. Slots(p) = {0 - 2 - i}
    <2>1. (p.offset - Words(p) + 1) = 0 - 2 - i  BY <1>3, <1>5
    <2>2. Slots(p) = (0 - 2 - i) .. (0 - 2 - i)  BY <2>1, <1>5 DEF Slots
    <2> QED BY <2>2, <1>3
  <1> QED BY <1>2, <1>3, <1>5, <1>6 DEF p

LEMMA FunctionStart ==
  ASSUME Inv, visitFuncDef
  PROVE  Inv'
  <1>1. CASE reportError
    BY <1>1, QuietStep DEF reportError, Quiet, SameScopes, SameFunctions, slots, decls
  <1>2. CASE ~reportError
    <2>1. /\ Len(todo) = 1 /\ node.name \notin DOMAIN funcDefined
          /\ currentFunc' = node.name
          /\ funcDefined' = Put(funcDefined, node.name, Func(node))
          /\ localCntr' = 0 /\ frameCntr' = 0
          /\ symbolTable' = <<Parameters>> /\ marks' = <<0>>
          /\ todo' = <<Items, Rest>>
          /\ Emit(<<[Ins("func", node.name, 0) EXCEPT !.of = node.name]>>)
          /\ funcFrameSize' = funcFrameSize
      BY <1>2 DEF visitFuncDef, TopLevel
    <2>2. symbolTable = <<>>  
      <3>1. PICK S : symbolTable \in Seq(S)  BY DEF Inv, Shape
      <3>2. Len(symbolTable) = 0  BY <2>1 DEF Inv, IInv, Depths
      <3> QED BY <3>1, <3>2
    <2>3. DOMAIN funcDefined' = DOMAIN funcDefined \cup {node.name}  BY <2>1 DEF Put
    <2> DEFINE ps == Parameters
               ins == [Ins("func", node.name, 0) EXCEPT !.of = node.name]
    <2>4. ins.op = "func"  BY DEF Ins
    <2> HIDE DEF ps, ins
    <2>5. symbolTable' = <<ps>>  BY <2>1 DEF ps
    <2>6. symbolTable' \in Seq({ps}) /\ Len(symbolTable') = 1 /\ DOMAIN symbolTable' = {1} /\ symbolTable'[1] = ps
      BY <2>5
    <2>7. marks' \in Seq(Nat) /\ Len(marks') = 1 /\ DOMAIN marks' = {1} /\ marks'[1] = 0
      BY <2>1
    <2>8. todo' \in Seq({Items, Rest}) /\ Len(todo') = 2 /\ todo' # <<>>  BY <2>1
    <2>9. PICK S : ir \in Seq(S)  BY DEF Inv, Shape
    <2>10. /\ ir' \in Seq(S \cup {ins}) /\ Len(ir') = Len(ir) + 1
           /\ \A i \in 1 .. Len(ir) : ir'[i] = ir[i]
           /\ ir'[Len(ir) + 1] = ins
      <3>1. <<ins>> \in Seq({ins}) /\ Len(<<ins>>) = 1 /\ <<ins>>[1] = ins /\ ir' = ir \o <<ins>>
        BY <2>1 DEF Emit, ins
      <3> QED BY <2>9, <3>1, GrowSeq
    <2>11. Limit(1)' = 0 /\ Outermost(1)'  BY <2>1, <2>6 DEF Limit, Outermost
    <2>12. Shape' /\ Depths' /\ Counters'
      <3>1. Shape'  BY <2>6, <2>7, <2>8, <2>10 DEF Shape
      <3>2. Depths'  BY <2>6, <2>7, <2>8 DEF Depths
      <3>3. Counters'  BY <2>1 DEF Counters
      <3> QED BY <3>1, <3>2, <3>3
    <2>13. ScopeBounds'  BY <2>1, <2>7, <2>11 DEF ScopeBounds
    <2>14. SymbolBounds'
      <3>1. ASSUME NEW x \in DOMAIN ps
            PROVE  ps[x].offset \in Int /\ ps[x].offset < 0 /\ Words(ps[x]) = 1
        BY ParameterSlots DEF ps
      <3> QED BY <3>1, <2>6, <2>11 DEF SymbolBounds, Words
    <2>15. SymbolsApart'
      <3>1. ASSUME NEW x \in DOMAIN ps, NEW y \in DOMAIN ps, x # y
            PROVE  Slots(ps[x]) \cap Slots(ps[y]) = {}
        <4>1. PICK i \in Nat : node.params[i].name = x /\ Slots(ps[x]) = {0 - 2 - i}
          BY ParameterSlots DEF ps
        <4>2. PICK k \in Nat : node.params[k].name = y /\ Slots(ps[y]) = {0 - 2 - k}
          BY ParameterSlots DEF ps
        <4>3. i # k  BY <3>1, <4>1, <4>2
        <4>4. 0 - 2 - i # 0 - 2 - k  BY <4>3
        <4> QED BY <4>1, <4>2, <4>4
      <3> QED BY <3>1, <2>6 DEF SymbolsApart, Slots, Words
    <2>16. ASSUME NEW i \in DOMAIN ir', ir'[i].op = "frameaddr"
           PROVE  i \in DOMAIN ir /\ ir'[i] = ir[i]
      <3>1. Len(ir) \in Nat /\ i \in 1 .. Len(ir) + 1 /\ DOMAIN ir = 1 .. Len(ir)  BY <2>9, <2>10
      <3>2. i # Len(ir) + 1  BY <2>4, <2>10, <2>16
      <3>3. i \in 1 .. Len(ir)  BY <3>1, <3>2
      <3> QED BY <3>1, <3>3, <2>10
    <2>17. symbolTable' # <<>>  BY <2>6
    <2>18. Functions' /\ FrameCovers'
      BY <2>1, <2>2, <2>3, <2>16, <2>17 DEF Inv, IInv, Functions, FrameCovers
    <2> QED BY <2>12, <2>13, <2>14, <2>15, <2>18 DEF Inv, IInv
  <1> QED BY <1>1, <1>2

LEMMA FunctionEnd ==
  ASSUME Inv, EndFunction
  PROVE  Inv'
  <1>1. PICK S : symbolTable \in Seq(S)  BY DEF Inv, Shape
  <1>2. PICK R : todo \in Seq(R)  BY DEF Inv, Shape
  <1>3. PICK C : ir \in Seq(C)  BY DEF Inv, Shape
  <1>4. /\ Len(todo) = 2 /\ todo' = Tail(todo)
        /\ symbolTable' = Tail(symbolTable) /\ marks' = Tail(marks)
        /\ funcFrameSize' = Put(funcFrameSize, currentFunc, frameCntr)
        /\ Emit(<<Ins("endfunc", currentFunc, 0)>>)
        /\ UNCHANGED <<localCntr, frameCntr, currentFunc, funcDefined>>
    BY DEF EndFunction
  <1>5. todo' \in Seq(R) /\ Len(todo') = 1 /\ todo # <<>> /\ todo' # <<>>
    <2>1. Len(todo) > 0 /\ todo # <<>>  BY <1>4
    <2>2. Tail(todo) \in Seq(R) /\ Len(Tail(todo)) = 1  BY <1>2, <1>4, <2>1, PopSeq
    <2>3. todo' # <<>>
      <3>1. todo' \in Seq(R) /\ Len(todo') = 1  BY <1>4, <2>2
      <3> QED BY ONLY <3>1
    <2> QED BY <1>4, <2>1, <2>2, <2>3
  <1>6. Len(symbolTable) = 1 /\ Len(marks) = 1 /\ symbolTable # <<>>
    BY <1>1, <1>4, <1>5 DEF Inv, IInv, Depths
  <1>7. symbolTable' \in Seq(S) /\ Len(symbolTable') = 0 /\ symbolTable' = <<>> /\ DOMAIN symbolTable' = {}
    BY <1>1, <1>4, <1>6, PopSeq
  <1>8. marks' \in Seq(Nat) /\ Len(marks') = 0 /\ DOMAIN marks' = {}
    <2>1. marks \in Seq(Nat)  BY DEF Inv, Shape
    <2>2. marks' \in Seq(Nat) /\ Len(marks') = 0  BY <1>4, <1>6, <2>1, PopSeq
    <2> QED BY ONLY <2>2
  <1> DEFINE ins == Ins("endfunc", currentFunc, 0)
  <1>9. ins.op = "endfunc"  BY DEF Ins
  <1> HIDE DEF ins
  <1>10. /\ ir' \in Seq(C \cup {ins}) /\ Len(ir') = Len(ir) + 1
         /\ \A i \in 1 .. Len(ir) : ir'[i] = ir[i]
         /\ ir'[Len(ir) + 1] = ins
    <2>1. <<ins>> \in Seq({ins}) /\ Len(<<ins>>) = 1 /\ <<ins>>[1] = ins /\ ir' = ir \o <<ins>>
      BY <1>4 DEF Emit, ins
    <2> QED BY <1>3, <2>1, GrowSeq
  <1>11. ASSUME NEW i \in DOMAIN ir', ir'[i].op = "frameaddr"
         PROVE  i \in DOMAIN ir /\ ir'[i] = ir[i]
    <2>1. Len(ir) \in Nat /\ i \in 1 .. Len(ir) + 1 /\ DOMAIN ir = 1 .. Len(ir)  BY <1>3, <1>10
    <2>2. i # Len(ir) + 1  BY <1>9, <1>10, <1>11
    <2>3. i \in 1 .. Len(ir)  BY <2>1, <2>2
    <2> QED BY <2>1, <2>3, <1>10
  <1>12. /\ currentFunc \in DOMAIN funcDefined /\ currentFunc \notin DOMAIN funcFrameSize
    BY <1>6 DEF Inv, IInv, Functions
  <1>13. /\ DOMAIN funcFrameSize' = DOMAIN funcFrameSize \cup {currentFunc}
         /\ funcFrameSize'[currentFunc] = frameCntr
         /\ \A f \in DOMAIN funcFrameSize : funcFrameSize'[f] = funcFrameSize[f]
    BY <1>4, <1>12 DEF Put
  <1>14. Functions'
    <2>1. \A f \in DOMAIN funcFrameSize' : funcFrameSize'[f] \in Nat
      <3>1. frameCntr \in Nat  BY DEF Inv, IInv, Counters
      <3> QED BY <3>1, <1>13 DEF Inv, IInv, Functions
    <2> QED BY <2>1, <1>4, <1>7, <1>11, <1>12, <1>13 DEF Inv, IInv, Functions
  <1>15. FrameCovers'
    <2>1. ASSUME NEW i \in DOMAIN ir', ir'[i].op = "frameaddr"
          PROVE  ir'[i].of \in DOMAIN funcFrameSize' /\ ir'[i].n < funcFrameSize'[ir'[i].of]
      <3>1. i \in DOMAIN ir /\ ir'[i] = ir[i] /\ ir[i].op = "frameaddr"  BY <2>1, <1>11
      <3>2. CASE ir[i].of \in DOMAIN funcFrameSize
        BY <3>1, <3>2, <1>13 DEF Inv, IInv, FrameCovers
      <3>3. CASE ir[i].of \notin DOMAIN funcFrameSize
        BY <3>1, <3>3, <1>13 DEF Inv, IInv, FrameCovers, Functions
      <3> QED BY <3>2, <3>3
    <2> QED BY <2>1 DEF FrameCovers
  <1>16. Shape' /\ Depths' /\ Counters'
    <2>1. Shape'  BY <1>5, <1>7, <1>8, <1>10 DEF Shape
    <2>2. Depths'  BY <1>5, <1>7, <1>8 DEF Depths
    <2>3. Counters'  BY <1>4 DEF Inv, IInv, Counters
    <2> QED BY <2>1, <2>2, <2>3
  <1>17. ScopeBounds' /\ SymbolBounds' /\ SymbolsApart'
    BY <1>7, <1>8 DEF ScopeBounds, SymbolBounds, SymbolsApart
  <1> QED BY <1>14, <1>15, <1>16, <1>17 DEF Inv, IInv

LEMMA ProgramEnd ==
  ASSUME Inv, EndProgram
  PROVE  Inv'
  <1>1. CASE reportError
    BY <1>1, QuietStep DEF reportError, Quiet, SameScopes, SameFunctions, slots, decls
  <1>2. CASE ~reportError
    <2>1. todo = <<<<>>>> /\ todo' = <<>> /\ UNCHANGED <<slots, decls, ir>>
      BY <1>2 DEF EndProgram
    <2>2. Len(todo) = 1 /\ todo # <<>> /\ todo' \in Seq({})  BY <2>1
    <2>3. Len(symbolTable) = 0 /\ Len(marks) = 0  BY <2>2 DEF Inv, IInv, Depths
    <2>4. Shape' /\ Depths' /\ Counters'
      BY <2>1, <2>2, <2>3 DEF Inv, IInv, Shape, Depths, Counters, slots
    <2>5. ScopeBounds' /\ SymbolBounds' /\ SymbolsApart'
      BY <2>1 DEF Inv, IInv, ScopeBounds, SymbolBounds, SymbolsApart, Limit, Outermost, Words, Slots, slots
    <2>6. Functions' /\ FrameCovers'
      BY <2>1 DEF Inv, IInv, Functions, FrameCovers, slots, decls
    <2> QED BY <2>4, <2>5, <2>6 DEF Inv, IInv
  <1> QED BY <1>1, <1>2
-----------------------------------------------------------------------------
(* The actions                                                             *)

LEMMA Refusal ==
  ASSUME Inv, reportError
  PROVE  Inv'
  BY QuietStep DEF reportError, Quiet, SameScopes, SameFunctions, slots, decls

\* A step that goes on in its scope and appends nothing but what Grown allows.
LEMMA Quietly ==
  ASSUME Inv, Len(todo) > 0, NEW ts, Do(ts), UNCHANGED ir \/ Grown, SameScopes, SameFunctions
  PROVE  Inv'
  <1>1. todo' = <<ts \o Rest>> \o Tail(todo)  BY DEF Do
  <1>2. GoesOn  BY <1>1 DEF GoesOn
  <1> QED BY <1>2, QuietStep DEF Quiet

LEMMA Silently ==
  ASSUME Inv, Len(todo) > 0, NEW ts, Do(ts), UNCHANGED ir, Expression
  PROVE  Inv'
  BY Quietly DEF Expression, SameScopes, SameFunctions, slots, decls

LEMMA Appends ==
  ASSUME Inv, Len(todo) > 0, NEW ts, Do(ts), Expression,
         NEW D, NEW t \in Seq(D), Emit(t),
         \A i \in 1 .. Len(t) : t[i].op # "frameaddr"
  PROVE  Inv'
  <1>1. Grown  BY DEF Grown, Emit
  <1> QED BY <1>1, Quietly DEF Expression, SameScopes, SameFunctions, slots, decls

LEMMA AppendsOne ==
  ASSUME Inv, Len(todo) > 0, NEW ts, Do(ts), Expression,
         NEW op, NEW name, NEW n, op # "frameaddr", Emit(<<Ins(op, name, n)>>)
  PROVE  Inv'
  <1> DEFINE x == Ins(op, name, n)
  <1>1. x.op # "frameaddr"  BY DEF Ins
  <1>2. Emit(<<x>>)  OBVIOUS
  <1> HIDE DEF x
  <1>3. <<x>> \in Seq({x}) /\ \A i \in 1 .. Len(<<x>>) : <<x>>[i].op # "frameaddr"
    BY <1>1
  <1> QED BY <1>2, <1>3, Appends

LEMMA AppendsLoad ==
  ASSUME Inv, Len(todo) > 0, NEW ts, Do(ts), Expression, NEW t, Emit(Load(t))
  PROVE  Inv'
  <1>1. CASE t.lv
    <2>1. Emit(<<Ins("load", "", 0)>>)  BY <1>1 DEF Load
    <2> QED BY <2>1, AppendsOne
  <1>2. CASE ~t.lv
    <2>1. Emit(<<>>)  BY <1>2 DEF Load
    <2>2. <<>> \in Seq({}) /\ \A i \in 1 .. Len(<<>>) : <<>>[i].op # "frameaddr"  OBVIOUS
    <2> QED BY <2>1, <2>2, Appends
  <1> QED BY <1>1, <1>2

\* The address of a slot is taken only inside a function and below frameCntr.
LEMMA TakesAddress ==
  ASSUME Inv, Len(todo) > 0, NEW ts, Do(ts), Expression,
         NEW n \in Int, n < frameCntr, symbolTable # <<>>,
         NEW D, NEW t \in Seq(D), Emit(t),
         \A i \in 1 .. Len(t) : t[i].op = "frameaddr" => t[i] = Ins("frameaddr", "", n)
  PROVE  Inv'
  <1> DEFINE x == Ins("frameaddr", "", n)
  <1>1. x.of = currentFunc /\ x.n = n  BY DEF Ins
  <1> HIDE DEF x
  <1>2. \A i \in 1 .. Len(t) : t[i].op = "frameaddr" => t[i] = x  BY DEF x
  <1>3. Grown  BY <1>1, <1>2 DEF Grown, Emit
  <1> QED BY <1>3, Quietly DEF Expression, SameScopes, SameFunctions, slots, decls

LEMMA InScope ==
  ASSUME Inv, Len(todo) > 1
  PROVE  Len(todo) > 0
  <1>1. PICK R : todo \in Seq(R)  BY DEF Inv, Shape
  <1> QED BY <1>1

LEMMA InFunction ==
  ASSUME Inv, Len(todo) > 1
  PROVE  symbolTable # <<>> /\ 1 \in DOMAIN symbolTable /\ Head(symbolTable) = symbolTable[1]
  <1>1. PICK S : symbolTable \in Seq(S)  BY DEF Inv, Shape
  <1>2. PICK R : todo \in Seq(R)  BY DEF Inv, Shape
  <1>3. Len(symbolTable) = Len(todo) - 1  BY <1>2 DEF Inv, IInv, Depths
  <1> QED BY <1>1, <1>2, <1>3

LEMMA IdentStep ==
  ASSUME Inv, visitPrimIdent
  PROVE  Inv'
  <1>1. Len(todo) > 1 /\ Len(todo) > 0
    <2>1. Len(todo) > 1  BY DEF visitPrimIdent, Visiting, At
    <2> QED BY <2>1, InScope
  <1>2. CASE \E j \in lookup(node.name) :
               LET symbol == symbolTable[j][node.name]
               IN  /\ Emit(<<Ins("frameaddr", "", symbol.offset)>>) /\ Returned(symbol.type, 0)
                   /\ Do(<<>>) /\ Expression
    <2>1. PICK j \in lookup(node.name) :
             /\ Emit(<<Ins("frameaddr", "", symbolTable[j][node.name].offset)>>)
             /\ Do(<<>>) /\ Expression
      BY <1>2
    <2>2. j \in DOMAIN symbolTable /\ node.name \in DOMAIN symbolTable[j]  BY DEF lookup
    <2> DEFINE n == symbolTable[j][node.name].offset
    <2>3. n \in Int /\ (n < 0 \/ n < Limit(j))  BY <2>2 DEF Inv, IInv, SymbolBounds
    <2>4. Limit(j) \in Int /\ Limit(j) <= localCntr
      <3>1. PICK S : symbolTable \in Seq(S)  BY DEF Inv, Shape
      <3>2. DOMAIN marks = 1 .. Len(symbolTable) /\ DOMAIN symbolTable = 1 .. Len(symbolTable)
        BY <3>1 DEF Inv, IInv, Shape, Depths
      <3>3. CASE j = 1  BY <3>3 DEF Limit, Inv, IInv, Counters
      <3>4. CASE j # 1
        <4>1. j - 1 \in DOMAIN marks  BY <3>1, <3>2, <3>4, <2>2
        <4> QED BY <4>1, <3>4 DEF Limit, Inv, IInv, ScopeBounds
      <3> QED BY <3>3, <3>4
    <2>5. localCntr \in Nat /\ frameCntr \in Nat /\ localCntr <= frameCntr  BY DEF Inv, IInv, Counters
    <2> HIDE DEF n
    <2>6. n \in Int /\ n < frameCntr  BY <2>3, <2>4, <2>5
    <2> DEFINE x == Ins("frameaddr", "", n)
    <2>7. Emit(<<x>>)  BY <2>1 DEF n
    <2> HIDE DEF x
    <2>8. <<x>> \in Seq({x}) /\ \A i \in 1 .. Len(<<x>>) : <<x>>[i] = x  OBVIOUS
    <2> QED BY <2>1, <2>6, <2>7, <2>8, <1>1, InFunction, TakesAddress DEF x
  <1>3. CASE Emit(<<Ins("globaladdr", node.name, 0)>>) /\ Do(<<>>) /\ Expression
    BY <1>1, <1>3, AppendsOne
  <1>4. CASE reportError  BY <1>4, Refusal
  <1> QED BY <1>2, <1>3, <1>4 DEF visitPrimIdent

LEMMA InitializeStep ==
  ASSUME Inv, Initialize
  PROVE  Inv'
  <1>1. Len(todo) > 1 /\ Len(todo) > 0
    <2>1. Len(todo) > 1  BY DEF Initialize, At
    <2> QED BY <2>1, InScope
  <1>2. CASE /\ Emit(<<Ins("frameaddr", "", localCntr - 1), Ins("store", "", 0), Ins("pop", "", 0)>>)
             /\ Do(<<>>) /\ Expression
    <2>1. localCntr \in Nat /\ frameCntr \in Nat /\ localCntr <= frameCntr  BY DEF Inv, IInv, Counters
    <2>2. localCntr - 1 \in Int /\ localCntr - 1 < frameCntr  BY <2>1
    <2> DEFINE x == Ins("frameaddr", "", localCntr - 1)
               y == Ins("store", "", 0)
               z == Ins("pop", "", 0)
    <2>3. y.op # "frameaddr" /\ z.op # "frameaddr" /\ Emit(<<x, y, z>>)  BY <1>2 DEF Ins
    <2> HIDE DEF x, y, z
    <2>4. <<x, y, z>> \in Seq({x, y, z}) /\ \A i \in 1 .. Len(<<x, y, z>>) : <<x, y, z>>[i] \in {x, y, z}
      OBVIOUS
    <2>5. \A i \in 1 .. Len(<<x, y, z>>) : <<x, y, z>>[i].op = "frameaddr" => <<x, y, z>>[i] = x
      BY <2>3, <2>4
    <2> QED BY <1>1, <1>2, <2>2, <2>3, <2>4, <2>5, InFunction, TakesAddress DEF x
  <1>3. CASE reportError  BY <1>3, Refusal
  <1> QED BY <1>2, <1>3 DEF Initialize

LEMMA LocalStep ==
  ASSUME Inv, visitDeclLoNaive \/ visitDeclLoArray
  PROVE  Inv'
  <1>1. Len(todo) > 1 /\ Len(todo) > 0
    <2>1. Len(todo) > 1  BY DEF visitDeclLoNaive, visitDeclLoArray, Visiting, At
    <2> QED BY <2>1, InScope
  <1>2. symbolTable # <<>> /\ localCntr \in Nat
    BY <1>1, InFunction DEF Inv, IInv, Counters
  <1>3. CASE visitDeclLoNaive /\ ~reportError
    <2> DEFINE symbol == [offset |-> localCntr, type |-> Scalar(node.refs, TRUE)]
    <2>1. /\ node.name \notin DOMAIN Head(symbolTable)
          /\ Declare(node.name, symbol) /\ declLocalVar(1)
          /\ \E ts : Do(ts)
          /\ UNCHANGED <<ir, marks, decls>>
      BY <1>3 DEF visitDeclLoNaive
    <2>2. GoesOn /\ SameFunctions  BY <1>1, <2>1 DEF GoesOn, Do, SameFunctions, decls
    <2>3. symbol.offset = localCntr + 1 - 1 /\ Words(symbol) = 1  BY <1>2 DEF Words, Scalar
    <2> HIDE DEF symbol
    <2> QED BY <1>2, <2>1, <2>2, <2>3, NewSymbol
  <1>4. CASE visitDeclLoArray /\ ~reportError
    <2> DEFINE type == Dimensions(Scalar(node.refs, TRUE), node.dims)
               num == Head(type.sizes)
               symbol == [offset |-> localCntr' - 1, type |-> type]
    <2>1. /\ node.name \notin DOMAIN Head(symbolTable)
          /\ Fits(type) /\ Declare(node.name, symbol) /\ declLocalVar(num)
          /\ Do(<<>>)
          /\ UNCHANGED <<ir, marks, decls>>
      BY <1>4 DEF visitDeclLoArray
    <2>2. GoesOn /\ SameFunctions  BY <1>1, <2>1 DEF GoesOn, Do, SameFunctions, decls
    <2>3. Words(symbol) = num  BY DEF Words
    <2>4. num \in 1 .. MaxInt  BY <2>1 DEF Fits
    <2>5. localCntr' = localCntr + num /\ symbol.offset = localCntr' - 1  BY <2>1 DEF declLocalVar
    <2> HIDE DEF symbol, num
    <2>7. num \in Nat \ {0}  BY <2>4, MaxIntAssumption
    <2>6. symbol.offset = localCntr + num - 1  BY <1>2, <2>7, <2>5
    <2> QED BY <1>2, <2>1, <2>2, <2>3, <2>6, <2>7, NewSymbol
  <1>5. CASE reportError  BY <1>5, Refusal
  <1> QED BY <1>3, <1>4, <1>5

LEMMA ExpressionStep ==
  ASSUME Inv,
         \/ visitPrimIntLit \/ castToRValue \/ typeCheckInt
         \/ visitExprAssign \/ Assigned \/ visitExprTernary \/ TernaryEnd
         \/ visitBinary \/ Binary \/ visitUnaryOp \/ visitUnaryAddr \/ Deref \/ Ref
         \/ visitUnaryCast \/ Cast \/ visitPfixFCall \/ Argument \/ Call
         \/ visitPfixSubscri \/ Subscript
  PROVE  Inv'
  <1>1. Len(todo) > 1 /\ Len(todo) > 0
    <2>1. Len(todo) > 1
      BY DEF visitPrimIntLit, castToRValue, typeCheckInt, visitExprAssign, Assigned, visitExprTernary,
             TernaryEnd, visitBinary, Binary, visitUnaryOp, visitUnaryAddr, Deref, Ref, visitUnaryCast,
             Cast, visitPfixFCall, Argument, Call, visitPfixSubscri, Subscript, Visiting, At
    <2> QED BY <2>1, InScope
  <1>2. CASE reportError  BY <1>2, Refusal
  <1>3. CASE (\E ts : Do(ts)) /\ UNCHANGED ir /\ Expression  BY <1>1, <1>3, Silently
  <1>4. CASE (\E ts : Do(ts)) /\ (\E t : Emit(Load(t))) /\ Expression  BY <1>1, <1>4, AppendsLoad
  <1>5. CASE /\ \E ts : Do(ts)
             /\ \E op, name, n : op # "frameaddr" /\ Emit(<<Ins(op, name, n)>>)
             /\ Expression
    BY <1>1, <1>5, AppendsOne
  <1>6. CASE visitPrimIntLit  BY <1>2, <1>5, <1>6 DEF visitPrimIntLit
  <1>7. CASE castToRValue  BY <1>4, <1>7 DEF castToRValue
  <1>8. CASE typeCheckInt  BY <1>2, <1>4, <1>8 DEF typeCheckInt
  <1>9. CASE visitExprAssign  BY <1>3, <1>9 DEF visitExprAssign
  <1>10. CASE Assigned  BY <1>2, <1>5, <1>10 DEF Assigned
  <1>11. CASE visitExprTernary
    <2>1. (\E ts : Do(ts)) /\ UNCHANGED <<ir, slots, decls>>  BY <1>11 DEF visitExprTernary
    <2> QED BY <1>1, <2>1, Quietly DEF SameScopes, SameFunctions, slots, decls
  <1>12. CASE TernaryEnd  BY <1>2, <1>3, <1>12 DEF TernaryEnd
  <1>13. CASE visitBinary  BY <1>3, <1>13 DEF visitBinary
  <1>14. CASE Binary
    <2>1. CASE \E s \in Results(node.name, Second, Top) :
                  Do(<<>>) /\ Emit(<<Ins(s.op, "", 0)>>) /\ Returned(s.type, 2) /\ Expression
      <3>1. PICK s \in Results(node.name, Second, Top) : Do(<<>>) /\ Emit(<<Ins(s.op, "", 0)>>) /\ Expression
        BY <2>1
      <3>2. s.op # "frameaddr"
        <4>1. CASE node.name \in IntOps  BY <4>1 DEF Results, IntOps
        <4>2. CASE node.name \in {"eq", "neq"}  BY <4>2 DEF Results, IntOps
        <4>3. CASE node.name \notin IntOps \cup {"eq", "neq"}
          <5>1. s \in Sums(node.name, Second, Top)  BY <4>3 DEF Results
          <5> QED BY <5>1 DEF Sums
        <4> QED BY <4>1, <4>2, <4>3
      <3> QED BY <3>1, <3>2, <1>5
    <2> QED BY <1>2, <1>14, <2>1 DEF Binary
  <1>15. CASE visitUnaryOp  BY <1>3, <1>15 DEF visitUnaryOp
  <1>16. CASE visitUnaryAddr  BY <1>3, <1>16 DEF visitUnaryAddr
  <1>17. CASE Deref  BY <1>2, <1>3, <1>17 DEF Deref
  <1>18. CASE Ref  BY <1>2, <1>3, <1>18 DEF Ref
  <1>19. CASE visitUnaryCast  BY <1>3, <1>19 DEF visitUnaryCast
  <1>20. CASE Cast  BY <1>3, <1>20 DEF Cast
  <1>21. CASE visitPfixFCall  BY <1>2, <1>3, <1>21 DEF visitPfixFCall
  <1>22. CASE Argument  BY <1>2, <1>4, <1>22 DEF Argument
  <1>23. CASE Call  BY <1>5, <1>23 DEF Call
  <1>24. CASE visitPfixSubscri  BY <1>3, <1>24 DEF visitPfixSubscri
  <1>25. CASE Subscript
    <2>1. CASE /\ Emit(<<Ins("push", "", Head(baseType(Second).sizes)), Ins("mul", "", 0), Ins("addpi", "", 0)>>)
               /\ Do(<<>>) /\ Expression
      <3> DEFINE x == Ins("push", "", Head(baseType(Second).sizes))
                 y == Ins("mul", "", 0)
                 z == Ins("addpi", "", 0)
      <3>1. x.op # "frameaddr" /\ y.op # "frameaddr" /\ z.op # "frameaddr"  BY DEF Ins
      <3>2. Emit(<<x, y, z>>)  BY <2>1
      <3> HIDE DEF x, y, z
      <3>3. /\ <<x, y, z>> \in Seq({x, y, z})
            /\ \A i \in 1 .. Len(<<x, y, z>>) : <<x, y, z>>[i].op # "frameaddr"
        BY <3>1
      <3> QED BY <1>1, <2>1, <3>2, <3>3, Appends
    <2> QED BY <1>2, <1>5, <1>25, <2>1 DEF Subscript
  <1> QED BY <1>6, <1>7, <1>8, <1>9, <1>10, <1>11, <1>12, <1>13, <1>14, <1>15, <1>16, <1>17, <1>18,
             <1>19, <1>20, <1>21, <1>22, <1>23, <1>24, <1>25

LEMMA StatementStep ==
  ASSUME Inv,
         \/ Appended \/ Tested \/ DroppedValue \/ visitStmtRet \/ Return \/ visitStmtExpr \/ visitStmtIf \/ Branches
         \/ LoopStack \/ visitStmtWhile \/ visitStmtDo \/ visitStmtJump
  PROVE  Inv'
  <1>1. Len(todo) > 1 /\ Len(todo) > 0
    <2>1. Len(todo) > 1
      BY DEF Appended, Tested, DroppedValue, visitStmtRet, Return, visitStmtExpr, visitStmtIf,
             Branches, LoopStack, visitStmtWhile, visitStmtDo, visitStmtJump, Visiting, At
    <2> QED BY <2>1, InScope
  <1>2. CASE reportError  BY <1>2, Refusal
  <1>3. CASE (\E ts : Do(ts)) /\ UNCHANGED <<ir, slots, decls>>
    BY <1>1, <1>3, Quietly DEF SameScopes, SameFunctions, slots, decls
  <1>4. CASE /\ \E ts : Do(ts)
             /\ \E op, name, n : op # "frameaddr" /\ Emit(<<Ins(op, name, n)>>)
             /\ Expression
    BY <1>1, <1>4, AppendsOne
  <1>5. CASE Appended  BY <1>4, <1>5 DEF Appended, Plain
  <1>6. CASE Tested
    <2>1. CASE \E op \in {"beqz", "bnez"} :
                  Emit(Load(Top) \o <<Ins(op, now.name, now.n)>>) /\ Do(<<>>) /\ Expression
      <3>1. PICK op \in {"beqz", "bnez"} :
               Emit(Load(Top) \o <<Ins(op, now.name, now.n)>>) /\ Do(<<>>) /\ Expression
        BY <2>1
      <3> DEFINE x == Ins("load", "", 0)
                 y == Ins(op, now.name, now.n)
      <3>2. x.op # "frameaddr" /\ y.op # "frameaddr"  BY DEF Ins
      <3> DEFINE u == Load(Top)
      <3>3. u = <<x>> \/ u = <<>>  BY DEF Load
      <3>4. Emit(u \o <<y>>)  BY <3>1
      <3> HIDE DEF x, y, u
      <3>5. u \in Seq({x}) /\ \A i \in 1 .. Len(u) : u[i] = x
        <4>1. CASE u = <<x>>  BY <4>1
        <4>2. CASE u = <<>>  BY <4>2
        <4> QED BY <3>3, <4>1, <4>2
      <3>6. <<y>> \in Seq({y}) /\ Len(<<y>>) = 1 /\ <<y>>[1] = y  OBVIOUS
      <3>7. /\ u \o <<y>> \in Seq({x} \cup {y}) /\ Len(u \o <<y>>) = Len(u) + 1 /\ Len(u) \in Nat
            /\ \A i \in 1 .. Len(u) : (u \o <<y>>)[i] = u[i]
            /\ (u \o <<y>>)[Len(u) + 1] = y
        BY <3>5, <3>6, GrowSeq
      <3>8. ASSUME NEW i \in 1 .. Len(u \o <<y>>)  PROVE (u \o <<y>>)[i].op # "frameaddr"
        <4>1. CASE i \in 1 .. Len(u)  BY <4>1, <3>2, <3>5, <3>7
        <4>2. CASE i = Len(u) + 1  BY <4>2, <3>2, <3>7
        <4> QED BY <4>1, <4>2, <3>7
      <3> QED BY <1>1, <3>1, <3>4, <3>7, <3>8, Appends
    <2> QED BY <1>2, <1>6, <2>1 DEF Tested
  <1>7. CASE DroppedValue  BY <1>4, <1>7 DEF DroppedValue
  <1>8. CASE visitStmtRet  BY <1>3, <1>8 DEF visitStmtRet, Expression
  <1>9. CASE Return  BY <1>2, <1>4, <1>9 DEF Return
  <1>10. CASE visitStmtExpr  BY <1>3, <1>10 DEF visitStmtExpr, Expression
  <1>11. CASE visitStmtIf  BY <1>3, <1>11 DEF visitStmtIf
  <1>12. CASE LoopStack  BY <1>3, <1>12 DEF LoopStack
  <1>13. CASE visitStmtWhile  BY <1>3, <1>13 DEF visitStmtWhile
  <1>14. CASE visitStmtDo  BY <1>3, <1>14 DEF visitStmtDo
  <1>15. CASE visitStmtJump
    <2>1. "br" # "frameaddr"  OBVIOUS
    <2> QED BY <1>2, <1>4, <1>15, <2>1 DEF visitStmtJump
  <1>16. CASE Branches
    <2>1. "beqz" # "frameaddr"  OBVIOUS
    <2> QED BY <1>4, <1>16, <2>1 DEF Branches
  <1> QED BY <1>5, <1>6, <1>7, <1>8, <1>9, <1>10, <1>11, <1>12, <1>13, <1>14, <1>15, <1>16

LEMMA ScopeStep ==
  ASSUME Inv, visitCompoundStatement \/ visitStmtFor
  PROVE  Inv'
  <1>1. Len(todo) > 1  BY DEF visitCompoundStatement, visitStmtFor, Visiting, At
  <1>2. (\E ts : startScope(ts)) /\ UNCHANGED <<ir, decls>>
    BY DEF visitCompoundStatement, visitStmtFor
  <1> QED BY <1>1, <1>2, Opened DEF SameFunctions, decls

LEMMA TopLevelStep ==
  ASSUME Inv, visitDeclGlNaive \/ visitDeclGlArray \/ visitFuncDecl
  PROVE  Inv'
  <1>1. Len(todo) > 0
    <2>1. Len(todo) = 1  BY DEF visitDeclGlNaive, visitDeclGlArray, visitFuncDecl, TopLevel
    <2> QED BY <2>1
  <1>2. CASE reportError  BY <1>2, Refusal
  <1>3. CASE (\E ts : Do(ts)) /\ UNCHANGED <<ir, slots>> /\ SameFunctions
    BY <1>1, <1>3, Quietly DEF SameScopes, slots
  <1>4. CASE visitDeclGlNaive  BY <1>2, <1>3, <1>4 DEF visitDeclGlNaive, Global, SameFunctions
  <1>5. CASE visitDeclGlArray  BY <1>2, <1>3, <1>5 DEF visitDeclGlArray, Global, SameFunctions
  <1>6. CASE visitFuncDecl  BY <1>2, <1>3, <1>6 DEF visitFuncDecl, SameFunctions
  <1> QED BY <1>4, <1>5, <1>6

LEMMA VisitStep ==
  ASSUME Inv, Visit
  PROVE  Inv'
  BY ExpressionStep, IdentStep, StatementStep, InitializeStep, LocalStep, ScopeStep, Closed,
     TopLevelStep, FunctionStart, FunctionEnd, ProgramEnd DEF Visit
-----------------------------------------------------------------------------
(* The theorem                                                             *)

LEMMA InitInv ==
  ASSUME Init
  PROVE  Inv
  <1>1. PICK p : todo = <<p>>  BY DEF Init, VisitorInit
  <1>2. /\ symbolTable = <<>> /\ marks = <<>> /\ ir = <<>> /\ localCntr = 0 /\ frameCntr = 0
        /\ funcFrameSize = Empty
    BY DEF Init, VisitorInit
  <1>3. todo \in Seq({p}) /\ Len(todo) = 1 /\ todo # <<>>  BY <1>1
  <1>4. symbolTable \in Seq({}) /\ marks \in Seq(Nat) /\ ir \in Seq({})  BY <1>2
  <1>5. DOMAIN symbolTable = {} /\ DOMAIN marks = {} /\ DOMAIN ir = {} /\ Len(symbolTable) = 0 /\ Len(marks) = 0
    BY <1>2
  <1>6. Shape  BY <1>3, <1>4 DEF Shape
  <1>7. Counters /\ Depths  BY <1>2, <1>3, <1>5 DEF Counters, Depths
  <1>8. ScopeBounds /\ SymbolBounds /\ SymbolsApart /\ FrameCovers
    BY <1>5 DEF ScopeBounds, SymbolBounds, SymbolsApart, FrameCovers
  <1>9. Functions  BY <1>2, <1>5 DEF Functions, Empty
  <1> QED BY <1>6, <1>7, <1>8, <1>9 DEF Inv, IInv

LEMMA InvSound ==
  ASSUME Inv
  PROVE  FramesSound
  <1>1. PICK S : symbolTable \in Seq(S)  BY DEF Inv, Shape
  <1>2. /\ Len(symbolTable) \in Nat /\ DOMAIN symbolTable = 1 .. Len(symbolTable)
        /\ DOMAIN marks = DOMAIN symbolTable
        /\ localCntr \in Nat /\ frameCntr \in Nat /\ localCntr <= frameCntr
    BY <1>1 DEF Inv, IInv, Shape, Depths, Counters
  <1>3. ASSUME NEW j \in DOMAIN symbolTable
        PROVE  marks[j] \in Nat /\ Limit(j) \in Int /\ Limit(j) <= localCntr
    <2>1. marks[j] \in Nat  BY <1>2 DEF Inv, IInv, ScopeBounds
    <2>2. CASE j = 1  BY <1>2, <2>1, <2>2 DEF Limit
    <2>3. CASE j # 1
      <3>1. j - 1 \in DOMAIN marks  BY <1>2, <2>3
      <3> QED BY <2>1, <2>3, <3>1 DEF Limit, Inv, IInv, ScopeBounds
    <2> QED BY <2>2, <2>3
  \* An inner scope begins where the outer ones end.
  <1>4. ASSUME NEW j \in DOMAIN symbolTable, NEW k \in DOMAIN symbolTable, j < k
        PROVE  Limit(k) <= marks[j] /\ ~Outermost(j)
    <2>1. j \in Int /\ k \in Int /\ k # 1 /\ k - 1 \in DOMAIN marks /\ j <= k - 1  BY <1>2, <1>4
    <2>2. Limit(k) = marks[k - 1]  BY <2>1 DEF Limit
    <2>3. marks[k - 1] <= marks[j]  BY <2>1, <1>2 DEF Inv, IInv, ScopeBounds
    <2>4. ~Outermost(j)  BY <1>2, <1>4, <2>1 DEF Outermost
    <2> QED BY <2>2, <2>3, <2>4
  <1>5. ASSUME NEW j \in DOMAIN symbolTable, NEW x \in DOMAIN symbolTable[j]
        PROVE  LET s == symbolTable[j][x]
               IN  /\ s.offset \in Int /\ Words(s) \in Nat \ {0}
                   /\ \/ Outermost(j) /\ s.offset < 0 /\ Words(s) = 1
                      \/ marks[j] <= s.offset - Words(s) + 1 /\ s.offset < Limit(j)
    BY DEF Inv, IInv, SymbolBounds
  <1>6. ASSUME NEW j \in DOMAIN symbolTable, NEW k \in DOMAIN symbolTable, j < k,
               NEW x \in DOMAIN symbolTable[j], NEW y \in DOMAIN symbolTable[k]
        PROVE  Slots(symbolTable[j][x]) \cap Slots(symbolTable[k][y]) = {}
    <2> DEFINE s == symbolTable[j][x]
               t == symbolTable[k][y]
    <2>1. /\ s.offset \in Int /\ Words(s) \in Nat \ {0} /\ marks[j] <= s.offset - Words(s) + 1
      BY <1>4, <1>5, <1>6
    <2>2. t.offset \in Int /\ (t.offset < 0 \/ t.offset < Limit(k))  BY <1>5
    <2> HIDE DEF s, t
    <2>3. t.offset < marks[j]  BY <2>2, <1>3, <1>4, <1>6
    <2>4. \A a \in Slots(s) : a \in Int /\ marks[j] <= a  BY <2>1, <1>3 DEF Slots
    <2>5. \A a \in Slots(t) : a \in Int /\ a < marks[j]  BY <2>2, <2>3, <1>3 DEF Slots
    <2>6. Slots(s) \cap Slots(t) = {}
      <3>1. ASSUME NEW a \in Slots(s), a \in Slots(t)  PROVE FALSE
        BY <2>4, <2>5, <3>1, <1>3
      <3> QED BY <3>1
    <2> QED BY <2>6 DEF s, t
  <1>7. ASSUME NEW j \in DOMAIN symbolTable, NEW k \in DOMAIN symbolTable,
               NEW x \in DOMAIN symbolTable[j], NEW y \in DOMAIN symbolTable[k], j # k \/ x # y
        PROVE  Slots(symbolTable[j][x]) \cap Slots(symbolTable[k][y]) = {}
    <2>1. CASE j = k  BY <2>1, <1>7 DEF Inv, IInv, SymbolsApart
    <2>2. CASE j < k  BY <2>2, <1>6
    <2>3. CASE k < j
      <3>1. Slots(symbolTable[k][y]) \cap Slots(symbolTable[j][x]) = {}  BY <2>3, <1>6
      <3> QED BY <3>1
    <2>4. j \in Int /\ k \in Int  BY <1>2
    <2> QED BY <2>1, <2>2, <2>3, <2>4
  <1>8. ASSUME NEW j \in DOMAIN symbolTable, NEW x \in DOMAIN symbolTable[j], symbolTable[j][x].offset >= 0
        PROVE  Slots(symbolTable[j][x]) \subseteq 0 .. frameCntr - 1
    <2> DEFINE s == symbolTable[j][x]
    <2>1. /\ s.offset \in Int /\ Words(s) \in Nat \ {0} /\ s.offset >= 0
          /\ marks[j] <= s.offset - Words(s) + 1 /\ s.offset < Limit(j)
      BY <1>5, <1>8
    <2> HIDE DEF s
    <2>2. Slots(s) \subseteq 0 .. frameCntr - 1  BY <2>1, <1>2, <1>3 DEF Slots
    <2> QED BY <2>2 DEF s
  <1> QED BY <1>7, <1>8 DEF FramesSound, SlotsApart, Inv, IInv

\* The invariant holds of every program.
LEMMA InvAlways == Spec => []Inv
  <1>1. Init => Inv  BY InitInv
  <1>2. Inv /\ [Next]_vars => Inv'
    <2> SUFFICES ASSUME Inv, [Next]_vars PROVE Inv'
      OBVIOUS
    <2>1. CASE UNCHANGED visitorVars
      BY <2>1, QuietStep DEF visitorVars, slots, decls, Quiet, SameScopes, SameFunctions
    <2>2. CASE Visit  BY <2>2, VisitStep
    <2> QED BY <2>1, <2>2 DEF Next, Compile, Run, Stop, vars
  <1> QED BY <1>1, <1>2, PTL DEF Spec

\* The compiler never gives two variables that live at the same time the same stack slot, and the
\* frame it makes for a function, whose size it only knows at the end, has room for all of them.
THEOREM SlotsNeverShared == Spec => []FramesSound
  <1>1. Inv => FramesSound  BY InvSound
  <1> QED BY <1>1, InvAlways, PTL DEF Spec
-----------------------------------------------------------------------------
(***************************************************************************)
(* Labels and jumps.  The invariant LInv speaks of what is still to be     *)
(* done as well as of the code: a jump may come long before its label, so  *)
(* it is the task that will append the label that must be there.  The      *)
(* tasks are kept in the order they will be done; of two that bear labels  *)
(* none shares one, an outer loop is left after an inner one, and before   *)
(* the branches of an if, whose number is taken again, come only tasks of  *)
(* its condition, which are expressions.                                   *)
(***************************************************************************)
TernaryLabels == {".elseter", ".endter"}
IfLabels == {".elseif", ".endif"}
LoopLabels == {".begin_loop", ".continue_loop", ".break_loop"}
LoopTasks == {"enter", "leave"}

SameLabel(t, u) == t.name = u.name /\ t.n = u.n

Entries(l) == {l[i] : i \in DOMAIN l}
Pending == UNION {Entries(todo[j]) : j \in DOMAIN todo}

\* What may come before the branches of an if: the tasks of its condition.
InCondition(t) ==
  /\ t.do \notin LoopTasks \cup {"if"}
  /\ t.do = "visit" => t.node \in Expressions
  /\ t.do = "label" => t.name \notin IfLabels

\* Task t comes before task u.
Apart(t, u) ==
  /\ t.do = "label" /\ u.do = "label" => ~SameLabel(t, u)
  /\ t.do \in LoopTasks /\ u.do \in LoopTasks =>
        t.n > u.n \/ (t.do = "enter" /\ u.do = "leave" /\ t.n = u.n)
  /\ u.do = "if" => InCondition(t)

Ordered(l) == \A i, k \in DOMAIN l : i < k => Apart(l[i], l[k])

InOrder ==
  /\ \A j \in DOMAIN todo : Ordered(todo[j])
  /\ \A j, k \in DOMAIN todo : j < k => \A t \in Entries(todo[j]), u \in Entries(todo[k]) : Apart(t, u)

\* The number of a label has been given out.
InUse(t, ifs, loops) ==
  \/ t.name \in LoopLabels /\ t.n \in Nat /\ t.n < loops
  \/ t.name \in TernaryLabels \cup IfLabels /\ t.n \in Nat /\ t.n <= ifs
Numbered(t) == InUse(t, labelCntr, loopCntr)

\* The label is there, or will be.
Has(tasks, name, n) == \E u \in tasks : u.do = "label" /\ u.name = name /\ u.n = n
Lands(name, n) ==
  \/ Has(Pending, name, n)
  \/ \E k \in DOMAIN ir : ir[k].op = "label" /\ ir[k].name = name /\ ir[k].n = n /\ ir[k].of = currentFunc

Defined(t) == \E k \in DOMAIN ir : ir[k].op = "label" /\ SameLabel(ir[k], t)

TaskSound(t) ==
  /\ t.do \in {"visit", "if"} => t.node \in Nodes
  /\ t.do = "label" => Numbered(t) /\ ~Defined(t)
  /\ t.do \in Jumps => Lands(t.name, t.n)
  /\ t.do \in LoopTasks => t.n \in Nat /\ t.n < loopCntr /\ Lands(".continue_loop", t.n) /\ Lands(".break_loop", t.n)
  /\ t.do = "enter" => \E u \in Pending : u.do = "leave" /\ u.n = t.n
  /\ t.do = "if" => /\ \A u \in Pending : u.do = "label" /\ u.name \in IfLabels => u.n < labelCntr
                    /\ \A k \in DOMAIN ir : ir[k].op = "label" /\ ir[k].name \in IfLabels => ir[k].n < labelCntr

TasksSound == \A t \in Pending : TaskSound(t)

LabelsSound ==
  /\ \A i \in DOMAIN ir : ir[i].op = "label" => Numbered(ir[i])
  /\ \A i, k \in DOMAIN ir : ir[i].op = "label" /\ ir[k].op = "label" /\ SameLabel(ir[i], ir[k]) => i = k

JumpsSound ==
  \A i \in DOMAIN ir : ir[i].op \in Jumps =>
    \/ \E k \in DOMAIN ir : ir[k].op = "label" /\ SameLabel(ir[k], ir[i]) /\ ir[k].of = ir[i].of
    \/ ir[i].of = currentFunc /\ Has(Pending, ir[i].name, ir[i].n)

\* The visitor is in the statement of loop n.
Inside(n) == /\ \E t \in Pending : t.do = "leave" /\ t.n = n
             /\ \A t \in Pending : t.do = "enter" => t.n # n

LoopsSound ==
  /\ \A i, k \in DOMAIN loopStack : i < k => loopStack[i] > loopStack[k]
  /\ \A n \in Entries(loopStack) : Inside(n)
  /\ \A t \in Pending : t.do = "leave" /\ Inside(t.n) => t.n \in Entries(loopStack)

TopSound == todo # <<>> => \A t \in Entries(todo[Len(todo)]) : t.do = "visit"

IsSeq(l) == \E S : l \in Seq(S)
LShape ==
  /\ IsSeq(todo) /\ \A j \in DOMAIN todo : IsSeq(todo[j])
  /\ IsSeq(ir)
  /\ labelCntr \in Nat /\ loopCntr \in Nat /\ loopStack \in Seq(Nat)

Sound == LabelsSound /\ TasksSound /\ JumpsSound /\ LoopsSound
LInv == LShape /\ InOrder /\ TopSound /\ Sound
-----------------------------------------------------------------------------
\* The tasks of two lists end to end.
LEMMA JoinSeq ==
  ASSUME NEW S, NEW l \in Seq(S), NEW D, NEW m \in Seq(D)
  PROVE  /\ l \o m \in Seq(S \cup D)
         /\ Entries(l \o m) = Entries(l) \cup Entries(m)
         /\ DOMAIN (l \o m) = 1 .. Len(l) + Len(m)
         /\ Len(l) \in Nat /\ Len(m) \in Nat
  <1>1. /\ l \o m \in Seq(S \cup D) /\ Len(l \o m) = Len(l) + Len(m)
        /\ \A i \in 1 .. Len(l) : (l \o m)[i] = l[i]
        /\ \A i \in 1 .. Len(m) : (l \o m)[Len(l) + i] = m[i]
    BY GrowSeq
  <1>2. /\ DOMAIN l = 1 .. Len(l) /\ DOMAIN m = 1 .. Len(m) /\ Len(l) \in Nat /\ Len(m) \in Nat
        /\ DOMAIN (l \o m) = 1 .. Len(l) + Len(m)
    BY <1>1
  <1>3. ASSUME NEW i \in DOMAIN (l \o m)  PROVE (l \o m)[i] \in Entries(l) \cup Entries(m)
    <2>1. CASE i \in 1 .. Len(l)  BY <2>1, <1>1, <1>2 DEF Entries
    <2>2. CASE i \notin 1 .. Len(l)
      <3>1. i - Len(l) \in 1 .. Len(m) /\ i = Len(l) + (i - Len(l))  BY <2>2, <1>2
      <3> QED BY <3>1, <1>1, <1>2 DEF Entries
    <2> QED BY <2>1, <2>2
  <1>4. ASSUME NEW i \in DOMAIN l  PROVE l[i] \in Entries(l \o m)
    <2>1. i \in DOMAIN (l \o m) /\ (l \o m)[i] = l[i]  BY <1>1, <1>2
    <2> QED BY <2>1 DEF Entries
  <1>5. ASSUME NEW i \in DOMAIN m  PROVE m[i] \in Entries(l \o m)
    <2>1. Len(l) + i \in DOMAIN (l \o m) /\ (l \o m)[Len(l) + i] = m[i]  BY <1>1, <1>2
    <2> QED BY <2>1 DEF Entries
  <1>6. Entries(l \o m) = Entries(l) \cup Entries(m)
    BY <1>3, <1>4, <1>5 DEF Entries
  <1> QED BY <1>1, <1>2, <1>6

\* Two lists end to end.
LEMMA JoinLists ==
  ASSUME NEW a, IsSeq(a), NEW b, IsSeq(b)
  PROVE  IsSeq(a \o b) /\ Entries(a \o b) = Entries(a) \cup Entries(b)
  <1>1. PICK S : a \in Seq(S)  BY DEF IsSeq
  <1>2. PICK D : b \in Seq(D)  BY DEF IsSeq
  <1>3. a \o b \in Seq(S \cup D) /\ Entries(a \o b) = Entries(a) \cup Entries(b)
    BY <1>1, <1>2, JoinSeq
  <1> QED BY <1>3 DEF IsSeq

\* Two ordered lists, every task of the first apart from those of the second.
LEMMA JoinOrdered ==
  ASSUME NEW l, IsSeq(l), NEW m, IsSeq(m), Ordered(l), Ordered(m),
         \A t \in Entries(l), u \in Entries(m) : Apart(t, u)
  PROVE  Ordered(l \o m)
  <1>1. PICK S, D : l \in Seq(S) /\ m \in Seq(D)  BY DEF IsSeq
  <1>2. /\ l \o m \in Seq(S \cup D) /\ Len(l \o m) = Len(l) + Len(m)
        /\ \A i \in 1 .. Len(l) : (l \o m)[i] = l[i]
        /\ \A i \in 1 .. Len(m) : (l \o m)[Len(l) + i] = m[i]
    BY <1>1, GrowSeq
  <1>3. /\ DOMAIN l = 1 .. Len(l) /\ DOMAIN m = 1 .. Len(m) /\ Len(l) \in Nat /\ Len(m) \in Nat
        /\ DOMAIN (l \o m) = 1 .. Len(l) + Len(m)
    BY <1>1, <1>2
  <1>4. ASSUME NEW i \in DOMAIN (l \o m), NEW k \in DOMAIN (l \o m), i < k
        PROVE  Apart((l \o m)[i], (l \o m)[k])
    <2>1. CASE k \in 1 .. Len(l)
      <3>1. i \in 1 .. Len(l)  BY <2>1, <1>3, <1>4
      <3> QED BY <2>1, <3>1, <1>2, <1>3, <1>4 DEF Ordered
    <2>2. CASE i \in 1 .. Len(l) /\ k \notin 1 .. Len(l)
      <3>1. k - Len(l) \in 1 .. Len(m) /\ k = Len(l) + (k - Len(l))  BY <2>2, <1>3
      <3>2. (l \o m)[k] \in Entries(m) /\ (l \o m)[i] \in Entries(l)  BY <3>1, <2>2, <1>2, <1>3 DEF Entries
      <3> QED BY <3>2
    <2>3. CASE i \notin 1 .. Len(l) /\ k \notin 1 .. Len(l)
      <3>1. /\ k - Len(l) \in 1 .. Len(m) /\ k = Len(l) + (k - Len(l))
            /\ i - Len(l) \in 1 .. Len(m) /\ i = Len(l) + (i - Len(l))
            /\ i - Len(l) < k - Len(l)
        BY <2>3, <1>3, <1>4
      <3>2. (l \o m)[k] = m[k - Len(l)] /\ (l \o m)[i] = m[i - Len(l)]  BY <3>1, <1>2
      <3> QED BY <3>1, <3>2, <1>3 DEF Ordered
    <2> QED BY <2>1, <2>2, <2>3
  <1> QED BY <1>4 DEF Ordered

\* A list without its first task.
LEMMA RestSeq ==
  ASSUME NEW S, NEW l \in Seq(S), l # <<>>
  PROVE  /\ Tail(l) \in Seq(S)
         /\ Entries(l) = {Head(l)} \cup Entries(Tail(l))
         /\ Ordered(l) => Ordered(Tail(l)) /\ \A u \in Entries(Tail(l)) : Apart(Head(l), u)
  <1>1. Len(l) \in Nat /\ Len(l) > 0 /\ DOMAIN l = 1 .. Len(l)  OBVIOUS
  <1>2. /\ Tail(l) \in Seq(S) /\ Len(Tail(l)) = Len(l) - 1 /\ Head(l) = l[1]
        /\ \A i \in 1 .. Len(l) - 1 : Tail(l)[i] = l[i + 1]
        /\ DOMAIN Tail(l) = 1 .. Len(l) - 1
    BY <1>1, PopSeq
  <1>3. ASSUME NEW i \in DOMAIN l  PROVE l[i] \in {Head(l)} \cup Entries(Tail(l))
    <2>1. CASE i = 1  BY <2>1, <1>2
    <2>2. CASE i # 1
      <3>1. i - 1 \in DOMAIN Tail(l) /\ Tail(l)[i - 1] = l[i]  BY <2>2, <1>1, <1>2
      <3> QED BY <3>1 DEF Entries
    <2> QED BY <2>1, <2>2
  <1>4. ASSUME NEW i \in DOMAIN Tail(l)  PROVE Tail(l)[i] \in Entries(l) /\ i + 1 \in DOMAIN l /\ Tail(l)[i] = l[i + 1]
    <2>1. i + 1 \in DOMAIN l /\ Tail(l)[i] = l[i + 1]  BY <1>1, <1>2
    <2> QED BY <2>1 DEF Entries
  <1>5. 1 \in DOMAIN l /\ Head(l) \in Entries(l)  BY <1>1, <1>2 DEF Entries
  <1>6. Entries(l) = {Head(l)} \cup Entries(Tail(l))
    BY <1>3, <1>4, <1>5 DEF Entries
  <1>7. ASSUME Ordered(l)  PROVE Ordered(Tail(l)) /\ \A u \in Entries(Tail(l)) : Apart(Head(l), u)
    <2>1. ASSUME NEW i \in DOMAIN Tail(l), NEW k \in DOMAIN Tail(l), i < k
          PROVE  Apart(Tail(l)[i], Tail(l)[k])
      <3>1. i + 1 < k + 1  BY <2>1, <1>2, <1>1
      <3> QED BY <3>1, <1>4, <1>7 DEF Ordered
    <2>2. ASSUME NEW i \in DOMAIN Tail(l)  PROVE Apart(Head(l), Tail(l)[i])
      <3>1. 1 < i + 1  BY <1>2, <1>1
      <3> QED BY <3>1, <1>2, <1>4, <1>5, <1>7 DEF Ordered
    <2> QED BY <2>1, <2>2 DEF Ordered, Entries
  <1> QED BY <1>2, <1>6, <1>7
-----------------------------------------------------------------------------
Outer == UNION {Entries(todo[j]) : j \in 2 .. Len(todo)}
Later == Entries(Rest) \cup Outer

\* The innermost scope is replaced by the scopes of front.
LEMMA Fronted ==
  ASSUME LShape, InOrder, TopSound, todo # <<>>,
         NEW front, IsSeq(front), todo' = front \o Tail(todo),
         Len(todo) = 1 => front = <<>> \/ \A t \in Entries(front[Len(front)]) : t.do = "visit",
         \A j \in DOMAIN front : IsSeq(front[j]) /\ Ordered(front[j]),
         \A j, k \in DOMAIN front : j < k => \A t \in Entries(front[j]), u \in Entries(front[k]) : Apart(t, u),
         \A j \in DOMAIN front : \A t \in Entries(front[j]), u \in Outer : Apart(t, u)
  PROVE  /\ IsSeq(todo') /\ \A j \in DOMAIN todo' : IsSeq(todo'[j])
         /\ InOrder' /\ TopSound'
         /\ Pending' = (UNION {Entries(front[j]) : j \in DOMAIN front}) \cup Outer
  <1>1. PICK S : todo \in Seq(S)  BY DEF LShape, IsSeq
  <1>2. PICK D : front \in Seq(D)  BY DEF IsSeq
  <1>3. Len(todo) \in Nat /\ Len(todo) > 0 /\ DOMAIN todo = 1 .. Len(todo)  BY <1>1
  <1>4. /\ Tail(todo) \in Seq(S) /\ Len(Tail(todo)) = Len(todo) - 1
        /\ \A i \in 1 .. Len(todo) - 1 : Tail(todo)[i] = todo[i + 1]
    BY <1>1, <1>3, PopSeq
  <1> DEFINE f == Len(front)
             n == Len(todo)
  <1>5. /\ todo' \in Seq(D \cup S) /\ Len(todo') = f + (n - 1)
        /\ \A i \in 1 .. f : todo'[i] = front[i]
        /\ \A i \in 1 .. n - 1 : todo'[f + i] = Tail(todo)[i]
    <2>1. /\ front \o Tail(todo) \in Seq(D \cup S) /\ Len(front \o Tail(todo)) = Len(front) + Len(Tail(todo))
          /\ \A i \in 1 .. Len(front) : (front \o Tail(todo))[i] = front[i]
          /\ \A i \in 1 .. Len(Tail(todo)) : (front \o Tail(todo))[Len(front) + i] = Tail(todo)[i]
      BY <1>2, <1>4, GrowSeq
    <2> QED BY <2>1, <1>4
  <1>6. f \in Nat /\ DOMAIN front = 1 .. f /\ n \in Nat /\ n > 0 /\ DOMAIN todo' = 1 .. f + (n - 1)
    BY <1>2, <1>3, <1>5
  <1> HIDE DEF f, n
  <1>7. ASSUME NEW i \in DOMAIN todo'
        PROVE  \/ i \in DOMAIN front /\ todo'[i] = front[i]
               \/ i > f /\ i - f + 1 \in 2 .. n /\ todo'[i] = todo[i - f + 1]
    <2>1. CASE i \in 1 .. f  BY <2>1, <1>5, <1>6
    <2>2. CASE i \notin 1 .. f
      <3>1. i > f /\ i - f \in 1 .. n - 1 /\ i = f + (i - f)  BY <2>2, <1>6
      <3>2. todo'[i] = Tail(todo)[i - f] /\ Tail(todo)[i - f] = todo[i - f + 1]  BY <3>1, <1>4, <1>5 DEF n
      <3> QED BY <3>1, <3>2, <1>6
    <2> QED BY <2>1, <2>2
  <1>8. ASSUME NEW i \in 2 .. n  PROVE f + (i - 1) \in DOMAIN todo' /\ todo'[f + (i - 1)] = todo[i]
    <2>1. i - 1 \in 1 .. n - 1 /\ i - 1 + 1 = i /\ f + (i - 1) \in DOMAIN todo'  BY <1>6
    <2> QED BY <2>1, <1>4, <1>5 DEF n
  <1>9. \A j \in 2 .. n : j \in DOMAIN todo  BY <1>3 DEF n
  <1>10. \A j \in 2 .. n : Entries(todo[j]) \subseteq Outer  BY DEF Outer, n
  <1>11. IsSeq(todo') /\ \A j \in DOMAIN todo' : IsSeq(todo'[j])
    <2>1. IsSeq(todo')  BY <1>5 DEF IsSeq
    <2> QED BY <2>1, <1>7, <1>9 DEF LShape
  <1>12. Pending' = (UNION {Entries(front[j]) : j \in DOMAIN front}) \cup Outer
    <2>1. Pending' = UNION {Entries(todo'[j]) : j \in DOMAIN todo'}  BY DEF Pending, Entries
    <2>2. ASSUME NEW j \in DOMAIN todo', NEW t \in Entries(todo'[j])
          PROVE  t \in (UNION {Entries(front[k]) : k \in DOMAIN front}) \cup Outer
      BY <1>7, <1>10
    <2>3. ASSUME NEW j \in DOMAIN front, NEW t \in Entries(front[j])  PROVE t \in Pending'
      <3>1. j \in DOMAIN todo' /\ todo'[j] = front[j]  BY <1>5, <1>6
      <3> QED BY <2>1, <3>1
    <2>4. ASSUME NEW j \in 2 .. n, NEW t \in Entries(todo[j])  PROVE t \in Pending'
      BY <2>1, <1>8
    <2>5. Pending' \subseteq (UNION {Entries(front[k]) : k \in DOMAIN front}) \cup Outer  BY <2>1, <2>2
    <2>6. UNION {Entries(front[k]) : k \in DOMAIN front} \subseteq Pending'  BY <2>3
    <2>7. Outer \subseteq Pending'  BY <2>4 DEF Outer, n
    <2> QED BY <2>5, <2>6, <2>7
  <1>13. \A j \in DOMAIN todo' : Ordered(todo'[j])
    BY <1>7, <1>9 DEF InOrder
  <1>14. ASSUME NEW j \in DOMAIN todo', NEW k \in DOMAIN todo', j < k,
                NEW t \in Entries(todo'[j]), NEW u \in Entries(todo'[k])
         PROVE  Apart(t, u)
    <2>1. j \in Int /\ k \in Int  BY <1>6
    <2>2. CASE j \in DOMAIN front /\ todo'[j] = front[j] /\ k \in DOMAIN front /\ todo'[k] = front[k]
      BY <1>14, <2>2
    <2>3. CASE j \in DOMAIN front /\ todo'[j] = front[j] /\ k - f + 1 \in 2 .. n /\ todo'[k] = todo[k - f + 1]
      <3>1. u \in Outer  BY <2>3, <1>10
      <3> QED BY <2>3, <3>1
    <2>4. CASE /\ j > f /\ j - f + 1 \in 2 .. n /\ todo'[j] = todo[j - f + 1]
               /\ k - f + 1 \in 2 .. n /\ todo'[k] = todo[k - f + 1]
      <3>1. j - f + 1 < k - f + 1  BY <1>14, <2>1, <1>6
      <3> QED BY <3>1, <2>4, <1>9 DEF InOrder
    <2>5. CASE j > f /\ k \in DOMAIN front
      BY <2>5, <2>1, <1>6, <1>14
    <2> QED BY <2>2, <2>3, <2>4, <2>5, <1>7
  <1>15. InOrder'
    <2>1. InOrder' <=> /\ \A j \in DOMAIN todo' : Ordered(todo'[j])
                       /\ \A j, k \in DOMAIN todo' : j < k => \A t \in Entries(todo'[j]), u \in Entries(todo'[k]) : Apart(t, u)
      BY DEF InOrder, Ordered, Entries, Apart, SameLabel, InCondition
    <2> QED BY <2>1, <1>13, <1>14
  <1>16. TopSound'
    <2>1. TopSound' <=> (todo' # <<>> => \A t \in Entries(todo'[Len(todo')]) : t.do = "visit")
      BY DEF TopSound, Entries
    <2>2. CASE n > 1
      <3>1. n \in 2 .. n /\ Len(todo') = f + (n - 1)  BY <2>2, <1>5, <1>6 DEF n, f
      <3>2. todo'[Len(todo')] = todo[Len(todo)]  BY <3>1, <1>8 DEF n
      <3> QED BY <2>1, <3>2 DEF TopSound
    <2>3. CASE n = 1 /\ front = <<>>
      <3>1. Len(todo') = 0  BY <2>3, <1>5 DEF f, n
      <3>2. todo' = <<>>  BY <3>1, <1>5
      <3> QED BY <2>1, <3>2
    <2>4. CASE n = 1 /\ front # <<>>
      <3>1. f > 0 /\ Len(todo') = f /\ f \in 1 .. f  BY <2>4, <1>2, <1>5, <1>6 DEF f, n
      <3>2. todo'[Len(todo')] = front[Len(front)]  BY <3>1, <1>5 DEF f
      <3> QED BY <2>1, <2>4, <3>2 DEF n
    <2> QED BY <2>2, <2>3, <2>4, <1>6
  <1> QED BY <1>11, <1>12, <1>15, <1>16

\* The task at hand comes before all others.
LEMMA FirstTask ==
  ASSUME LShape, InOrder, todo # <<>>, Head(todo) # <<>>
  PROVE  /\ IsSeq(Rest) /\ Ordered(Rest)
         /\ Pending = {now} \cup Later
         /\ \A u \in Later : Apart(now, u)
         /\ \A t \in Entries(Rest), u \in Outer : Apart(t, u)
  <1>1. PICK S : todo \in Seq(S)  BY DEF LShape, IsSeq
  <1>2. Len(todo) \in Nat /\ Len(todo) > 0 /\ DOMAIN todo = 1 .. Len(todo) /\ Head(todo) = todo[1] /\ 1 \in DOMAIN todo
    BY <1>1
  <1>3. PICK D : Head(todo) \in Seq(D)  BY <1>2 DEF LShape, IsSeq
  <1>4. /\ Rest \in Seq(D)
        /\ Entries(Head(todo)) = {now} \cup Entries(Rest)
        /\ Ordered(Head(todo)) => Ordered(Rest) /\ \A u \in Entries(Rest) : Apart(now, u)
    BY <1>3, RestSeq DEF Rest, now
  <1>5. Ordered(Head(todo))  BY <1>2 DEF InOrder
  <1>6. Pending = Entries(Head(todo)) \cup Outer
    <2>1. ASSUME NEW j \in DOMAIN todo  PROVE j = 1 \/ j \in 2 .. Len(todo)  BY <1>2
    <2>2. \A j \in 2 .. Len(todo) : j \in DOMAIN todo  BY <1>2
    <2> QED BY <2>1, <2>2, <1>2 DEF Pending, Outer
  <1>7. ASSUME NEW t \in Entries(Head(todo)), NEW u \in Outer  PROVE Apart(t, u)
    <2>1. PICK j \in 2 .. Len(todo) : u \in Entries(todo[j])  BY DEF Outer
    <2>2. j \in DOMAIN todo /\ 1 < j  BY <1>2, <2>1
    <2> QED BY <2>1, <2>2, <1>2 DEF InOrder
  <1>8. \A u \in Later : Apart(now, u)  BY <1>4, <1>5, <1>7 DEF Later
  <1>9. \A t \in Entries(Rest), u \in Outer : Apart(t, u)  BY <1>4, <1>7
  <1>10. Pending = {now} \cup Later  BY <1>4, <1>6 DEF Later
  <1>11. IsSeq(Rest)  BY <1>4 DEF IsSeq
  <1> QED BY <1>4, <1>5, <1>8, <1>9, <1>10, <1>11
-----------------------------------------------------------------------------
Unused(t) == ~Defined(t) /\ \A u \in Pending : u.do = "label" => ~SameLabel(t, u)

FreshTask(t, tasks) ==
  /\ t.do \in {"visit", "if"} => t.node \in Nodes
  /\ t.do = "label" => InUse(t, labelCntr', loopCntr') /\ Unused(t)
  /\ t.do \in Jumps => Has(tasks, t.name, t.n)
  /\ t.do \in LoopTasks => /\ t.n \in Nat /\ loopCntr <= t.n /\ t.n < loopCntr'
                           /\ Has(tasks, ".continue_loop", t.n) /\ Has(tasks, ".break_loop", t.n)
  /\ t.do = "enter" => \E u \in tasks : u.do = "leave" /\ u.n = t.n
  /\ t.do = "leave" => \E u \in tasks : u.do = "enter" /\ u.n = t.n
  /\ t.do = "if" => labelCntr < labelCntr' /\ \A u \in tasks : u.do = "label" => u.name \notin IfLabels

Counted == /\ labelCntr' \in Nat /\ loopCntr' \in Nat
           /\ labelCntr <= labelCntr' /\ loopCntr <= loopCntr'

NewCode(is, tasks) ==
  /\ IsSeq(is)
  /\ \A i \in DOMAIN is : is[i].op = "label" =>
        now.do = "label" /\ SameLabel(is[i], now) /\ is[i].of = currentFunc
  /\ \A i \in DOMAIN is : is[i].op \in Jumps =>
        is[i].of = currentFunc /\ (Lands(is[i].name, is[i].n) \/ Has(tasks, is[i].name, is[i].n))
  /\ \A i, k \in DOMAIN is : is[i].op = "label" /\ is[k].op = "label" => i = k
  /\ now.do = "label" => \E i \in DOMAIN is : is[i].op = "label"

\* The task at hand is replaced by others, and code is appended.
Moved(is, tasks) ==
  /\ todo # <<>> /\ Head(todo) # <<>>
  /\ Counted /\ UNCHANGED <<currentFunc, loopStack>>
  /\ ir' = ir \o is /\ NewCode(is, tasks)
  /\ \A t \in tasks : FreshTask(t, tasks)
  /\ now.do \notin LoopTasks
  /\ InCondition(now) => \A t \in tasks : InCondition(t)

\* An instruction of the longer code is one of the old code or one of the new.
LEMMA CodeParts ==
  ASSUME IsSeq(ir), NEW is, IsSeq(is), ir' = ir \o is
  PROVE  /\ IsSeq(ir')
         /\ \A i \in DOMAIN ir : i \in DOMAIN ir' /\ ir'[i] = ir[i]
         /\ \A i \in DOMAIN ir' : \/ i \in DOMAIN ir /\ ir'[i] = ir[i]
                                  \/ \E m \in DOMAIN is : i = Len(ir) + m /\ ir'[i] = is[m] /\ i \notin DOMAIN ir
         /\ \A m \in DOMAIN is : Len(ir) + m \in DOMAIN ir' /\ ir'[Len(ir) + m] = is[m]
  <1>1. PICK S : ir \in Seq(S)  BY DEF IsSeq
  <1>2. PICK D : is \in Seq(D)  BY DEF IsSeq
  <1>3. /\ ir' \in Seq(S \cup D) /\ Len(ir') = Len(ir) + Len(is)
        /\ \A i \in 1 .. Len(ir) : ir'[i] = ir[i]
        /\ \A i \in 1 .. Len(is) : ir'[Len(ir) + i] = is[i]
    BY <1>1, <1>2, GrowSeq
  <1>4. /\ DOMAIN ir = 1 .. Len(ir) /\ DOMAIN is = 1 .. Len(is) /\ Len(ir) \in Nat /\ Len(is) \in Nat
        /\ DOMAIN ir' = 1 .. Len(ir) + Len(is)
    BY <1>1, <1>2, <1>3
  <1>5. ASSUME NEW i \in DOMAIN ir'
        PROVE  \/ i \in DOMAIN ir /\ ir'[i] = ir[i]
               \/ \E m \in DOMAIN is : i = Len(ir) + m /\ ir'[i] = is[m] /\ i \notin DOMAIN ir
    <2>1. CASE i \in 1 .. Len(ir)  BY <2>1, <1>3, <1>4
    <2>2. CASE i \notin 1 .. Len(ir)
      <3>1. i - Len(ir) \in DOMAIN is /\ i = Len(ir) + (i - Len(ir))  BY <2>2, <1>4
      <3>2. ir'[i] = is[i - Len(ir)]  BY <3>1, <1>3, <1>4
      <3> QED BY <3>1, <3>2, <2>2, <1>4
    <2> QED BY <2>1, <2>2
  <1>6. \A i \in DOMAIN ir : i \in DOMAIN ir' /\ ir'[i] = ir[i]  BY <1>3, <1>4
  <1>7. \A m \in DOMAIN is : Len(ir) + m \in DOMAIN ir' /\ ir'[Len(ir) + m] = is[m]  BY <1>3, <1>4
  <1>8. IsSeq(ir')  BY <1>3 DEF IsSeq
  <1> QED BY <1>5, <1>6, <1>7, <1>8

\* Labels, jumps, tasks and loops stay sound when the task at hand is replaced.
LEMMA SoundMoved ==
  ASSUME LInv, NEW tasks, NEW is, Moved(is, tasks), Pending' = tasks \cup Later
  PROVE  IsSeq(ir') /\ Sound'
  <1>1. Pending = {now} \cup Later /\ \A u \in Later : Apart(now, u)
    BY FirstTask DEF LInv, Moved
  <1>2. /\ IsSeq(ir')
        /\ \A i \in DOMAIN ir : i \in DOMAIN ir' /\ ir'[i] = ir[i]
        /\ \A i \in DOMAIN ir' : \/ i \in DOMAIN ir /\ ir'[i] = ir[i]
                                 \/ \E m \in DOMAIN is : i = Len(ir) + m /\ ir'[i] = is[m] /\ i \notin DOMAIN ir
        /\ \A m \in DOMAIN is : Len(ir) + m \in DOMAIN ir' /\ ir'[Len(ir) + m] = is[m]
    BY CodeParts DEF LInv, LShape, Moved, NewCode
  <1>3. /\ labelCntr \in Nat /\ loopCntr \in Nat /\ labelCntr' \in Nat /\ loopCntr' \in Nat
        /\ labelCntr <= labelCntr' /\ loopCntr <= loopCntr'
        /\ currentFunc' = currentFunc /\ loopStack' = loopStack
    BY DEF LInv, LShape, Moved, Counted
  <1>4. \A t \in Pending : TaskSound(t)  BY DEF LInv, Sound, TasksSound
  \* A label instruction that is new is the label at hand.
  <1>5. ASSUME NEW i \in DOMAIN ir', ir'[i].op = "label"
        PROVE  \/ i \in DOMAIN ir /\ ir'[i] = ir[i]
               \/ now.do = "label" /\ SameLabel(ir'[i], now) /\ i \notin DOMAIN ir /\ ir'[i].of = currentFunc
    BY <1>2, <1>5 DEF Moved, NewCode
  <1>6. now \in Pending  BY <1>1
  <1>7. ASSUME NEW t, Numbered(t)  PROVE InUse(t, labelCntr', loopCntr')
    BY <1>3, <1>7 DEF Numbered, InUse
  <1>8. ASSUME NEW name, NEW n, Lands(name, n)
        PROVE  \/ Has(Pending', name, n)
               \/ \E k \in DOMAIN ir' : ir'[k].op = "label" /\ ir'[k].name = name /\ ir'[k].n = n /\ ir'[k].of = currentFunc
    <2>1. CASE Has(Later, name, n)
      BY <2>1 DEF Has
    <2>2. CASE now.do = "label" /\ now.name = name /\ now.n = n
      <3>1. PICK m \in DOMAIN is : is[m].op = "label" /\ SameLabel(is[m], now) /\ is[m].of = currentFunc
        BY <2>2 DEF Moved, NewCode
      <3> QED BY <3>1, <2>2, <1>2 DEF SameLabel
    <2>3. CASE \E k \in DOMAIN ir : ir[k].op = "label" /\ ir[k].name = name /\ ir[k].n = n /\ ir[k].of = currentFunc
      BY <2>3, <1>2
    <2> QED BY <1>1, <1>8, <2>1, <2>2, <2>3 DEF Lands, Has
  <1>9. ASSUME NEW name, NEW n, Has(tasks, name, n)  PROVE Has(Pending', name, n)
    BY <1>9 DEF Has
  <1>10. LabelsSound'
    <2>1. ASSUME NEW i \in DOMAIN ir', ir'[i].op = "label"  PROVE InUse(ir'[i], labelCntr', loopCntr')
      <3>1. CASE i \in DOMAIN ir /\ ir'[i] = ir[i]
        BY <2>1, <3>1, <1>7 DEF LInv, Sound, LabelsSound
      <3>2. CASE now.do = "label" /\ SameLabel(ir'[i], now)
        <4>1. InUse(now, labelCntr', loopCntr')  BY <3>2, <1>4, <1>6, <1>7 DEF TaskSound
        <4> QED BY <3>2, <4>1 DEF InUse, SameLabel
      <3> QED BY <2>1, <3>1, <3>2, <1>5
    <2>2. ASSUME NEW i \in DOMAIN ir', NEW k \in DOMAIN ir', ir'[i].op = "label", ir'[k].op = "label",
                 SameLabel(ir'[i], ir'[k])
          PROVE  i = k
      <3>1. CASE i \in DOMAIN ir /\ ir'[i] = ir[i] /\ k \in DOMAIN ir /\ ir'[k] = ir[k]
        BY <2>2, <3>1 DEF LInv, Sound, LabelsSound
      <3>2. ASSUME NEW a \in DOMAIN ir, ir[a].op = "label", now.do = "label", SameLabel(ir[a], now)
            PROVE  FALSE
        BY <3>2, <1>4, <1>6 DEF TaskSound, Defined
      <3>3. CASE i \in DOMAIN ir /\ ir'[i] = ir[i] /\ now.do = "label" /\ SameLabel(ir'[k], now)
        BY <2>2, <3>2, <3>3 DEF SameLabel
      <3>4. CASE k \in DOMAIN ir /\ ir'[k] = ir[k] /\ now.do = "label" /\ SameLabel(ir'[i], now)
        BY <2>2, <3>2, <3>4 DEF SameLabel
      <3>5. CASE i \notin DOMAIN ir /\ k \notin DOMAIN ir
        BY <2>2, <3>5, <1>2 DEF Moved, NewCode
      <3> QED BY <2>2, <3>1, <3>3, <3>4, <3>5, <1>5
    <2>3. LabelsSound' <=> /\ \A i \in DOMAIN ir' : ir'[i].op = "label" => InUse(ir'[i], labelCntr', loopCntr')
                           /\ \A i, k \in DOMAIN ir' :
                                 ir'[i].op = "label" /\ ir'[k].op = "label" /\ SameLabel(ir'[i], ir'[k]) => i = k
      BY DEF LabelsSound, Numbered, InUse, SameLabel
    <2> QED BY <2>1, <2>2, <2>3
  <1>11. JumpsSound'
    <2>1. ASSUME NEW i \in DOMAIN ir', ir'[i].op \in Jumps
          PROVE  \/ \E k \in DOMAIN ir' : ir'[k].op = "label" /\ SameLabel(ir'[k], ir'[i]) /\ ir'[k].of = ir'[i].of
                 \/ ir'[i].of = currentFunc /\ Has(Pending', ir'[i].name, ir'[i].n)
      <3>1. CASE i \in DOMAIN ir /\ ir'[i] = ir[i]
        <4>1. CASE \E k \in DOMAIN ir : ir[k].op = "label" /\ SameLabel(ir[k], ir[i]) /\ ir[k].of = ir[i].of
          BY <3>1, <4>1, <1>2
        <4>2. CASE ir[i].of = currentFunc /\ Has(Pending, ir[i].name, ir[i].n)
          <5>1. Lands(ir[i].name, ir[i].n)  BY <4>2 DEF Lands
          <5> QED BY <5>1, <4>2, <3>1, <1>8 DEF SameLabel
        <4> QED BY <2>1, <3>1, <4>1, <4>2 DEF LInv, Sound, JumpsSound
      <3>2. CASE \E m \in DOMAIN is : i = Len(ir) + m /\ ir'[i] = is[m]
        <4>1. /\ ir'[i].of = currentFunc
              /\ Lands(ir'[i].name, ir'[i].n) \/ Has(tasks, ir'[i].name, ir'[i].n)
          BY <3>2, <2>1 DEF Moved, NewCode
        <4> QED BY <4>1, <1>8, <1>9 DEF SameLabel
      <3> QED BY <3>1, <3>2, <1>2
    <2>2. JumpsSound' <=>
            \A i \in DOMAIN ir' : ir'[i].op \in Jumps =>
              \/ \E k \in DOMAIN ir' : ir'[k].op = "label" /\ SameLabel(ir'[k], ir'[i]) /\ ir'[k].of = ir'[i].of
              \/ ir'[i].of = currentFunc' /\ Has(Pending', ir'[i].name, ir'[i].n)
      BY DEF JumpsSound, SameLabel, Has
    <2> QED BY <2>1, <2>2, <1>3
  <1>12. TasksSound'
    <2> DEFINE Good(t) ==
          /\ t.do \in {"visit", "if"} => t.node \in Nodes
          /\ t.do = "label" => /\ InUse(t, labelCntr', loopCntr')
                               /\ \A k \in DOMAIN ir' : ir'[k].op = "label" => ~SameLabel(ir'[k], t)
          /\ t.do \in Jumps => Lands(t.name, t.n) \/ Has(tasks, t.name, t.n)
          /\ t.do \in LoopTasks => /\ t.n \in Nat /\ t.n < loopCntr'
                                   /\ Lands(".continue_loop", t.n) \/ Has(tasks, ".continue_loop", t.n)
                                   /\ Lands(".break_loop", t.n) \/ Has(tasks, ".break_loop", t.n)
          /\ t.do = "enter" => \E u \in Pending' : u.do = "leave" /\ u.n = t.n
          /\ t.do = "if" => /\ \A u \in Pending' : u.do = "label" /\ u.name \in IfLabels => u.n < labelCntr'
                            /\ \A k \in DOMAIN ir' : ir'[k].op = "label" /\ ir'[k].name \in IfLabels => ir'[k].n < labelCntr'
    <2>1. ASSUME NEW t \in Later  PROVE Good(t)
      <3>1. TaskSound(t) /\ Apart(now, t)  BY <1>1, <1>4
      <3>2. t.do = "label" => InUse(t, labelCntr', loopCntr')  BY <3>1, <1>7 DEF TaskSound
      <3>3. ASSUME t.do = "label", NEW k \in DOMAIN ir', ir'[k].op = "label"  PROVE ~SameLabel(ir'[k], t)
        <4>1. CASE k \in DOMAIN ir /\ ir'[k] = ir[k]  BY <4>1, <3>1, <3>3 DEF TaskSound, Defined
        <4>2. CASE now.do = "label" /\ SameLabel(ir'[k], now)  BY <4>2, <3>1, <3>3 DEF Apart, SameLabel
        <4> QED BY <4>1, <4>2, <1>5, <3>3
      <3>4. ASSUME t.do = "enter"  PROVE \E u \in Pending' : u.do = "leave" /\ u.n = t.n
        <4>1. PICK u \in Pending : u.do = "leave" /\ u.n = t.n  BY <3>1, <3>4 DEF TaskSound
        <4>2. u # now  BY <4>1 DEF Moved, LoopTasks
        <4> QED BY <4>1, <4>2, <1>1
      <3>5. ASSUME t.do = "if"
            PROVE  /\ \A u \in Pending' : u.do = "label" /\ u.name \in IfLabels => u.n < labelCntr'
                   /\ \A k \in DOMAIN ir' : ir'[k].op = "label" /\ ir'[k].name \in IfLabels => ir'[k].n < labelCntr'
        <4>1. InCondition(now) /\ \A u \in tasks : InCondition(u)  BY <3>1, <3>5 DEF Apart, Moved
        <4>2. ASSUME NEW u \in Later, u.do = "label", u.name \in IfLabels  PROVE u.n < labelCntr'
          <5>1. u.n < labelCntr /\ Numbered(u)  BY <4>2, <3>1, <3>5, <1>1, <1>4 DEF TaskSound
          <5>2. u.n \in Nat  BY <5>1 DEF Numbered, InUse
          <5> QED BY <5>1, <5>2, <1>3
        <4>3. ASSUME NEW k \in DOMAIN ir', ir'[k].op = "label", ir'[k].name \in IfLabels  PROVE ir'[k].n < labelCntr'
          <5>1. k \in DOMAIN ir /\ ir'[k] = ir[k]  BY <4>1, <4>3, <1>5 DEF InCondition, SameLabel
          <5>2. ir[k].n < labelCntr  BY <5>1, <4>3, <3>1, <3>5 DEF TaskSound
          <5>3. ir[k].n \in Nat  BY <5>1, <4>3 DEF LInv, Sound, LabelsSound, Numbered, InUse
          <5> QED BY <5>1, <5>2, <5>3, <1>3
        <4>4. \A u \in tasks : ~(u.do = "label" /\ u.name \in IfLabels)  BY <4>1 DEF InCondition
        <4> QED BY <4>2, <4>3, <4>4
      <3>6. t.do \in LoopTasks => t.n \in Nat /\ t.n < loopCntr'  BY <3>1, <1>3 DEF TaskSound
      <3> QED BY <3>1, <3>2, <3>3, <3>4, <3>5, <3>6 DEF TaskSound
    <2>2. ASSUME NEW t \in tasks  PROVE Good(t)
      <3>1. FreshTask(t, tasks)  BY DEF Moved
      <3>2. ASSUME t.do = "label", NEW k \in DOMAIN ir', ir'[k].op = "label"  PROVE ~SameLabel(ir'[k], t)
        <4>1. Unused(t)  BY <3>1, <3>2 DEF FreshTask
        <4>2. CASE k \in DOMAIN ir /\ ir'[k] = ir[k]  BY <4>1, <4>2, <3>2 DEF Unused, Defined
        <4>3. CASE now.do = "label" /\ SameLabel(ir'[k], now)  BY <4>1, <4>3, <1>6 DEF Unused, SameLabel
        <4> QED BY <4>2, <4>3, <1>5, <3>2
      <3>3. ASSUME t.do = "if"
            PROVE  /\ \A u \in Pending' : u.do = "label" /\ u.name \in IfLabels => u.n < labelCntr'
                   /\ \A k \in DOMAIN ir' : ir'[k].op = "label" /\ ir'[k].name \in IfLabels => ir'[k].n < labelCntr'
        <4>1. labelCntr < labelCntr' /\ \A u \in tasks : u.do = "label" => u.name \notin IfLabels
          BY <3>1, <3>3 DEF FreshTask
        <4>2. ASSUME NEW u, Numbered(u), u.name \in IfLabels  PROVE u.n < labelCntr'
          BY <4>1, <4>2, <1>3 DEF Numbered, InUse, IfLabels, LoopLabels
        <4>3. ASSUME NEW k \in DOMAIN ir', ir'[k].op = "label", ir'[k].name \in IfLabels  PROVE ir'[k].n < labelCntr'
          <5>1. CASE k \in DOMAIN ir /\ ir'[k] = ir[k]  BY <5>1, <4>2, <4>3 DEF LInv, Sound, LabelsSound
          <5>2. CASE now.do = "label" /\ SameLabel(ir'[k], now)
            BY <5>2, <4>2, <4>3, <1>4, <1>6 DEF TaskSound, SameLabel
          <5> QED BY <5>1, <5>2, <4>3, <1>5
        <4>4. \A u \in Later : u.do = "label" /\ u.name \in IfLabels => u.n < labelCntr'
          BY <4>2, <1>1, <1>4 DEF TaskSound
        <4> QED BY <4>1, <4>3, <4>4
      <3>4. t.do = "enter" => \E u \in Pending' : u.do = "leave" /\ u.n = t.n  BY <3>1 DEF FreshTask
      <3> QED BY <3>1, <3>2, <3>3, <3>4 DEF FreshTask
    <2>3. \A t \in Pending' : Good(t)  BY <2>1, <2>2
    <2> HIDE DEF Good
    <2>4. ASSUME NEW t \in Pending'  PROVE TaskSound(t)'
      <3>1. Good(t)  BY <2>3
      <3> DEFINE L(name, n) == \/ Has(Pending', name, n)
                               \/ \E k \in DOMAIN ir' : ir'[k].op = "label" /\ ir'[k].name = name /\ ir'[k].n = n
                                                        /\ ir'[k].of = currentFunc'
      <3>2. ASSUME NEW name, NEW n, Lands(name, n) \/ Has(tasks, name, n)  PROVE L(name, n)
        <4>1. CASE Lands(name, n)  BY ONLY <4>1, <1>3, <1>8 DEF L
        <4>2. CASE Has(tasks, name, n)  BY ONLY <4>2, <1>9 DEF L
        <4> QED BY <3>2, <4>1, <4>2
      <3>3. TaskSound(t)' <=>
              /\ t.do \in {"visit", "if"} => t.node \in Nodes
              /\ t.do = "label" => /\ InUse(t, labelCntr', loopCntr')
                                   /\ ~ \E k \in DOMAIN ir' : ir'[k].op = "label" /\ SameLabel(ir'[k], t)
              /\ t.do \in Jumps => L(t.name, t.n)
              /\ t.do \in LoopTasks => /\ t.n \in Nat /\ t.n < loopCntr'
                                       /\ L(".continue_loop", t.n) /\ L(".break_loop", t.n)
              /\ t.do = "enter" => \E u \in Pending' : u.do = "leave" /\ u.n = t.n
              /\ t.do = "if" => /\ \A u \in Pending' : u.do = "label" /\ u.name \in IfLabels => u.n < labelCntr'
                                /\ \A k \in DOMAIN ir' : ir'[k].op = "label" /\ ir'[k].name \in IfLabels => ir'[k].n < labelCntr'
        BY DEF TaskSound, Numbered, InUse, Defined, SameLabel, Lands, Has
      <3> HIDE DEF L
      <3> QED BY <3>1, <3>2, <3>3 DEF Good
    <2>5. TasksSound' <=> \A t \in Pending' : TaskSound(t)'  BY DEF TasksSound
    <2> QED BY <2>4, <2>5
  <1>13. LoopsSound'
    <2>1. ASSUME NEW n, Inside(n), n \in Entries(loopStack)
          PROVE  /\ \E t \in Pending' : t.do = "leave" /\ t.n = n
                 /\ \A t \in Pending' : t.do = "enter" => t.n # n
      <3>1. PICK t \in Pending : t.do = "leave" /\ t.n = n  BY <2>1 DEF Inside
      <3>2. t # now  BY <3>1 DEF Moved, LoopTasks
      <3>3. n \in Nat /\ n < loopCntr  BY <3>1, <1>4 DEF TaskSound, LoopTasks
      <3>4. ASSUME NEW u \in tasks, u.do = "enter"  PROVE u.n # n
        <4>1. FreshTask(u, tasks)  BY DEF Moved
        <4>2. u.n \in Nat /\ loopCntr <= u.n  BY <3>4, <4>1 DEF FreshTask, LoopTasks
        <4> QED BY <4>2, <3>3, <1>3
      <3> QED BY <3>1, <3>2, <3>4, <2>1, <1>1 DEF Inside
    <2>2. ASSUME NEW t \in Pending', t.do = "leave", \A u \in Pending' : u.do = "enter" => u.n # t.n
          PROVE  t \in Later /\ Inside(t.n)
      <3>1. t \notin tasks  BY <2>2 DEF Moved, FreshTask
      <3>2. now.do # "enter"  BY DEF Moved, LoopTasks
      <3> QED BY <3>1, <3>2, <2>2, <1>1 DEF Inside
    <2>3. LoopsSound' <=>
            /\ \A i, k \in DOMAIN loopStack' : i < k => loopStack'[i] > loopStack'[k]
            /\ \A n \in Entries(loopStack') : /\ \E t \in Pending' : t.do = "leave" /\ t.n = n
                                              /\ \A t \in Pending' : t.do = "enter" => t.n # n
            /\ \A t \in Pending' : /\ t.do = "leave"
                                   /\ \E u \in Pending' : u.do = "leave" /\ u.n = t.n
                                   /\ \A u \in Pending' : u.do = "enter" => u.n # t.n
                                   => t.n \in Entries(loopStack')
      BY DEF LoopsSound, Inside, Entries
    <2>4. \A t \in Later : t.do = "leave" /\ Inside(t.n) => t.n \in Entries(loopStack)
      BY <1>1 DEF LInv, Sound, LoopsSound
    <2>5. /\ \A i, k \in DOMAIN loopStack : i < k => loopStack[i] > loopStack[k]
          /\ \A n \in Entries(loopStack) : Inside(n)
      BY DEF LInv, Sound, LoopsSound
    <2> QED BY <2>1, <2>2, <2>3, <2>4, <2>5, <1>3
  <1>14. Sound' <=> LabelsSound' /\ TasksSound' /\ JumpsSound' /\ LoopsSound'  BY DEF Sound
  <1> QED BY <1>2, <1>10, <1>11, <1>12, <1>13, <1>14
-----------------------------------------------------------------------------
(* Lists of so many tasks                                                  *)

LEMMA None == IsSeq(<<>>) /\ DOMAIN <<>> = {} /\ Entries(<<>>) = {}
  <1>1. <<>> \in Seq({}) /\ DOMAIN <<>> = {}  OBVIOUS
  <1> QED BY <1>1 DEF IsSeq, Entries

LEMMA One ==
  ASSUME NEW a
  PROVE  /\ IsSeq(<<a>>) /\ DOMAIN <<a>> = {1} /\ Len(<<a>>) = 1 /\ <<a>>[1] = a
         /\ Entries(<<a>>) = {a}
  <1>1. <<a>> \in Seq({a})  OBVIOUS
  <1>2. IsSeq(<<a>>)  BY <1>1 DEF IsSeq
  <1>3. DOMAIN <<a>> = 1 .. 1 /\ Len(<<a>>) = 1 /\ <<a>>[1] = a  OBVIOUS
  <1>4. DOMAIN <<a>> = {1}  BY <1>3
  <1> QED BY <1>2, <1>3, <1>4 DEF Entries

LEMMA Two ==
  ASSUME NEW a, NEW b
  PROVE  /\ IsSeq(<<a, b>>) /\ DOMAIN <<a, b>> = {1, 2} /\ Len(<<a, b>>) = 2
         /\ <<a, b>>[1] = a /\ <<a, b>>[2] = b
         /\ Entries(<<a, b>>) = {a, b}
  <1>1. <<a, b>> \in Seq({a, b})  OBVIOUS
  <1>2. IsSeq(<<a, b>>)  BY <1>1 DEF IsSeq
  <1>3. DOMAIN <<a, b>> = 1 .. 2 /\ Len(<<a, b>>) = 2 /\ <<a, b>>[1] = a /\ <<a, b>>[2] = b  OBVIOUS
  <1>4. DOMAIN <<a, b>> = {1, 2}  BY <1>3
  <1> QED BY <1>2, <1>3, <1>4 DEF Entries

LEMMA Three ==
  ASSUME NEW a, NEW b, NEW c
  PROVE  IsSeq(<<a, b, c>>) /\ Entries(<<a, b, c>>) = {a, b, c}
  <1>1. <<a, b, c>> \in Seq({a, b, c})  OBVIOUS
  <1>2. DOMAIN <<a, b, c>> = 1 .. 3 /\ <<a, b, c>>[1] = a /\ <<a, b, c>>[2] = b /\ <<a, b, c>>[3] = c  OBVIOUS
  <1>3. DOMAIN <<a, b, c>> = {1, 2, 3}  BY <1>2
  <1> QED BY <1>1, <1>2, <1>3 DEF IsSeq, Entries

LEMMA Four ==
  ASSUME NEW a, NEW b, NEW c, NEW d
  PROVE  IsSeq(<<a, b, c, d>>) /\ Entries(<<a, b, c, d>>) = {a, b, c, d}
  <1> DEFINE s == <<a, b, c, d>>
  <1>1. s \in Seq({a, b, c, d})  OBVIOUS
  <1>2. DOMAIN s = 1 .. 4 /\ s[1] = a /\ s[2] = b /\ s[3] = c /\ s[4] = d  OBVIOUS
  <1> HIDE DEF s
  <1>3. DOMAIN s = {1, 2, 3, 4}  BY <1>2
  <1>4. Entries(s) = {a, b, c, d}  BY <1>2, <1>3 DEF Entries
  <1> QED BY <1>1, <1>4 DEF IsSeq, s

LEMMA Five ==
  ASSUME NEW a, NEW b, NEW c, NEW d, NEW e
  PROVE  IsSeq(<<a, b, c, d, e>>) /\ Entries(<<a, b, c, d, e>>) = {a, b, c, d, e}
  <1> DEFINE s == <<a, b, c, d, e>>
  <1>1. s \in Seq({a, b, c, d, e})  OBVIOUS
  <1>2. DOMAIN s = 1 .. 5 /\ s[1] = a /\ s[2] = b /\ s[3] = c /\ s[4] = d /\ s[5] = e  OBVIOUS
  <1> HIDE DEF s
  <1>3. DOMAIN s = {1, 2, 3, 4, 5}  BY <1>2
  <1>4. Entries(s) = {a, b, c, d, e}  BY <1>2, <1>3 DEF Entries
  <1> QED BY <1>1, <1>4 DEF IsSeq, s
-----------------------------------------------------------------------------
\* Tasks take the place of the task at hand, in its scope or in a new one.
Advanced(ts) ==
  /\ IsSeq(ts) /\ (Len(todo) = 1 => ts = <<>>)
  /\ \/ todo' = <<ts \o Rest>> \o Tail(todo)
     \/ todo' = <<ts, Rest>> \o Tail(todo)

\* So does the whole invariant.
LEMMA AdvanceStep ==
  ASSUME LInv, NEW ts, NEW is, Advanced(ts), Ordered(ts), Moved(is, Entries(ts))
  PROVE  LInv'
  <1>1. /\ IsSeq(Rest) /\ Ordered(Rest)
        /\ Pending = {now} \cup Later
        /\ \A u \in Later : Apart(now, u)
        /\ \A t \in Entries(Rest), u \in Outer : Apart(t, u)
    BY FirstTask DEF LInv, Moved
  <1>2. ASSUME NEW t \in Entries(ts), NEW u \in Later  PROVE Apart(t, u)
    <2>1. FreshTask(t, Entries(ts)) /\ u \in Pending /\ Apart(now, u) /\ TaskSound(u)
      BY <1>1 DEF Moved, LInv, Sound, TasksSound
    <2>2. t.do = "label" /\ u.do = "label" => ~SameLabel(t, u)
      BY <2>1 DEF FreshTask, Unused
    <2>3. t.do \in LoopTasks /\ u.do \in LoopTasks => t.n > u.n
      <3>1. loopCntr \in Nat  BY DEF LInv, LShape
      <3> QED BY <2>1, <3>1 DEF FreshTask, TaskSound
    <2>4. u.do = "if" => InCondition(t)
      BY <2>1 DEF Apart, Moved
    <2> QED BY <2>2, <2>3, <2>4 DEF Apart
  <1>3. IsSeq(ts)  BY DEF Advanced
  <1>4. \A t \in Entries(ts), u \in Entries(Rest) : Apart(t, u)  BY <1>2 DEF Later
  <1>5. /\ IsSeq(ts \o Rest) /\ Ordered(ts \o Rest)
        /\ Entries(ts \o Rest) = Entries(ts) \cup Entries(Rest)
    BY <1>1, <1>3, <1>4, JoinLists, JoinOrdered
  <1>6. ASSUME Len(todo) = 1  PROVE /\ \A t \in Entries(Rest) : t.do = "visit"
                                    /\ Entries(ts) = {}
    <2>1. \A t \in Entries(todo[1]) : t.do = "visit"
      BY <1>6 DEF LInv, TopSound, Moved
    <2>2. PICK B : todo \in Seq(B)  BY DEF LInv, LShape, IsSeq
    <2>3. Head(todo) = todo[1] /\ 1 \in DOMAIN todo  BY <2>2, <1>6
    <2>4. PICK C : Head(todo) \in Seq(C)  BY <2>3 DEF LInv, LShape, IsSeq
    <2>5. Entries(Rest) \subseteq Entries(Head(todo))
      BY <2>4, RestSeq DEF Moved, Rest
    <2>6. Entries(ts) = {}  BY <1>6 DEF Advanced, Entries
    <2> QED BY <2>1, <2>3, <2>5, <2>6
  <1>7. /\ IsSeq(todo') /\ \A j \in DOMAIN todo' : IsSeq(todo'[j])
        /\ InOrder' /\ TopSound'
        /\ Pending' = Entries(ts) \cup Later
    <2>1. CASE todo' = <<ts \o Rest>> \o Tail(todo)
      <3>1. PICK x : x = ts \o Rest  OBVIOUS
      <3>2. IsSeq(x) /\ Ordered(x) /\ Entries(x) = Entries(ts) \cup Entries(Rest) /\ todo' = <<x>> \o Tail(todo)
        BY <3>1, <1>5, <2>1
      <3>3. PICK front : front = <<x>>  OBVIOUS
      <3>4. DOMAIN front = {1} /\ front[1] = x /\ Len(front) = 1 /\ IsSeq(front)
        BY <3>3, One
      <3>5. Len(todo) = 1 => \A t \in Entries(front[Len(front)]) : t.do = "visit"
        BY <3>2, <3>4, <1>6
      <3>6. \A j \in DOMAIN front : \A t \in Entries(front[j]), u \in Outer : Apart(t, u)
        BY <3>2, <3>4, <1>1, <1>2 DEF Later
      <3>7. \A j, k \in DOMAIN front : j < k => \A t \in Entries(front[j]), u \in Entries(front[k]) : Apart(t, u)
        BY <3>4
      <3>8. todo' = front \o Tail(todo) /\ \A j \in DOMAIN front : IsSeq(front[j]) /\ Ordered(front[j])
        BY <3>2, <3>3, <3>4
      <3>9. /\ IsSeq(todo') /\ \A j \in DOMAIN todo' : IsSeq(todo'[j])
            /\ InOrder' /\ TopSound'
            /\ Pending' = (UNION {Entries(front[j]) : j \in DOMAIN front}) \cup Outer
        BY <3>4, <3>5, <3>6, <3>7, <3>8, Fronted DEF LInv, Moved
      <3>10. UNION {Entries(front[j]) : j \in DOMAIN front} = Entries(x)  BY <3>4
      <3> QED BY <3>2, <3>9, <3>10 DEF Later
    <2>2. CASE todo' = <<ts, Rest>> \o Tail(todo)
      <3>1. PICK y : y = Rest  OBVIOUS
      <3>2. todo' = <<ts, y>> \o Tail(todo)  BY <3>1, <2>2
      <3>3. PICK front : front = <<ts, y>>  OBVIOUS
      <3>4. DOMAIN front = {1, 2} /\ front[1] = ts /\ front[2] = y /\ Len(front) = 2 /\ IsSeq(front)
        BY <3>3, Two
      <3>5. Len(todo) = 1 => \A t \in Entries(front[Len(front)]) : t.do = "visit"
        BY <3>1, <3>4, <1>6
      <3>6. \A j \in DOMAIN front : \A t \in Entries(front[j]), u \in Outer : Apart(t, u)
        BY <3>1, <3>4, <1>1, <1>2 DEF Later
      <3>7. \A j, k \in DOMAIN front : j < k => \A t \in Entries(front[j]), u \in Entries(front[k]) : Apart(t, u)
        BY <3>1, <3>4, <1>2 DEF Later
      <3>8. todo' = front \o Tail(todo) /\ \A j \in DOMAIN front : IsSeq(front[j]) /\ Ordered(front[j])
        BY <3>1, <3>2, <3>3, <3>4, <1>1 DEF Advanced
      <3>9. /\ IsSeq(todo') /\ \A j \in DOMAIN todo' : IsSeq(todo'[j])
            /\ InOrder' /\ TopSound'
            /\ Pending' = (UNION {Entries(front[j]) : j \in DOMAIN front}) \cup Outer
        BY <3>4, <3>5, <3>6, <3>7, <3>8, Fronted DEF LInv, Moved
      <3>10. UNION {Entries(front[j]) : j \in DOMAIN front} = Entries(ts) \cup Entries(Rest)  BY <3>1, <3>4
      <3> QED BY <3>9, <3>10 DEF Later
    <2> QED BY <2>1, <2>2 DEF Advanced
  <1>8. IsSeq(ir') /\ Sound'  BY <1>7, SoundMoved
  <1>9. LShape'  BY <1>7, <1>8 DEF LInv, LShape, Moved, Counted, IsSeq
  <1> QED BY <1>7, <1>8, <1>9 DEF LInv
-----------------------------------------------------------------------------
\* A task that has nothing to do with labels, fit to take the place of the task at hand.
Calm(t) ==
  /\ t.do \notin {"label", "if"} \cup Jumps \cup LoopTasks
  /\ t.do = "visit" => t.node \in Nodes /\ (InCondition(now) => t.node \in Expressions)

CalmCode(is) == IsSeq(is) /\ \A i \in DOMAIN is : is[i].op \notin {"label"} \cup Jumps

\* A step whose new tasks and code have nothing to do with labels.
LEMMA CalmStep ==
  ASSUME LInv, todo # <<>>, Head(todo) # <<>>, now.do \notin {"label"} \cup LoopTasks,
         NEW ts, Advanced(ts), \A t \in Entries(ts) : Calm(t),
         NEW is, CalmCode(is), ir' = ir \o is,
         UNCHANGED <<labels, currentFunc>>
  PROVE  LInv'
  <1>1. \A t, u : Calm(t) /\ Calm(u) => Apart(t, u)
    BY DEF Calm, Apart, InCondition
  <1>2. Ordered(ts)  BY <1>1 DEF Ordered, Entries
  <1>3. Moved(is, Entries(ts))
    <2>1. \A t \in Entries(ts) : FreshTask(t, Entries(ts))  BY DEF FreshTask, Calm, LoopTasks
    <2>2. InCondition(now) => \A t \in Entries(ts) : InCondition(t)  BY DEF InCondition, Calm
    <2>3. Counted /\ UNCHANGED loopStack  BY DEF LInv, LShape, Counted, labels
    <2>4. NewCode(is, Entries(ts))  BY DEF NewCode, CalmCode
    <2> QED BY <2>1, <2>2, <2>3, <2>4 DEF Moved
  <1> QED BY <1>2, <1>3, AdvanceStep
-----------------------------------------------------------------------------
(* Steps that have nothing to do with labels                               *)

Scoped == Len(todo) > 1 /\ Head(todo) # <<>> /\ now.do \notin {"label"} \cup LoopTasks

LEMMA ScopedTodo ==
  ASSUME LInv, Scoped
  PROVE  todo # <<>> /\ Head(todo) # <<>> /\ Len(todo) # 1
  <1>1. Len(todo) > 1 /\ Head(todo) # <<>>  BY DEF Scoped
  <1>2. Len(todo) # 1  BY <1>1 DEF LInv, LShape, IsSeq
  <1>3. todo # <<>>  BY <1>1
  <1> QED BY <1>1, <1>2, <1>3

\* The same in the words of the visitor.
LEMMA CalmDo ==
  ASSUME LInv, Scoped, NEW ts, Do(ts) \/ startScope(ts), IsSeq(ts), \A t \in Entries(ts) : Calm(t),
         UNCHANGED ir \/ \E is : CalmCode(is) /\ Emit(is),
         UNCHANGED <<labels, currentFunc>>
  PROVE  LInv'
  <1>1. todo # <<>>  BY DEF Scoped
  <1>2. Advanced(ts)
    <2>1. Len(todo) # 1  BY ScopedTodo
    <2>2. CASE Do(ts)  BY <2>1, <2>2 DEF Advanced, Do
    <2>3. CASE startScope(ts)  BY <2>1, <2>3 DEF Advanced, startScope
    <2> QED BY <2>2, <2>3
  <1>3. PICK is : CalmCode(is) /\ ir' = ir \o is
    <2>1. CASE UNCHANGED ir
      <3>1. ir' = ir \o <<>>  BY <2>1 DEF LInv, LShape, IsSeq
      <3> QED BY <3>1, None DEF CalmCode
    <2>2. CASE \E is : CalmCode(is) /\ Emit(is)  BY <2>2 DEF Emit
    <2> QED BY <2>1, <2>2
  <1> QED BY <1>1, <1>2, <1>3, CalmStep DEF Scoped

LEMMA CalmTask ==
  ASSUME NEW do, do \notin {"label", "if", "visit"} \cup Jumps \cup LoopTasks, NEW n, NEW name, NEW k
  PROVE  Calm(T(do)) /\ Calm(After(do, n, k)) /\ Calm(E(do, name, k))
  BY DEF Calm, T, After, E, Task

LEMMA CalmIns ==
  ASSUME NEW op, op \notin {"label"} \cup Jumps, NEW name, NEW n
  PROVE  CalmCode(<<Ins(op, name, n)>>)
  <1> DEFINE x == Ins(op, name, n)
  <1>1. x.op = op  BY DEF Ins
  <1> HIDE DEF x
  <1>2. CalmCode(<<x>>)  BY <1>1, One DEF CalmCode
  <1> QED BY <1>2 DEF x

LEMMA CalmLoad ==
  ASSUME NEW t
  PROVE  CalmCode(Load(t))
  <1>1. CASE t.lv
    <2>1. "load" \notin {"label"} \cup Jumps  BY DEF Jumps
    <2> QED BY <1>1, <2>1, CalmIns DEF Load
  <1>2. CASE ~t.lv  BY <1>2, None DEF Load, CalmCode
  <1> QED BY <1>1, <1>2

\* What the parser gives.
LEMMA Children ==
  ASSUME LInv, todo # <<>>, Head(todo) # <<>>, now.do \in {"visit", "if"}
  PROVE  /\ node \in Nodes /\ node.kids \in Seq(Nodes)
         /\ InCondition(now) => node \in Expressions
         /\ node \in Expressions => node.kids \in Seq(Expressions) /\ node.kind \notin Statements
         /\ \A i \in Nat : Kid(i) \in Nodes /\ (node \in Expressions => Kid(i) \in Expressions)
  <1>1. now \in Pending  BY FirstTask DEF LInv
  <1>2. node \in Nodes  BY <1>1 DEF LInv, Sound, TasksSound, TaskSound, node
  <1>3. InCondition(now) => node \in Expressions  BY DEF InCondition, node
  <1>4. node.kids \in Seq(Nodes)  BY <1>2, GrammarAssumption DEF Grammar
  <1>5. node \in Expressions => node.kids \in Seq(Expressions) /\ node.kind \notin Statements
    BY GrammarAssumption DEF Grammar
  <1>6. NoNode \in Nodes /\ NoNode \in Expressions  BY GrammarAssumption DEF Grammar
  <1>7. \A i \in Nat : Kid(i) \in Nodes /\ (node \in Expressions => Kid(i) \in Expressions)
    BY <1>4, <1>5, <1>6 DEF Kid
  <1> QED BY <1>2, <1>3, <1>4, <1>5, <1>7

\* A child of the node at hand is a calm task.
LEMMA CalmKid ==
  ASSUME LInv, todo # <<>>, Head(todo) # <<>>, now.do = "visit", NEW i \in Nat
  PROVE  Calm(V(Kid(i)))
  <1>1. Kid(i) \in Nodes /\ (InCondition(now) => Kid(i) \in Expressions)  BY Children
  <1> QED BY <1>1 DEF Calm, V, Task, Jumps, LoopTasks

\* Calm code adds neither label nor jump.
LEMMA CalmGrows ==
  ASSUME LInv, NEW is, CalmCode(is), ir' = ir \o is
  PROVE  /\ IsSeq(ir')
         /\ \A i \in DOMAIN ir : i \in DOMAIN ir' /\ ir'[i] = ir[i]
         /\ \A i \in DOMAIN ir' : ir'[i].op \in {"label"} \cup Jumps => i \in DOMAIN ir /\ ir'[i] = ir[i]
  <1>1. IsSeq(ir)  BY DEF LInv, LShape
  <1>2. IsSeq(is) /\ \A m \in DOMAIN is : is[m].op \notin {"label"} \cup Jumps  BY DEF CalmCode
  <1>3. /\ IsSeq(ir')
        /\ \A i \in DOMAIN ir : i \in DOMAIN ir' /\ ir'[i] = ir[i]
        /\ \A i \in DOMAIN ir' : \/ i \in DOMAIN ir /\ ir'[i] = ir[i]
                                 \/ \E m \in DOMAIN is : i = Len(ir) + m /\ ir'[i] = is[m] /\ i \notin DOMAIN ir
    BY <1>1, <1>2, CodeParts
  <1> QED BY <1>2, <1>3

\* The same tasks are left.
LEMMA SameTasks ==
  ASSUME LInv, IsSeq(todo'), \A j \in DOMAIN todo' : IsSeq(todo'[j]), InOrder', TopSound', Pending' = Pending,
         NEW is, CalmCode(is), ir' = ir \o is, UNCHANGED <<labels, currentFunc>>
  PROVE  LInv'
  <1>1. /\ IsSeq(ir')
        /\ \A i \in DOMAIN ir : i \in DOMAIN ir' /\ ir'[i] = ir[i]
        /\ \A i \in DOMAIN ir' : ir'[i].op \in {"label"} \cup Jumps => i \in DOMAIN ir /\ ir'[i] = ir[i]
    BY CalmGrows
  <1>2. UNCHANGED <<labelCntr, loopCntr, loopStack, currentFunc>>  BY DEF labels
  <1>3. LShape'  BY <1>1, <1>2 DEF LInv, LShape, IsSeq
  <1>4. \A t : Numbered(t)' <=> Numbered(t)  BY <1>2 DEF Numbered, InUse
  <1>5. \A t : Defined(t)' <=> Defined(t)  BY <1>1 DEF Defined, SameLabel
  <1>6. \A name, n : Lands(name, n)' <=> Lands(name, n)  BY <1>1, <1>2 DEF Lands, Has
  <1>7. \A n : Inside(n)' <=> Inside(n)  BY DEF Inside
  <1>8. LabelsSound'
    <2>1. \A i \in DOMAIN ir' : ir'[i].op = "label" => i \in DOMAIN ir /\ ir'[i] = ir[i] /\ Numbered(ir[i])'
      BY <1>1, <1>4 DEF LInv, Sound, LabelsSound
    <2> QED BY <2>1 DEF LInv, Sound, LabelsSound, SameLabel, Numbered, InUse
  <1>9. TasksSound'
    <2>1. \A k \in DOMAIN ir' : ir'[k].op = "label" => k \in DOMAIN ir /\ ir'[k] = ir[k]  BY <1>1
    <2>2. ASSUME NEW t \in Pending  PROVE TaskSound(t)'
      <3>1. TaskSound(t)  BY DEF LInv, Sound, TasksSound
      <3> QED BY <3>1, <2>1, <1>2, <1>4, <1>5, <1>6 DEF TaskSound
    <2> QED BY <2>2 DEF TasksSound
  <1>10. JumpsSound'
    <2>1. ASSUME NEW i \in DOMAIN ir', ir'[i].op \in Jumps
          PROVE  \/ \E k \in DOMAIN ir' : ir'[k].op = "label" /\ SameLabel(ir'[k], ir'[i]) /\ ir'[k].of = ir'[i].of
                 \/ ir'[i].of = currentFunc /\ Has(Pending, ir'[i].name, ir'[i].n)
      <3>1. i \in DOMAIN ir /\ ir'[i] = ir[i]  BY <2>1, <1>1
      <3>2. CASE \E k \in DOMAIN ir : ir[k].op = "label" /\ SameLabel(ir[k], ir[i]) /\ ir[k].of = ir[i].of
        BY <3>1, <3>2, <1>1
      <3> QED BY <2>1, <3>1, <3>2 DEF LInv, Sound, JumpsSound
    <2>2. JumpsSound' <=>
            \A i \in DOMAIN ir' : ir'[i].op \in Jumps =>
              \/ \E k \in DOMAIN ir' : ir'[k].op = "label" /\ SameLabel(ir'[k], ir'[i]) /\ ir'[k].of = ir'[i].of
              \/ ir'[i].of = currentFunc' /\ Has(Pending', ir'[i].name, ir'[i].n)
      BY DEF JumpsSound, SameLabel, Has
    <2> QED BY <2>1, <2>2, <1>2
  <1>11. LoopsSound'  BY <1>2, <1>7 DEF LInv, Sound, LoopsSound, Entries
  <1> QED BY <1>3, <1>8, <1>9, <1>10, <1>11 DEF LInv, Sound

LEMMA NoCode ==
  ASSUME LInv
  PROVE  CalmCode(<<>>) /\ ir = ir \o <<>>
  BY None DEF CalmCode, LInv, LShape, IsSeq

\* The visitor stands still, or refuses the program.
LEMMA NothingMoves ==
  ASSUME LInv, UNCHANGED visitorVars \/ reportError
  PROVE  LInv'
  <1>1. UNCHANGED <<todo, ir, labelCntr, loopCntr, loopStack, currentFunc>>
    BY DEF visitorVars, labels, decls, reportError
  <1>2. Pending' = Pending  BY <1>1 DEF Pending, Entries
  <1>3. InOrder' /\ TopSound'
    BY <1>1 DEF LInv, InOrder, TopSound, Ordered, Apart, Entries, InCondition, SameLabel
  <1>4. IsSeq(todo') /\ \A j \in DOMAIN todo' : IsSeq(todo'[j])  BY <1>1 DEF LInv, LShape
  <1>5. ir' = ir \o <<>>  BY <1>1, NoCode
  <1> QED BY <1>1, <1>2, <1>3, <1>4, <1>5, NoCode, SameTasks DEF labels

\* A scope is at its end.
LEMMA Popped ==
  ASSUME LInv, todo # <<>>, Head(todo) = <<>>, todo' = Tail(todo),
         NEW is, CalmCode(is), ir' = ir \o is, UNCHANGED <<labels, currentFunc>>
  PROVE  LInv'
  <1>1. PICK S : todo \in Seq(S)  BY DEF LInv, LShape, IsSeq
  <1>2. /\ Tail(todo) \in Seq(S) /\ Len(todo) \in Nat /\ Len(todo) > 0 /\ DOMAIN todo = 1 .. Len(todo)
        /\ Head(todo) = todo[1]
    BY <1>1
  <1>3. todo' = <<>> \o Tail(todo)  BY <1>2
  <1>4. PICK front : front = <<>>  OBVIOUS
  <1>5. DOMAIN front = {} /\ IsSeq(front) /\ todo' = front \o Tail(todo)  BY <1>3, <1>4, None
  <1>6. /\ IsSeq(todo') /\ \A j \in DOMAIN todo' : IsSeq(todo'[j])
        /\ InOrder' /\ TopSound'
        /\ Pending' = (UNION {Entries(front[j]) : j \in DOMAIN front}) \cup Outer
    <2>1. Len(todo) = 1 => front = <<>> \/ \A t \in Entries(front[Len(front)]) : t.do = "visit"  BY <1>4
    <2>2. /\ \A j \in DOMAIN front : IsSeq(front[j]) /\ Ordered(front[j])
          /\ \A j, k \in DOMAIN front : j < k => \A t \in Entries(front[j]), u \in Entries(front[k]) : Apart(t, u)
          /\ \A j \in DOMAIN front : \A t \in Entries(front[j]), u \in Outer : Apart(t, u)
      BY <1>5
    <2> QED BY <1>5, <2>1, <2>2, Fronted DEF LInv
  <1>7. Pending' = Outer  BY <1>5, <1>6
  <1>8. Pending = Outer
    <2>1. \A j \in DOMAIN todo : j = 1 \/ j \in 2 .. Len(todo)  BY <1>2
    <2>2. \A j \in 2 .. Len(todo) : j \in DOMAIN todo  BY <1>2
    <2>3. Entries(todo[1]) = {}  BY <1>2, None
    <2> QED BY <2>1, <2>2, <2>3 DEF Pending, Outer
  <1> QED BY <1>6, <1>7, <1>8, SameTasks

\* The end of a scope, of a function, of the program.
LEMMA EndLabels ==
  ASSUME LInv, endScope \/ EndFunction \/ EndProgram
  PROVE  LInv'
  <1>1. CASE reportError  BY <1>1, NothingMoves
  <1>2. CASE endScope
    <2>1. Len(todo) > 2 /\ Head(todo) = <<>> /\ todo' = Tail(todo) /\ UNCHANGED <<ir, labels, currentFunc>>
      BY <1>2 DEF endScope, decls
    <2>2. todo # <<>>  BY <2>1
    <2>3. ir' = ir \o <<>>  BY <2>1, NoCode
    <2> QED BY <2>1, <2>2, <2>3, NoCode, Popped
  <1>3. CASE EndFunction
    <2>1. /\ Len(todo) = 2 /\ Head(todo) = <<>> /\ todo' = Tail(todo) /\ UNCHANGED <<labels, currentFunc>>
          /\ Emit(<<Ins("endfunc", currentFunc, 0)>>)
      BY <1>3 DEF EndFunction
    <2>2. todo # <<>>  BY <2>1
    <2>3. PICK is : is = <<Ins("endfunc", currentFunc, 0)>>  OBVIOUS
    <2>4. CalmCode(is)  BY <2>3, CalmIns DEF Jumps
    <2>5. ir' = ir \o is  BY <2>1, <2>3 DEF Emit
    <2> QED BY <2>1, <2>2, <2>4, <2>5, Popped
  <1>4. CASE EndProgram /\ ~reportError
    <2>1. todo = <<<<>>>> /\ todo' = <<>> /\ UNCHANGED <<ir, labels, currentFunc>>
      BY <1>4 DEF EndProgram, decls
    <2>2. todo # <<>> /\ Head(todo) = <<>> /\ todo' = Tail(todo)  BY <2>1
    <2>3. ir' = ir \o <<>>  BY <2>1, NoCode
    <2> QED BY <2>1, <2>2, <2>3, NoCode, Popped
  <1> QED BY <1>1, <1>2, <1>3, <1>4

\* The step does no more than append such code.
LEMMA CalmEnd ==
  ASSUME LInv, Scoped, Do(<<>>), UNCHANGED ir \/ \E is : CalmCode(is) /\ Emit(is),
         UNCHANGED <<labels, currentFunc>>
  PROVE  LInv'
  BY CalmDo, None

\* Expressions and their ends, but for the conditional expression and the call.
LEMMA ExpressionLabels ==
  ASSUME LInv,
         \/ visitPrimIntLit \/ visitPrimIdent \/ castToRValue \/ typeCheckInt
         \/ visitExprAssign \/ Assigned \/ TernaryEnd
         \/ visitBinary \/ Binary \/ visitUnaryOp \/ visitUnaryAddr \/ Deref \/ Ref
         \/ visitUnaryCast \/ Cast \/ Argument \/ Call
         \/ visitPfixSubscri \/ Subscript
  PROVE  LInv'
  <1> DEFINE Ends == /\ Do(<<>>) /\ Expression
                     /\ \/ UNCHANGED ir
                        \/ \E op, name, n : op \notin {"label"} \cup Jumps /\ Emit(<<Ins(op, name, n)>>)
                        \/ \E t : Emit(Load(t))
  <1>1. Scoped
    BY DEF visitPrimIntLit, visitPrimIdent, castToRValue, typeCheckInt, visitExprAssign, Assigned,
           TernaryEnd, visitBinary, Binary, visitUnaryOp, visitUnaryAddr, Deref, Ref, visitUnaryCast,
           Cast, Argument, Call, visitPfixSubscri, Subscript, Visiting, At, Scoped, LoopTasks
  <1>2. CASE reportError  BY <1>2, NothingMoves
  <1>3. CASE Ends
    <2>1. UNCHANGED ir \/ \E is : CalmCode(is) /\ Emit(is)  BY <1>3, CalmIns, CalmLoad
    <2> QED BY <1>1, <1>3, <2>1, CalmEnd DEF Expression, decls
  <1>4. CASE \E ts : /\ Do(ts) /\ IsSeq(ts) /\ \A t \in Entries(ts) : Calm(t)
                     /\ UNCHANGED ir /\ Expression
    BY <1>1, <1>4, CalmDo DEF Expression, decls
  <1> HIDE DEF Ends
  <1>5. /\ Calm(T("rvalue")) /\ Calm(T("int")) /\ Calm(T("assign")) /\ Calm(T("deref")) /\ Calm(T("ref"))
        /\ Calm(T("index")) /\ Calm(After("binary", node, 0)) /\ Calm(After("cast", node, 0))
    BY CalmTask DEF Jumps, LoopTasks
  <1>6. todo # <<>> /\ Head(todo) # <<>>  BY <1>1 DEF Scoped
  <1>7. now.do = "visit" => Calm(V(Kid(1))) /\ Calm(V(Kid(2)))  BY <1>6, CalmKid
  <1>8. CASE visitPrimIntLit
    BY <1>2, <1>3, <1>8 DEF visitPrimIntLit, Ends, Jumps
  <1>9. CASE visitPrimIdent
    BY <1>2, <1>3, <1>9 DEF visitPrimIdent, Ends, Jumps
  <1>10. CASE castToRValue  BY <1>3, <1>10 DEF castToRValue, Ends
  <1>11. CASE typeCheckInt  BY <1>2, <1>3, <1>11 DEF typeCheckInt, Ends
  <1>12. CASE visitExprAssign
    BY <1>4, <1>5, <1>7, <1>12, Four DEF visitExprAssign, Visiting, At
  <1>13. CASE Assigned  BY <1>2, <1>3, <1>13 DEF Assigned, Ends, Jumps
  <1>14. CASE TernaryEnd  BY <1>2, <1>3, <1>14 DEF TernaryEnd, Ends
  <1>15. CASE visitBinary
    <2>1. PICK check : /\ check = T("int") \/ check = T("rvalue")
                       /\ Do(<<V(Kid(1)), check, V(Kid(2)), check, After("binary", node, 0)>>)
      BY <1>15 DEF visitBinary
    <2> QED BY <1>4, <1>5, <1>7, <1>15, <2>1, Five DEF visitBinary, Visiting, At
  <1>16. CASE Binary
    <2>1. CASE \E s \in Results(node.name, Second, Top) :
                  Do(<<>>) /\ Emit(<<Ins(s.op, "", 0)>>) /\ Returned(s.type, 2) /\ Expression
      <3>1. PICK s \in Results(node.name, Second, Top) : Do(<<>>) /\ Emit(<<Ins(s.op, "", 0)>>) /\ Expression
        BY <2>1
      <3>2. s.op \notin {"label"} \cup Jumps
        <4>1. CASE node.name \in IntOps  BY <4>1 DEF Results, IntOps, Jumps
        <4>2. CASE node.name \in {"eq", "neq"}  BY <4>2 DEF Results, IntOps, Jumps
        <4>3. CASE node.name \notin IntOps \cup {"eq", "neq"}
          <5>1. s \in Sums(node.name, Second, Top)  BY <4>3 DEF Results
          <5> QED BY <5>1 DEF Sums, Jumps
        <4> QED BY <4>1, <4>2, <4>3
      <3> QED BY <3>1, <3>2, <1>3 DEF Ends
    <2> QED BY <1>2, <1>16, <2>1 DEF Binary
  <1>17. CASE visitUnaryOp
    <2>1. now.do = "visit" /\ node.kind = "unary" /\ Do(<<V(Kid(1)), T("int"), E(node.name, "", 0)>>)
          /\ UNCHANGED ir /\ Expression
      BY <1>17 DEF visitUnaryOp, Visiting, At
    <2>2. node \in Nodes  BY <2>1, <1>6, Children
    <2>3. node.name \in {"notl", "notb", "neg"}  BY <2>1, <2>2, GrammarAssumption DEF Grammar
    <2>4. Calm(E(node.name, "", 0))  BY <2>3, CalmTask DEF Jumps, LoopTasks
    <2> QED BY ZenonT(60), <1>4, <1>5, <1>7, <2>1, <2>4, Three
  <1>18. CASE visitUnaryAddr
    <2>1. now.do = "visit" /\ UNCHANGED ir /\ Expression  BY <1>18 DEF visitUnaryAddr, Visiting, At
    <2>2. CASE Do(<<V(Kid(1)), T("rvalue"), T("deref")>>)  BY <1>4, <1>5, <1>7, <2>1, <2>2, Three
    <2>3. CASE Do(<<V(Kid(1)), T("ref")>>)  BY <1>4, <1>5, <1>7, <2>1, <2>3, Two
    <2> QED BY <1>18, <2>2, <2>3 DEF visitUnaryAddr
  <1>19. CASE Deref  BY <1>2, <1>3, <1>19 DEF Deref, Ends
  <1>20. CASE Ref  BY <1>2, <1>3, <1>20 DEF Ref, Ends
  <1>21. CASE visitUnaryCast
    BY <1>4, <1>5, <1>7, <1>21, Two DEF visitUnaryCast, Visiting, At
  <1>22. CASE Cast  BY <1>3, <1>22 DEF Cast, Ends
  <1>23. CASE Argument  BY <1>2, <1>3, <1>23 DEF Argument, Ends
  <1>24. CASE Call  BY <1>3, <1>24 DEF Call, Ends, Jumps
  <1>25. CASE visitPfixSubscri
    BY <1>4, <1>5, <1>7, <1>25, Five DEF visitPfixSubscri, Visiting, At
  <1>26. CASE Subscript
    <2>1. CASE /\ Emit(<<Ins("push", "", Head(baseType(Second).sizes)), Ins("mul", "", 0), Ins("addpi", "", 0)>>)
               /\ Do(<<>>) /\ Expression
      <3> DEFINE x == Ins("push", "", Head(baseType(Second).sizes))
                 y == Ins("mul", "", 0)
                 z == Ins("addpi", "", 0)
      <3>1. {x.op, y.op, z.op} \cap ({"label"} \cup Jumps) = {}  BY DEF Ins, Jumps
      <3>2. Emit(<<x, y, z>>)  BY <2>1
      <3> HIDE DEF x, y, z
      <3>3. CalmCode(<<x, y, z>>)
        <4>1. IsSeq(<<x, y, z>>) /\ Entries(<<x, y, z>>) = {x, y, z}  BY Three
        <4>2. \A i \in DOMAIN <<x, y, z>> : <<x, y, z>>[i] \in {x, y, z}  BY <4>1 DEF Entries
        <4> QED BY <4>1, <4>2, <3>1 DEF CalmCode
      <3> QED BY <1>1, <2>1, <3>2, <3>3, CalmEnd DEF Expression, decls
    <2>2. CASE Emit(<<Ins("addpi", "", 0)>>) /\ Do(<<>>) /\ Expression
      BY <1>3, <2>2 DEF Ends, Jumps
    <2> QED BY <1>2, <1>26, <2>1, <2>2 DEF Subscript
  <1> QED BY <1>8, <1>9, <1>10, <1>11, <1>12, <1>13, <1>14, <1>15, <1>16, <1>17, <1>18, <1>19,
             <1>20, <1>21, <1>22, <1>23, <1>24, <1>25, <1>26

\* The arguments of a call, last first.
LEMMA CallLabels ==
  ASSUME LInv, visitPfixFCall
  PROVE  LInv'
  <1>1. Scoped /\ now.do = "visit" /\ todo # <<>> /\ Head(todo) # <<>>
    BY DEF visitPfixFCall, Visiting, At, Scoped, LoopTasks
  <1>2. CASE reportError  BY <1>2, NothingMoves
  <1>3. CASE ~reportError
    <2> DEFINE n == Len(node.kids)
               arg(i) == LET k == n - (i - 1) \div 2
                         IN  IF i % 2 = 1 THEN V(node.kids[k]) ELSE After("arg", node, k)
               call == After("call", node, 0)
    <2>1. Do([i \in 1 .. 2 * n |-> arg(i)] \o <<call>>) /\ UNCHANGED ir /\ Expression
      BY <1>3 DEF visitPfixFCall
    <2>2. node.kids \in Seq(Nodes)  BY <1>1, Children
    <2>3. n \in Nat /\ DOMAIN node.kids = 1 .. n  BY <2>2
    <2>4. ASSUME NEW i \in 1 .. 2 * n  PROVE Calm(arg(i))
      <3> DEFINE k == n - (i - 1) \div 2
      <3>1. k \in 1 .. n
        <4>1. PICK m \in Nat : m = n  BY <2>3
        <4>2. i \in 1 .. 2 * m  BY <4>1
        <4>3. m - (i - 1) \div 2 \in 1 .. m
          <5> DEFINE q == (i - 1) \div 2
          <5>1. i - 1 >= 0 /\ i - 1 < 2 * m /\ i - 1 \in Int  BY <4>2, <4>1
          <5>2. q \in Int /\ 2 * q <= i - 1 /\ i - 1 < 2 * q + 2  BY ONLY <5>1
          <5> HIDE DEF q
          <5>3. q \in 0 .. m - 1  BY <4>1, <5>1, <5>2
          <5>4. m - q \in 1 .. m  BY ONLY <4>1, <5>3
          <5> QED BY <5>4 DEF q
        <4> QED BY <4>1, <4>3
      <3>2. k \in Nat /\ Kid(k) = node.kids[k]  BY <3>1, <2>3 DEF Kid
      <3>3. Calm(V(node.kids[k]))  BY <3>2, <1>1, CalmKid
      <3> HIDE DEF k
      <3>4. Calm(After("arg", node, k))  BY CalmTask DEF Jumps, LoopTasks
      <3> QED BY <3>3, <3>4 DEF k
    <2>5. Calm(call)  BY CalmTask DEF Jumps, LoopTasks
    <2> HIDE DEF n, arg, call
    <2>6. PICK l : l = [i \in 1 .. 2 * n |-> arg(i)]  OBVIOUS
    <2>7. /\ IsSeq(l)
          /\ \A t \in Entries(l) : Calm(t)
      <3>1. 2 * n \in Nat  BY <2>3
      <3>2. l \in Seq({arg(i) : i \in 1 .. 2 * n})  BY <2>6, <3>1
      <3>3. \A t \in Entries(l) : Calm(t)  BY <2>4, <2>6 DEF Entries
      <3>4. IsSeq(l)  BY <3>2 DEF IsSeq
      <3> QED BY <3>3, <3>4
    <2>8. /\ IsSeq(l \o <<call>>)
          /\ Entries(l \o <<call>>) = Entries(l) \cup {call}
      <3>1. PICK c : c = <<call>>  OBVIOUS
      <3>2. IsSeq(c) /\ Entries(c) = {call}  BY <3>1, One
      <3>3. IsSeq(l \o c) /\ Entries(l \o c) = Entries(l) \cup Entries(c)  BY <2>7, <3>2, JoinLists
      <3> QED BY <3>1, <3>2, <3>3
    <2>9. \A t \in Entries(l \o <<call>>) : Calm(t)  BY <2>5, <2>7, <2>8
    <2> QED BY <1>1, <2>1, <2>6, <2>8, <2>9, CalmDo DEF Expression, decls
  <1> QED BY <1>2, <1>3

\* The items of a block.
LEMMA CalmItems ==
  ASSUME LInv, todo # <<>>, Head(todo) # <<>>, now.do = "visit"
  PROVE  IsSeq(Items) /\ \A t \in Entries(Items) : Calm(t)
  <1>1. node.kids \in Seq(Nodes)  BY Children
  <1>2. Len(node.kids) \in Nat /\ DOMAIN node.kids = 1 .. Len(node.kids)  BY <1>1
  <1> DEFINE v(i) == V(node.kids[i])
  <1>3. \A i \in 1 .. Len(node.kids) : Calm(v(i))
    <2>1. ASSUME NEW i \in 1 .. Len(node.kids)  PROVE Calm(v(i))
      <3>1. i \in Nat /\ Kid(i) = node.kids[i]  BY <1>2 DEF Kid
      <3> QED BY <3>1, CalmKid
    <2> QED BY <2>1
  <1>4. Items = [i \in 1 .. Len(node.kids) |-> v(i)]  BY <1>2 DEF Items
  <1> HIDE DEF v
  <1>5. Items \in Seq({v(i) : i \in 1 .. Len(node.kids)})  BY <1>2, <1>4
  <1> QED BY <1>3, <1>4, <1>5 DEF IsSeq, Entries

\* Statements and declarations without labels of their own.
LEMMA CalmStatements ==
  ASSUME LInv,
         \/ DroppedValue \/ visitStmtRet \/ Return \/ visitStmtExpr
         \/ visitCompoundStatement \/ visitDeclLoNaive \/ Initialize \/ visitDeclLoArray
  PROVE  LInv'
  <1>1. Scoped
    BY DEF DroppedValue, visitStmtRet, Return, visitStmtExpr, visitCompoundStatement, visitDeclLoNaive,
           Initialize, visitDeclLoArray, Visiting, At, Scoped, LoopTasks
  <1>2. CASE reportError  BY <1>2, NothingMoves
  <1>3. CASE /\ Do(<<>>) /\ UNCHANGED <<labels, currentFunc>>
             /\ \/ UNCHANGED ir
                \/ \E op, name, n : op \notin {"label"} \cup Jumps /\ Emit(<<Ins(op, name, n)>>)
    <2>1. UNCHANGED ir \/ \E is : CalmCode(is) /\ Emit(is)  BY <1>3, CalmIns
    <2> QED BY <1>1, <1>3, <2>1, CalmEnd
  <1>4. CASE \E ts : /\ Do(ts) \/ startScope(ts)
                     /\ IsSeq(ts) /\ \A t \in Entries(ts) : Calm(t)
                     /\ UNCHANGED <<ir, labels, currentFunc>>
    BY <1>1, <1>4, CalmDo
  <1>5. Calm(T("rvalue")) /\ Calm(T("drop")) /\ Calm(T("return")) /\ Calm(After("init", node, 0))
    BY CalmTask DEF Jumps, LoopTasks
  <1>6. todo # <<>> /\ Head(todo) # <<>>  BY <1>1 DEF Scoped
  <1>7. now.do = "visit" => Calm(V(Kid(1)))  BY <1>6, CalmKid
  <1>8. CASE DroppedValue  BY <1>3, <1>8 DEF DroppedValue, Expression, decls, Jumps
  <1>9. CASE visitStmtRet
    BY <1>4, <1>5, <1>7, <1>9, Three DEF visitStmtRet, Visiting, At, Expression, decls
  <1>10. CASE Return  BY <1>2, <1>3, <1>10 DEF Return, Expression, decls, Jumps
  <1>11. CASE visitStmtExpr
    <2>1. CASE Kid(1) = NoNode
      BY <1>3, <1>11, <2>1 DEF visitStmtExpr, Maybe, Expression, decls
    <2>2. CASE Kid(1) # NoNode
      BY <1>4, <1>5, <1>7, <1>11, <2>2, Two DEF visitStmtExpr, Maybe, Visiting, At, Expression, decls
    <2> QED BY <2>1, <2>2
  <1>12. CASE visitCompoundStatement
    <2>1. now.do = "visit" /\ startScope(Items) /\ UNCHANGED <<ir, labels, currentFunc>>
      BY <1>12 DEF visitCompoundStatement, Visiting, At, decls
    <2> QED BY <1>4, <1>6, <2>1, CalmItems
  <1>13. CASE visitDeclLoNaive /\ ~reportError
    <2>1. /\ now.do = "visit" /\ UNCHANGED <<ir, labels, currentFunc>>
          /\ Do(Maybe(Kid(1), <<V(Kid(1)), T("rvalue"), After("init", node, 0)>>))
      BY <1>13 DEF visitDeclLoNaive, Visiting, At, decls
    <2>2. CASE Kid(1) = NoNode  BY <1>3, <2>1, <2>2 DEF Maybe
    <2>3. CASE Kid(1) # NoNode
      BY <1>4, <1>5, <1>7, <2>1, <2>3, Three DEF Maybe
    <2> QED BY <2>2, <2>3
  <1>14. CASE Initialize /\ ~reportError
    <2> DEFINE x == Ins("frameaddr", "", localCntr - 1)
               y == Ins("store", "", 0)
               z == Ins("pop", "", 0)
    <2>1. Do(<<>>) /\ Emit(<<x, y, z>>) /\ Expression  BY <1>14 DEF Initialize
    <2>2. {x.op, y.op, z.op} \cap ({"label"} \cup Jumps) = {}  BY DEF Ins, Jumps
    <2> HIDE DEF x, y, z
    <2>3. CalmCode(<<x, y, z>>)
      <3>1. IsSeq(<<x, y, z>>) /\ Entries(<<x, y, z>>) = {x, y, z}  BY Three
      <3>2. \A i \in DOMAIN <<x, y, z>> : <<x, y, z>>[i] \in {x, y, z}  BY <3>1 DEF Entries
      <3> QED BY <3>1, <3>2, <2>2 DEF CalmCode
    <2> QED BY <1>1, <2>1, <2>3, CalmEnd DEF Expression, decls
  <1>15. CASE visitDeclLoArray /\ ~reportError
    <2>1. Do(<<>>) /\ UNCHANGED <<ir, labels, currentFunc>>
      BY <1>15 DEF visitDeclLoArray, decls
    <2> QED BY <2>1, <1>3
  <1> QED BY <1>2, <1>8, <1>9, <1>10, <1>11, <1>12, <1>13, <1>14, <1>15

\* Globals and declarations of functions.
LEMMA TopLabels ==
  ASSUME LInv, visitDeclGlNaive \/ visitDeclGlArray \/ visitFuncDecl
  PROVE  LInv'
  <1>1. CASE reportError  BY <1>1, NothingMoves
  <1>2. CASE ~reportError
    <2>1. Len(todo) = 1 /\ Head(todo) # <<>> /\ Do(<<>>) /\ UNCHANGED <<ir, labels, currentFunc>>
      BY <1>2 DEF visitDeclGlNaive, visitDeclGlArray, visitFuncDecl, TopLevel, Global
    <2>2. now.do = "visit" /\ todo # <<>>
      <3>1. PICK S : todo \in Seq(S)  BY DEF LInv, LShape, IsSeq
      <3>2. todo # <<>> /\ Head(todo) = todo[1] /\ 1 \in DOMAIN todo  BY <2>1, <3>1
      <3>3. PICK D : Head(todo) \in Seq(D)  BY <3>2 DEF LInv, LShape, IsSeq
      <3>4. now \in Entries(Head(todo))  BY <3>3, <2>1, RestSeq DEF now
      <3> QED BY <3>2, <3>4, <2>1 DEF LInv, TopSound
    <2>3. Advanced(<<>>)  BY <2>1, None DEF Advanced, Do
    <2>4. CalmCode(<<>>) /\ ir' = ir \o <<>>
      BY <2>1, None DEF CalmCode, LInv, LShape, IsSeq
    <2> QED BY <2>1, <2>2, <2>3, <2>4, None, CalmStep DEF LoopTasks
  <1> QED BY <1>1, <1>2

\* Between functions nothing is left to be done but to visit top-level nodes.
LEMMA AtTop ==
  ASSUME LInv, Len(todo) = 1, Head(todo) # <<>>
  PROVE  /\ todo # <<>> /\ now.do = "visit"
         /\ Outer = {} /\ \A t \in Pending : t.do = "visit"
  <1>1. PICK S : todo \in Seq(S)  BY DEF LInv, LShape, IsSeq
  <1>2. todo # <<>> /\ Head(todo) = todo[1] /\ 1 \in DOMAIN todo /\ \A j \in DOMAIN todo : j = 1
    <2>1. DOMAIN todo = 1 .. Len(todo)  BY <1>1
    <2>2. todo # <<>>  OBVIOUS
    <2>3. DOMAIN todo = 1 .. 1  BY <2>1
    <2>4. Head(todo) = todo[1]  BY <1>1
    <2> QED BY <2>2, <2>3, <2>4
  <1>3. \A t \in Entries(todo[1]) : t.do = "visit"  BY <1>2 DEF LInv, TopSound
  <1>4. Outer = {}  BY DEF Outer
  <1>5. \A t \in Pending : t.do = "visit"
    BY <1>2, <1>3 DEF Pending
  <1>6. now \in Pending  BY <1>2, FirstTask DEF LInv
  <1> QED BY <1>2, <1>4, <1>5, <1>6

\* A function begins: the labels of others are behind it.
LEMMA FunctionLabels ==
  ASSUME LInv, visitFuncDef
  PROVE  LInv'
  <1>1. CASE reportError  BY <1>1, NothingMoves
  <1>2. CASE ~reportError
    <2>1. /\ Len(todo) = 1 /\ Head(todo) # <<>> /\ todo' = <<Items, Rest>> /\ UNCHANGED labels
          /\ Emit(<<[Ins("func", node.name, 0) EXCEPT !.of = node.name]>>)
      BY <1>2 DEF visitFuncDef, TopLevel
    <2>2. todo # <<>> /\ now.do = "visit" /\ Outer = {} /\ \A t \in Pending : t.do = "visit"
      BY <2>1, AtTop
    <2>3. /\ IsSeq(Rest) /\ Ordered(Rest) /\ Pending = {now} \cup Entries(Rest)
      BY <2>1, <2>2, FirstTask DEF LInv, Later
    <2>4. IsSeq(Items) /\ \A t \in Entries(Items) : Calm(t)  BY <2>1, <2>2, CalmItems
    <2>5. PICK x, y : x = Items /\ y = Rest  OBVIOUS
    <2>6. PICK front : front = <<x, y>>  OBVIOUS
    <2>7. /\ DOMAIN front = {1, 2} /\ front[1] = x /\ front[2] = y /\ Len(front) = 2 /\ IsSeq(front)
          /\ todo' = front \o Tail(todo)
      <3>1. PICK S : todo \in Seq(S)  BY DEF LInv, LShape, IsSeq
      <3>2. Tail(todo) \in Seq(S) /\ Len(Tail(todo)) = Len(todo) - 1
        <4>1. Len(todo) > 0  BY <2>1
        <4> QED BY <3>1, <4>1, PopSeq
      <3>3. Len(Tail(todo)) = 0  BY <3>2, <2>1
      <3>4. PICK rest \in Seq(S) : rest = Tail(todo) /\ Len(rest) = 0  BY <3>2, <3>3
      <3>5. rest = <<>>  BY ONLY <3>4
      <3>6. front \o Tail(todo) = front
        <4>1. front \in Seq({x, y})  BY <2>6
        <4>2. front \o <<>> = front  BY ONLY <4>1
        <4> QED BY <4>2, <3>4, <3>5
      <3> QED BY <2>1, <2>5, <2>6, <3>6, Two
    <2>8. \A t \in Entries(x) : Calm(t) /\ t.do \notin {"label", "if"} \cup Jumps \cup LoopTasks
      BY <2>4, <2>5 DEF Calm
    <2>9. \A t \in Entries(y) : t.do = "visit"  BY <2>2, <2>3, <2>5
    <2>10. \A t, u : t.do \notin {"label", "if"} \cup LoopTasks /\ u.do \notin {"label", "if"} \cup LoopTasks => Apart(t, u)
      BY DEF Apart
    <2>11. /\ IsSeq(todo') /\ \A j \in DOMAIN todo' : IsSeq(todo'[j])
           /\ InOrder' /\ TopSound'
           /\ Pending' = (UNION {Entries(front[j]) : j \in DOMAIN front}) \cup Outer
      <3>1. Ordered(x)  BY <2>8, <2>10 DEF Ordered, Entries
      <3>2. \A j \in DOMAIN front : IsSeq(front[j]) /\ Ordered(front[j])
        BY <3>1, <2>3, <2>4, <2>5, <2>7
      <3>3. \A t \in Entries(x), u \in Entries(y) : Apart(t, u)
        BY <2>8, <2>9, <2>10 DEF LoopTasks
      <3>4. \A j, k \in DOMAIN front : j < k => \A t \in Entries(front[j]), u \in Entries(front[k]) : Apart(t, u)
        BY <3>3, <2>7
      <3>5. Len(todo) = 1 => front = <<>> \/ \A t \in Entries(front[Len(front)]) : t.do = "visit"
        BY <2>7, <2>9
      <3>6. \A j \in DOMAIN front : \A t \in Entries(front[j]), u \in Outer : Apart(t, u)
        BY <2>2
      <3> QED BY <2>2, <2>7, <3>2, <3>4, <3>5, <3>6, Fronted DEF LInv
    <2>12. Pending' = Entries(x) \cup Entries(y)
      <3>1. UNION {Entries(front[j]) : j \in DOMAIN front} = Entries(x) \cup Entries(y)  BY <2>7
      <3> QED BY <3>1, <2>2, <2>11
    <2>13. \A t \in Pending' : /\ t.do \notin {"label", "if"} \cup Jumps \cup LoopTasks
                               /\ t.do = "visit" => t.node \in Nodes
      <3>1. \A t \in Entries(x) : t.do = "visit" => t.node \in Nodes  BY <2>8 DEF Calm
      <3>2. \A t \in Entries(y) : t.node \in Nodes
        BY <2>3, <2>5, <2>9 DEF LInv, Sound, TasksSound, TaskSound
      <3> QED BY <2>8, <2>9, <2>12, <3>1, <3>2 DEF Jumps, LoopTasks
    <2>14. PICK is : is = <<[Ins("func", node.name, 0) EXCEPT !.of = node.name]>>  OBVIOUS
    <2>15. ir' = ir \o is  BY <2>1, <2>14 DEF Emit
    <2>16. CalmCode(is)
      <3>1. PICK i : i = [Ins("func", node.name, 0) EXCEPT !.of = node.name]  OBVIOUS
      <3>2. i.op = "func"  BY <3>1 DEF Ins
      <3>3. is = <<i>>  BY <2>14, <3>1
      <3> QED BY <3>2, <3>3, One DEF CalmCode, Jumps
    <2>17. /\ IsSeq(ir')
           /\ \A i \in DOMAIN ir : i \in DOMAIN ir' /\ ir'[i] = ir[i]
           /\ \A i \in DOMAIN ir' : ir'[i].op \in {"label"} \cup Jumps => i \in DOMAIN ir /\ ir'[i] = ir[i]
      BY <2>15, <2>16, CalmGrows
    <2>18. UNCHANGED <<labelCntr, loopCntr, loopStack>>  BY <2>1 DEF labels
    <2>19. LShape'  BY <2>11, <2>17, <2>18 DEF LInv, LShape, IsSeq
    <2>20. LabelsSound'
      <3>1. \A t : Numbered(t)' <=> Numbered(t)  BY <2>18 DEF Numbered, InUse
      <3>2. \A i \in DOMAIN ir' : ir'[i].op = "label" => i \in DOMAIN ir /\ ir'[i] = ir[i] /\ Numbered(ir[i])'
        BY <2>17, <3>1 DEF LInv, Sound, LabelsSound
      <3> QED BY <3>2 DEF LInv, Sound, LabelsSound, SameLabel, Numbered, InUse
    <2>21. TasksSound'
      <3>1. \A t \in Pending' : TaskSound(t)'  BY <2>13 DEF TaskSound, LoopTasks
      <3> QED BY <3>1 DEF TasksSound
    <2>22. JumpsSound'
      <3>1. ASSUME NEW i \in DOMAIN ir', ir'[i].op \in Jumps
            PROVE  \E k \in DOMAIN ir' : ir'[k].op = "label" /\ SameLabel(ir'[k], ir'[i]) /\ ir'[k].of = ir'[i].of
        <4>1. i \in DOMAIN ir /\ ir'[i] = ir[i]  BY <3>1, <2>17
        <4>2. ~Has(Pending, ir[i].name, ir[i].n)  BY <2>2 DEF Has
        <4>3. \E k \in DOMAIN ir : ir[k].op = "label" /\ SameLabel(ir[k], ir[i]) /\ ir[k].of = ir[i].of
          BY <3>1, <4>1, <4>2 DEF LInv, Sound, JumpsSound
        <4> QED BY <4>1, <4>3, <2>17
      <3> QED BY <3>1 DEF JumpsSound, SameLabel
    <2>23. LoopsSound'
      <3>1. Entries(loopStack) = {}
        BY <2>2 DEF LInv, Sound, LoopsSound, Inside
      <3>2. \A t \in Pending' : t.do # "leave"  BY <2>13 DEF LoopTasks
      <3> QED BY <3>1, <3>2, <2>18 DEF LInv, Sound, LoopsSound, Entries
    <2> QED BY <2>11, <2>19, <2>20, <2>21, <2>22, <2>23 DEF LInv, Sound
  <1> QED BY <1>1, <1>2
-----------------------------------------------------------------------------
(* Steps that set out labels                                               *)

\* A stretch of the tasks of a statement whose labels have number n. It has the labels in names;
\* its jumps are to labels of F; it has the begin and the end of the loops in L.
Part(ts, n, F, names, L) ==
  /\ IsSeq(ts) /\ Ordered(ts)
  /\ \A t \in Entries(ts) :
        /\ t.do # "if"
        /\ t.do = "visit" => t.node \in Nodes
        /\ t.do = "label" => t.n = n /\ t.name \in names
        /\ t.do \in Jumps => t.n = n /\ t.name \in F
        /\ t.do \in LoopTasks => t.n \in L
  /\ \A x \in names : Has(Entries(ts), x, n)
  /\ \A m \in L : /\ \E t \in Entries(ts) : t.do = "enter" /\ t.n = m
                  /\ \E t \in Entries(ts) : t.do = "leave" /\ t.n = m

\* Two stretches of a statement, one after the other.
LEMMA PartJoin ==
  ASSUME NEW n, NEW F, NEW N1, NEW N2, NEW L1, NEW L2, N1 \cap N2 = {}, L1 = {} \/ L2 = {},
         NEW a, Part(a, n, F, N1, L1), NEW b, Part(b, n, F, N2, L2)
  PROVE  Part(a \o b, n, F, N1 \cup N2, L1 \cup L2)
  <1>1. IsSeq(a) /\ IsSeq(b) /\ Ordered(a) /\ Ordered(b)  BY DEF Part
  <1>2. \A t \in Entries(a), u \in Entries(b) : Apart(t, u)
    BY DEF Part, Apart, SameLabel
  <1>3. IsSeq(a \o b) /\ Entries(a \o b) = Entries(a) \cup Entries(b)  BY <1>1, JoinLists
  <1>4. Ordered(a \o b)  BY <1>1, <1>2, JoinOrdered
  <1>5. PICK s : s = a \o b  OBVIOUS
  <1>6. Entries(s) = Entries(a) \cup Entries(b) /\ IsSeq(s) /\ Ordered(s)  BY <1>3, <1>4, <1>5
  <1>7. \A x \in N1 \cup N2 : Has(Entries(s), x, n)  BY <1>6 DEF Part, Has
  <1>8. \A t \in Entries(s) :
          /\ t.do # "if"
          /\ t.do = "visit" => t.node \in Nodes
          /\ t.do = "label" => t.n = n /\ t.name \in N1 \cup N2
          /\ t.do \in Jumps => t.n = n /\ t.name \in F
          /\ t.do \in LoopTasks => t.n \in L1 \cup L2
    BY <1>6 DEF Part
  <1>9. \A m \in L1 \cup L2 : /\ \E t \in Entries(s) : t.do = "enter" /\ t.n = m
                              /\ \E t \in Entries(s) : t.do = "leave" /\ t.n = m
    BY <1>6 DEF Part
  <1>10. Part(s, n, F, N1 \cup N2, L1 \cup L2)  BY ZenonT(60), <1>6, <1>7, <1>8, <1>9 DEF Part
  <1> QED BY <1>5, <1>10

\* A stretch without a loop.
LEMMA PartPlain ==
  ASSUME NEW ts, IsSeq(ts), NEW n, NEW F, NEW names,
         \A t \in Entries(ts) :
            /\ t.do \notin {"if"} \cup LoopTasks
            /\ t.do = "visit" => t.node \in Nodes
            /\ t.do = "label" => t.n = n /\ t.name \in names
            /\ t.do \in Jumps => t.n = n /\ t.name \in F,
         \A i, k \in DOMAIN ts : i < k /\ ts[i].do = "label" /\ ts[k].do = "label" => ts[i].name # ts[k].name,
         \A x \in names : Has(Entries(ts), x, n)
  PROVE  Part(ts, n, F, names, {})
  <1>1. Ordered(ts)  BY DEF Ordered, Apart, SameLabel, Entries
  <1> QED BY <1>1 DEF Part

\* A statement sets out its tasks, with labels nothing has yet.
LEMMA LabelStep ==
  ASSUME LInv, Scoped, NEW ts, Do(ts) \/ startScope(ts),
         NEW n, NEW F, NEW L, Part(ts, n, F, F, L),
         Counted, UNCHANGED <<currentFunc, loopStack>>,
         \A t : t.name \in F /\ t.n = n => InUse(t, labelCntr', loopCntr') /\ Unused(t),
         L # {} => /\ L = {n} /\ n \in Nat /\ loopCntr <= n /\ n < loopCntr'
                   /\ ".continue_loop" \in F /\ ".break_loop" \in F,
         InCondition(now) => \A t \in Entries(ts) : InCondition(t),
         NEW is, IsSeq(is), ir' = ir \o is,
         \A i \in DOMAIN is : /\ is[i].op # "label"
                              /\ is[i].op \in Jumps => is[i].of = currentFunc /\ is[i].name \in F /\ is[i].n = n
  PROVE  LInv'
  <1>1. todo # <<>> /\ Head(todo) # <<>> /\ Len(todo) # 1  BY ScopedTodo
  <1>2. Advanced(ts)
    <2>1. IsSeq(ts)  BY DEF Part
    <2>2. CASE Do(ts)  BY <1>1, <2>1, <2>2 DEF Advanced, Do
    <2>3. CASE startScope(ts)  BY <1>1, <2>1, <2>3 DEF Advanced, startScope
    <2> QED BY <2>2, <2>3
  <1>3. \A x \in F : Has(Entries(ts), x, n)  BY DEF Part
  <1>4. ASSUME NEW t \in Entries(ts)  PROVE FreshTask(t, Entries(ts))
    <2>1. /\ t.do # "if"
          /\ t.do = "visit" => t.node \in Nodes
          /\ t.do = "label" => t.n = n /\ t.name \in F
          /\ t.do \in Jumps => t.n = n /\ t.name \in F
          /\ t.do \in LoopTasks => t.n \in L
      BY DEF Part
    <2>2. \A m \in L : /\ \E u \in Entries(ts) : u.do = "enter" /\ u.n = m
                       /\ \E u \in Entries(ts) : u.do = "leave" /\ u.n = m
      BY DEF Part
    <2>3. t.do \in LoopTasks => t.n = n /\ L # {}  BY <2>1
    <2> QED BY <2>1, <2>2, <2>3, <1>3 DEF FreshTask, LoopTasks
  <1>5. NewCode(is, Entries(ts))  BY <1>3 DEF NewCode, Scoped
  <1>6. Moved(is, Entries(ts))  BY <1>1, <1>4, <1>5 DEF Moved, Scoped
  <1>7. Ordered(ts)  BY DEF Part
  <1> QED BY <1>2, <1>6, <1>7, AdvanceStep

\* Labels whose number nothing has yet.
LEMMA NewNumber ==
  ASSUME LInv, NEW t, \A u : Numbered(u) => ~SameLabel(t, u)
  PROVE  Unused(t)
  <1>1. \A u \in Pending : u.do = "label" => Numbered(u)  BY DEF LInv, Sound, TasksSound, TaskSound
  <1>2. \A k \in DOMAIN ir : ir[k].op = "label" => Numbered(ir[k])  BY DEF LInv, Sound, LabelsSound
  <1> QED BY <1>1, <1>2 DEF Unused, Defined, SameLabel

\* A number just given out is new for the labels that take it: a conditional expression
LEMMA NewTernary ==
  ASSUME LInv, labelCntr' = labelCntr + 1, loopCntr' = loopCntr,
         NEW t, t.name \in TernaryLabels, t.n = labelCntr'
  PROVE  InUse(t, labelCntr', loopCntr') /\ Unused(t)
  <1>1. labelCntr \in Nat /\ t.n \in Nat  BY DEF LInv, LShape
  <1>2. \A u : Numbered(u) => ~SameLabel(t, u)
    BY <1>1 DEF Numbered, InUse, SameLabel, TernaryLabels, LoopLabels
  <1> QED BY <1>1, <1>2, NewNumber DEF InUse

\* a loop
LEMMA NewLoop ==
  ASSUME LInv, loopCntr' = loopCntr + 1, NEW t, t.name \in LoopLabels, t.n = loopCntr
  PROVE  InUse(t, labelCntr', loopCntr') /\ Unused(t)
  <1>1. loopCntr \in Nat  BY DEF LInv, LShape
  <1>2. \A u : Numbered(u) => ~SameLabel(t, u)
    BY <1>1 DEF Numbered, InUse, SameLabel, TernaryLabels, IfLabels, LoopLabels
  <1> QED BY <1>1, <1>2, NewNumber DEF InUse

\* and an if, which takes the number its condition left.
LEMMA NewBranch ==
  ASSUME LInv, now \in Pending, now.do = "if", labelCntr' = labelCntr,
         NEW t, t.name \in IfLabels, t.n = labelCntr
  PROVE  InUse(t, labelCntr', loopCntr') /\ Unused(t)
  <1>1. labelCntr \in Nat  BY DEF LInv, LShape
  <1>2. /\ \A u \in Pending : u.do = "label" /\ u.name \in IfLabels => u.n < labelCntr
        /\ \A k \in DOMAIN ir : ir[k].op = "label" /\ ir[k].name \in IfLabels => ir[k].n < labelCntr
    BY DEF LInv, Sound, TasksSound, TaskSound
  <1>3. Unused(t)  BY <1>1, <1>2 DEF Unused, Defined, SameLabel
  <1> QED BY <1>1, <1>3 DEF InUse

\* A task of an expression's or a statement's own.
LEMMA TaskFacts ==
  ASSUME NEW child, NEW do, NEW op, NEW name, NEW n, NEW k
  PROVE  /\ V(child).do = "visit" /\ V(child).node = child
         /\ T(do).do = do
         /\ E(op, name, k).do = op /\ E(op, name, k).name = name /\ E(op, name, k).n = k
         /\ After(do, n, k).do = do /\ After(do, n, k).node = n /\ After(do, n, k).n = k
         /\ Test(op, name, k) = E(op, name, k)
  BY DEF V, T, E, After, Test, Task

\* An if: its number is given out before the condition, its labels only set out after it.
LEMMA ConditionalLabels ==
  ASSUME LInv, visitStmtIf
  PROVE  LInv'
  <1>1. /\ Scoped /\ now.do = "visit" /\ node.kind = "if" /\ todo # <<>> /\ Head(todo) # <<>>
        /\ labelCntr' = labelCntr + 1 /\ UNCHANGED <<ir, loopCntr, loopStack, currentFunc>>
        /\ Do(<<V(Kid(1)), T("int"), After("if", node, 0)>>)
    BY DEF visitStmtIf, Visiting, At, Scoped, LoopTasks, decls
  <1>2. node \in Nodes /\ (InCondition(now) => node \in Expressions)  BY <1>1, Children
  <1>3. ~InCondition(now)  BY <1>1, <1>2, GrammarAssumption DEF Grammar, Statements
  <1>4. Kid(1) \in Expressions /\ Kid(1) \in Nodes
    <2>1. node.kids \in Seq(Nodes) /\ node.kids # <<>> /\ Head(node.kids) \in Expressions
      BY <1>1, <1>2, GrammarAssumption DEF Grammar
    <2>2. 1 \in DOMAIN node.kids /\ Head(node.kids) = node.kids[1]  BY <2>1
    <2> QED BY <2>1, <2>2, GrammarAssumption DEF Kid, Grammar
  <1>5. PICK a, b, c : a = V(Kid(1)) /\ b = T("int") /\ c = After("if", node, 0)  OBVIOUS
  <1>6. a.do = "visit" /\ a.node = Kid(1) /\ b.do = "int" /\ c.do = "if" /\ c.node = node
    BY <1>5, TaskFacts
  <1>7. PICK ts : ts = <<a, b, c>>  OBVIOUS
  <1>8. IsSeq(ts) /\ Entries(ts) = {a, b, c}  BY <1>7, Three
  <1>9. DOMAIN ts = 1 .. 3 /\ ts[1] = a /\ ts[2] = b /\ ts[3] = c  BY <1>7
  <1>10. Ordered(ts)
    <2>1. Apart(a, b) /\ Apart(a, c) /\ Apart(b, c)
      BY <1>4, <1>6 DEF Apart, InCondition, LoopTasks
    <2> QED BY <2>1, <1>9 DEF Ordered
  <1>11. Advanced(ts)
    <2>1. Len(todo) # 1  BY <1>1, ScopedTodo
    <2> QED BY <2>1, <1>1, <1>5, <1>7, <1>8 DEF Advanced, Do
  <1>12. Counted /\ labelCntr < labelCntr'  BY <1>1 DEF Counted, LInv, LShape
  <1>13. \A t \in Entries(ts) : FreshTask(t, Entries(ts))
    BY <1>1, <1>2, <1>4, <1>6, <1>8, <1>12 DEF FreshTask, Jumps, LoopTasks
  <1>14. Moved(<<>>, Entries(ts))
    <2>1. NewCode(<<>>, Entries(ts))  BY <1>1, None DEF NewCode, Scoped
    <2>2. ir' = ir \o <<>>  BY <1>1, NoCode
    <2> QED BY <1>1, <1>3, <1>12, <1>13, <2>1, <2>2 DEF Moved, Scoped
  <1> QED BY <1>10, <1>11, <1>14, AdvanceStep

\* The pieces the statements are made of.
LEMMA PartOne ==
  ASSUME NEW a, NEW n, NEW F,
         \/ a.do = "visit" /\ a.node \in Nodes
         \/ a.do \notin {"visit", "label", "if"} \cup Jumps \cup LoopTasks
         \/ a.do \in Jumps /\ a.n = n /\ a.name \in F
  PROVE  Part(<<a>>, n, F, {}, {})
  <1>1. IsSeq(<<a>>) /\ Entries(<<a>>) = {a} /\ DOMAIN <<a>> = {1}  BY One
  <1>2. PICK s : s = <<a>>  OBVIOUS
  <1>3. Part(s, n, F, {}, {})  BY <1>1, <1>2, PartPlain DEF Jumps, LoopTasks
  <1> QED BY <1>2, <1>3

LEMMA PartLabel ==
  ASSUME NEW a, NEW n, NEW F, a.do = "label", a.n = n
  PROVE  Part(<<a>>, n, F, {a.name}, {})
  <1>1. IsSeq(<<a>>) /\ Entries(<<a>>) = {a} /\ DOMAIN <<a>> = {1}  BY One
  <1>2. PICK s : s = <<a>>  OBVIOUS
  <1>3. \A x \in {a.name} : Has(Entries(s), x, n)  BY <1>1, <1>2 DEF Has
  <1>4. Part(s, n, F, {a.name}, {})  BY <1>1, <1>2, <1>3, PartPlain DEF Jumps, LoopTasks
  <1> QED BY <1>2, <1>4

LEMMA PartNone ==
  ASSUME NEW n, NEW F
  PROVE  Part(<<>>, n, F, {}, {})
  <1>1. PICK s : s = <<>>  OBVIOUS
  <1>2. Part(s, n, F, {}, {})  BY <1>1, None, PartPlain
  <1> QED BY <1>1, <1>2

\* The body of a loop: enter, statement, leave, and the label that continue jumps to.
LEMMA PartBody ==
  ASSUME NEW child \in Nodes, NEW n
  PROVE  Part(Body(child, n), n, LoopLabels, {".continue_loop"}, {n})
  <1>1. PICK a, b, c, d : /\ a = After("enter", NoNode, n) /\ b = V(child)
                          /\ c = After("leave", NoNode, n) /\ d = E("label", ".continue_loop", n)
    OBVIOUS
  <1>2. /\ a.do = "enter" /\ a.n = n /\ b.do = "visit" /\ b.node = child /\ c.do = "leave" /\ c.n = n
        /\ d.do = "label" /\ d.name = ".continue_loop" /\ d.n = n
    BY <1>1, TaskFacts
  <1>3. PICK s : s = <<a, b, c, d>>  OBVIOUS
  <1>4. Body(child, n) = s  BY <1>1, <1>3 DEF Body
  <1>5. IsSeq(s) /\ Entries(s) = {a, b, c, d}  BY <1>3, Four
  <1>6. DOMAIN s = 1 .. 4 /\ s[1] = a /\ s[2] = b /\ s[3] = c /\ s[4] = d  BY <1>3
  <1>7. Ordered(s)
    <2>1. Apart(a, b) /\ Apart(a, c) /\ Apart(a, d) /\ Apart(b, c) /\ Apart(b, d) /\ Apart(c, d)
      BY <1>2 DEF Apart, LoopTasks
    <2> QED BY <2>1, <1>6 DEF Ordered
  <1>8. \A x \in {".continue_loop"} : Has(Entries(s), x, n)  BY <1>2, <1>5 DEF Has
  <1>9. Part(s, n, LoopLabels, {".continue_loop"}, {n})
    BY <1>2, <1>5, <1>7, <1>8 DEF Part, Jumps, LoopTasks
  <1> QED BY <1>4, <1>9

\* What is before the body of a loop, and the body.
LEMMA PartOpen ==
  ASSUME NEW child \in Nodes, NEW n, NEW pre, Part(pre, n, LoopLabels, {".begin_loop"}, {})
  PROVE  Part(pre \o Body(child, n), n, LoopLabels, {".begin_loop", ".continue_loop"}, {n})
  <1>1. PICK b : b = Body(child, n)  OBVIOUS
  <1>2. Part(b, n, LoopLabels, {".continue_loop"}, {n})  BY <1>1, PartBody
  <1>3. {".begin_loop"} \cap {".continue_loop"} = {}  OBVIOUS
  <1>4. Part(pre \o b, n, LoopLabels, {".begin_loop"} \cup {".continue_loop"}, {} \cup {n})
    BY <1>2, <1>3, PartJoin
  <1>5. {".begin_loop"} \cup {".continue_loop"} = {".begin_loop", ".continue_loop"} /\ {} \cup {n} = {n}  OBVIOUS
  <1>6. Part(pre \o b, n, LoopLabels, {".begin_loop", ".continue_loop"}, {n})  BY <1>4, <1>5
  <1> QED BY <1>1, <1>6

\* What is after it.
LEMMA PartClose ==
  ASSUME NEW n, NEW s, Part(s, n, LoopLabels, {".begin_loop", ".continue_loop"}, {n}),
         NEW post, Part(post, n, LoopLabels, {".break_loop"}, {})
  PROVE  Part(s \o post, n, LoopLabels, LoopLabels, {n})
  <1>1. {".begin_loop", ".continue_loop"} \cap {".break_loop"} = {}  OBVIOUS
  <1>2. Part(s \o post, n, LoopLabels, {".begin_loop", ".continue_loop"} \cup {".break_loop"}, {n} \cup {})
    BY <1>1, PartJoin
  <1>3. {".begin_loop", ".continue_loop"} \cup {".break_loop"} = LoopLabels /\ {n} \cup {} = {n}
    BY DEF LoopLabels
  <1> QED BY <1>2, <1>3

\* A loop sets out its tasks.
LEMMA LoopStep ==
  ASSUME LInv, Visiting("while") \/ Visiting("do") \/ Visiting("for"),
         loopCntr' = loopCntr + 1, UNCHANGED <<ir, labelCntr, loopStack, currentFunc>>,
         NEW ts, Do(ts) \/ startScope(ts), Part(ts, loopCntr, LoopLabels, LoopLabels, {loopCntr})
  PROVE  LInv'
  <1>1. /\ Scoped /\ now.do = "visit" /\ node.kind \in {"while", "do", "for"}
        /\ todo # <<>> /\ Head(todo) # <<>>
    BY DEF Visiting, At, Scoped, LoopTasks
  <1>2. ~InCondition(now)  BY <1>1, Children DEF Statements
  <1>3. loopCntr \in Nat /\ labelCntr \in Nat  BY DEF LInv, LShape
  <1>4. Counted  BY <1>3 DEF Counted
  <1>5. ir' = ir \o <<>> /\ IsSeq(<<>>) /\ DOMAIN <<>> = {}  BY None, NoCode
  <1>6. PICK n, is : n = loopCntr /\ is = <<>>  OBVIOUS
  <1>7. Part(ts, n, LoopLabels, LoopLabels, {n})  BY <1>6
  <1>8. \A t : t.name \in LoopLabels /\ t.n = n => InUse(t, labelCntr', loopCntr') /\ Unused(t)
    BY <1>6, NewLoop
  <1>9. {n} # {} => /\ {n} = {n} /\ n \in Nat /\ loopCntr <= n /\ n < loopCntr'
                    /\ ".continue_loop" \in LoopLabels /\ ".break_loop" \in LoopLabels
    BY <1>3, <1>6 DEF LoopLabels
  <1>10. IsSeq(is) /\ ir' = ir \o is /\ DOMAIN is = {}  BY <1>5, <1>6
  <1> QED BY <1>1, <1>2, <1>4, <1>7, <1>8, <1>9, <1>10, LabelStep

\* The loops.
LEMMA WhileLabels ==
  ASSUME LInv, visitStmtWhile
  PROVE  LInv'
  <1>1. now.do = "visit" /\ todo # <<>> /\ Head(todo) # <<>> /\ Visiting("while")
    BY DEF visitStmtWhile, Visiting, At
  <1>2. PICK n, k1, k2 : n = loopCntr /\ k1 = Kid(1) /\ k2 = Kid(2)  OBVIOUS
  <1>3. k1 \in Nodes /\ k2 \in Nodes  BY <1>1, <1>2, Children
  <1>4. PICK a, b, c, d, e :
          /\ a = E("label", ".begin_loop", n) /\ b = V(k1) /\ c = Test("beqz", ".break_loop", n)
          /\ d = E("br", ".begin_loop", n) /\ e = E("label", ".break_loop", n)
    OBVIOUS
  <1>5. /\ a.do = "label" /\ a.name = ".begin_loop" /\ a.n = n
        /\ b.do = "visit" /\ b.node = k1
        /\ c.do = "beqz" /\ c.name = ".break_loop" /\ c.n = n
        /\ d.do = "br" /\ d.name = ".begin_loop" /\ d.n = n
        /\ e.do = "label" /\ e.name = ".break_loop" /\ e.n = n
    BY <1>4, TaskFacts
  <1>6. PICK pre, post : pre = <<a, b, c>> /\ post = <<d, e>>  OBVIOUS
  <1>7. /\ IsSeq(pre) /\ Entries(pre) = {a, b, c} /\ DOMAIN pre = 1 .. 3
        /\ pre[1] = a /\ pre[2] = b /\ pre[3] = c
    BY <1>6, Three
  <1>8. IsSeq(post) /\ Entries(post) = {d, e} /\ DOMAIN post = {1, 2} /\ post[1] = d /\ post[2] = e
    BY <1>6, Two
  <1>9. Part(pre, n, LoopLabels, {".begin_loop"}, {})
    <2>1. \A x \in {".begin_loop"} : Has(Entries(pre), x, n)  BY <1>5, <1>7 DEF Has
    <2>2. \A i, k \in DOMAIN pre : i < k /\ pre[i].do = "label" /\ pre[k].do = "label" => pre[i].name # pre[k].name
      BY <1>5, <1>7
    <2> QED BY <1>3, <1>5, <1>7, <2>1, <2>2, PartPlain DEF Jumps, LoopTasks, LoopLabels
  <1>10. Part(post, n, LoopLabels, {".break_loop"}, {})
    <2>1. \A x \in {".break_loop"} : Has(Entries(post), x, n)  BY <1>5, <1>8 DEF Has
    <2>2. \A i, k \in DOMAIN post : i < k /\ post[i].do = "label" /\ post[k].do = "label" => post[i].name # post[k].name
      BY <1>5, <1>8
    <2> QED BY <1>5, <1>8, <2>1, <2>2, PartPlain DEF Jumps, LoopTasks, LoopLabels
  <1>11. PICK ts : ts = pre \o Body(k2, n) \o post  OBVIOUS
  <1>12. Part(ts, n, LoopLabels, LoopLabels, {n})
    <2>1. PICK s : s = pre \o Body(k2, n)  OBVIOUS
    <2>2. Part(s, n, LoopLabels, {".begin_loop", ".continue_loop"}, {n})  BY <1>3, <1>9, <2>1, PartOpen
    <2> QED BY <1>10, <1>11, <2>1, <2>2, PartClose
  <1>13. Do(ts) /\ loopCntr' = loopCntr + 1 /\ UNCHANGED <<ir, labelCntr, loopStack, currentFunc>>
    BY <1>2, <1>4, <1>6, <1>11 DEF visitStmtWhile, decls
  <1> QED BY <1>1, <1>2, <1>12, <1>13, LoopStep

LEMMA DoLabels ==
  ASSUME LInv, visitStmtDo
  PROVE  LInv'
  <1>1. now.do = "visit" /\ todo # <<>> /\ Head(todo) # <<>> /\ Visiting("do")
    BY DEF visitStmtDo, Visiting, At
  <1>2. PICK n, k1, k2 : n = loopCntr /\ k1 = Kid(1) /\ k2 = Kid(2)  OBVIOUS
  <1>3. k1 \in Nodes /\ k2 \in Nodes  BY <1>1, <1>2, Children
  <1>4. PICK a, c, d, e :
          /\ a = E("label", ".begin_loop", n)
          /\ c = V(k2) /\ d = Test("bnez", ".begin_loop", n) /\ e = E("label", ".break_loop", n)
    OBVIOUS
  <1>5. /\ a.do = "label" /\ a.name = ".begin_loop" /\ a.n = n
        /\ c.do = "visit" /\ c.node = k2
        /\ d.do = "bnez" /\ d.name = ".begin_loop" /\ d.n = n
        /\ e.do = "label" /\ e.name = ".break_loop" /\ e.n = n
    BY <1>4, TaskFacts
  <1>6. PICK pre, post : pre = <<a>> /\ post = <<c, d, e>>  OBVIOUS
  <1>7. Part(pre, n, LoopLabels, {".begin_loop"}, {})
    <2>1. Part(<<a>>, n, LoopLabels, {a.name}, {})  BY <1>5, PartLabel
    <2> QED BY <1>5, <1>6, <2>1
  <1>8. IsSeq(post) /\ Entries(post) = {c, d, e} /\ DOMAIN post = 1 .. 3 /\ post[1] = c /\ post[2] = d /\ post[3] = e
    BY <1>6, Three
  <1>9. Part(post, n, LoopLabels, {".break_loop"}, {})
    <2>1. \A x \in {".break_loop"} : Has(Entries(post), x, n)  BY <1>5, <1>8 DEF Has
    <2>2. \A i, k \in DOMAIN post : i < k /\ post[i].do = "label" /\ post[k].do = "label" => post[i].name # post[k].name
      BY <1>5, <1>8
    <2> QED BY <1>3, <1>5, <1>8, <2>1, <2>2, PartPlain DEF Jumps, LoopTasks, LoopLabels
  <1>10. PICK ts : ts = pre \o Body(k1, n) \o post  OBVIOUS
  <1>11. Part(ts, n, LoopLabels, LoopLabels, {n})
    <2>1. PICK s : s = pre \o Body(k1, n)  OBVIOUS
    <2>2. Part(s, n, LoopLabels, {".begin_loop", ".continue_loop"}, {n})  BY <1>3, <1>7, <2>1, PartOpen
    <2> QED BY <1>9, <1>10, <2>1, <2>2, PartClose
  <1>12. Do(ts) /\ loopCntr' = loopCntr + 1 /\ UNCHANGED <<ir, labelCntr, loopStack, currentFunc>>
    BY <1>2, <1>4, <1>6, <1>10 DEF visitStmtDo, decls
  <1> QED BY <1>1, <1>2, <1>11, <1>12, LoopStep

\* An expression whose value is dropped or tested, if it is there, and a declaration.
LEMMA PartPair ==
  ASSUME NEW k \in Nodes, NEW n, NEW F, NEW b,
         \/ b.do \notin {"visit", "label", "if"} \cup Jumps \cup LoopTasks
         \/ b.do \in Jumps /\ b.n = n /\ b.name \in F
  PROVE  Part(<<V(k), b>>, n, F, {}, {})
  <1>1. PICK a : a = V(k)  OBVIOUS
  <1>2. a.do = "visit" /\ a.node = k  BY <1>1, TaskFacts
  <1>3. PICK s : s = <<a, b>>  OBVIOUS
  <1>4. IsSeq(s) /\ Entries(s) = {a, b} /\ DOMAIN s = {1, 2} /\ s[1] = a /\ s[2] = b  BY <1>3, Two
  <1>5. \A i, j \in DOMAIN s : i < j /\ s[i].do = "label" /\ s[j].do = "label" => s[i].name # s[j].name
    BY <1>2, <1>4
  <1>6. Part(s, n, F, {}, {})  BY <1>2, <1>4, <1>5, PartPlain DEF Jumps, LoopTasks
  <1> QED BY <1>1, <1>3, <1>6

LEMMA PartMaybe ==
  ASSUME NEW n, NEW F, NEW k, NEW ts, k # NoNode => Part(ts, n, F, {}, {})
  PROVE  Part(Maybe(k, ts), n, F, {}, {})
  <1>1. CASE k = NoNode  BY <1>1, PartNone DEF Maybe
  <1>2. CASE k # NoNode  BY <1>2 DEF Maybe
  <1> QED BY <1>1, <1>2

\* What comes before or after and has no labels.
LEMMA PartPlus ==
  ASSUME NEW n, NEW F, NEW N, NEW L, NEW a, Part(a, n, F, N, L), NEW b, Part(b, n, F, {}, {})
  PROVE  Part(a \o b, n, F, N, L) /\ Part(b \o a, n, F, N, L)
  <1>1. Part(a \o b, n, F, N \cup {}, L \cup {})  BY PartJoin
  <1>2. Part(b \o a, n, F, {} \cup N, {} \cup L)  BY PartJoin
  <1>3. N \cup {} = N /\ L \cup {} = L /\ {} \cup N = N /\ {} \cup L = L  OBVIOUS
  <1> QED BY <1>1, <1>2, <1>3

LEMMA ForLabels ==
  ASSUME LInv, visitStmtFor
  PROVE  LInv'
  <1>1. now.do = "visit" /\ todo # <<>> /\ Head(todo) # <<>> /\ Visiting("for")
    BY DEF visitStmtFor, Visiting, At
  <1>2. PICK n, k1, k2, k3, k4 : n = loopCntr /\ k1 = Kid(1) /\ k2 = Kid(2) /\ k3 = Kid(3) /\ k4 = Kid(4)
    OBVIOUS
  <1>3. k1 \in Nodes /\ k2 \in Nodes /\ k3 \in Nodes /\ k4 \in Nodes  BY <1>1, <1>2, Children
  <1>4. PICK a, b, c, d, e :
          /\ a = E("label", ".begin_loop", n) /\ b = Test("beqz", ".break_loop", n) /\ c = T("drop")
          /\ d = E("br", ".begin_loop", n) /\ e = E("label", ".break_loop", n)
    OBVIOUS
  <1>5. /\ a.do = "label" /\ a.name = ".begin_loop" /\ a.n = n
        /\ b.do = "beqz" /\ b.name = ".break_loop" /\ b.n = n
        /\ c.do = "drop"
        /\ d.do = "br" /\ d.name = ".begin_loop" /\ d.n = n
        /\ e.do = "label" /\ e.name = ".break_loop" /\ e.n = n
    BY <1>4, TaskFacts
  <1>6. PICK first, cond, step, last :
          /\ first = Maybe(k1, IF k1.kind \in {"decl", "array"} THEN <<V(k1)>> ELSE <<V(k1), c>>)
          /\ cond = Maybe(k2, <<V(k2), b>>)
          /\ step = Maybe(k3, <<V(k3), c>>)
          /\ last = <<d, e>>
    OBVIOUS
  <1>7. Part(first, n, LoopLabels, {}, {})
    <2>1. Part(<<V(k1)>>, n, LoopLabels, {}, {})
      <3>1. PICK v : v = V(k1)  OBVIOUS
      <3>2. v.do = "visit" /\ v.node \in Nodes  BY <1>3, <3>1, TaskFacts
      <3>3. Part(<<v>>, n, LoopLabels, {}, {})  BY <3>2, PartOne
      <3> QED BY <3>1, <3>3
    <2>2. Part(<<V(k1), c>>, n, LoopLabels, {}, {})
      BY <1>3, <1>5, PartPair DEF Jumps, LoopTasks
    <2>3. CASE k1.kind \in {"decl", "array"}  BY <1>6, <2>1, <2>3, PartMaybe
    <2>4. CASE k1.kind \notin {"decl", "array"}  BY <1>6, <2>2, <2>4, PartMaybe
    <2> QED BY <2>3, <2>4
  <1>8. Part(cond, n, LoopLabels, {}, {})
    <2>1. Part(<<V(k2), b>>, n, LoopLabels, {}, {})
      BY <1>3, <1>5, PartPair DEF Jumps, LoopLabels
    <2> QED BY <1>6, <2>1, PartMaybe
  <1>9. Part(step, n, LoopLabels, {}, {})
    <2>1. Part(<<V(k3), c>>, n, LoopLabels, {}, {})
      BY <1>3, <1>5, PartPair DEF Jumps, LoopTasks
    <2> QED BY <1>6, <2>1, PartMaybe
  <1>10. Part(last, n, LoopLabels, {".break_loop"}, {})
    <2>1. IsSeq(last) /\ Entries(last) = {d, e} /\ DOMAIN last = {1, 2} /\ last[1] = d /\ last[2] = e
      BY <1>6, Two
    <2>2. \A x \in {".break_loop"} : Has(Entries(last), x, n)  BY <1>5, <2>1 DEF Has
    <2>3. \A i, k \in DOMAIN last : i < k /\ last[i].do = "label" /\ last[k].do = "label" => last[i].name # last[k].name
      BY <1>5, <2>1
    <2> QED BY <1>5, <2>1, <2>2, <2>3, PartPlain DEF Jumps, LoopTasks, LoopLabels
  <1>11. Part(<<a>>, n, LoopLabels, {".begin_loop"}, {})
    <2>1. Part(<<a>>, n, LoopLabels, {a.name}, {})  BY <1>5, PartLabel
    <2> QED BY <1>5, <2>1
  <1>12. PICK ts : ts = first \o <<a>> \o cond \o Body(k4, n) \o step \o last  OBVIOUS
  <1>13. Part(ts, n, LoopLabels, LoopLabels, {n})
    <2>1. PICK s, t, u, v : s = first \o <<a>> /\ t = s \o cond /\ u = t \o Body(k4, n) /\ v = u \o step
      OBVIOUS
    <2>2. Part(s, n, LoopLabels, {".begin_loop"}, {})
      <3>1. PICK m : m = <<a>>  OBVIOUS
      <3>2. Part(m, n, LoopLabels, {".begin_loop"}, {})  BY <1>11, <3>1
      <3> QED BY <1>7, <2>1, <3>1, <3>2, PartPlus
    <2>3. Part(t, n, LoopLabels, {".begin_loop"}, {})  BY <1>8, <2>1, <2>2, PartPlus
    <2>4. Part(u, n, LoopLabels, {".begin_loop", ".continue_loop"}, {n})  BY <1>3, <2>1, <2>3, PartOpen
    <2>5. Part(v, n, LoopLabels, {".begin_loop", ".continue_loop"}, {n})  BY <1>9, <2>1, <2>4, PartPlus
    <2>6. ts = v \o last  BY <1>12, <2>1
    <2> QED BY <1>10, <2>5, <2>6, PartClose
  <1>14. startScope(ts) /\ loopCntr' = loopCntr + 1 /\ UNCHANGED <<ir, labelCntr, loopStack, currentFunc>>
    BY <1>2, <1>4, <1>6, <1>12 DEF visitStmtFor, decls
  <1> QED BY <1>1, <1>2, <1>13, <1>14, LoopStep

\* The branches of an if, after its condition.
LEMMA BranchLabels ==
  ASSUME LInv, Branches
  PROVE  LInv'
  <1>1. Scoped /\ now.do = "if" /\ todo # <<>> /\ Head(todo) # <<>> /\ UNCHANGED <<labels, currentFunc>>
    BY DEF Branches, At, Scoped, LoopTasks, Expression, decls
  <1>2. PICK n, k2, k3 : n = labelCntr /\ k2 = Kid(2) /\ k3 = Kid(3)  OBVIOUS
  <1>3. k2 \in Nodes /\ k3 \in Nodes  BY <1>1, <1>2, Children
  <1>4. now \in Pending  BY <1>1, FirstTask DEF LInv
  <1>5. PICK F : F = IF k3 # NoNode THEN IfLabels ELSE {".endif"}  OBVIOUS
  <1>6. F \subseteq IfLabels /\ ".endif" \in F  BY <1>5 DEF IfLabels
  <1>7. PICK a, b, c, d, v :
          /\ a = V(k2) /\ b = E("br", ".endif", n) /\ c = E("label", ".elseif", n)
          /\ v = V(k3) /\ d = E("label", ".endif", n)
    OBVIOUS
  <1>8. /\ a.do = "visit" /\ a.node = k2 /\ v.do = "visit" /\ v.node = k3
        /\ b.do = "br" /\ b.name = ".endif" /\ b.n = n
        /\ c.do = "label" /\ c.name = ".elseif" /\ c.n = n
        /\ d.do = "label" /\ d.name = ".endif" /\ d.n = n
    BY <1>7, TaskFacts
  <1>9. PICK first, mid, last : first = <<a>> /\ mid = Maybe(k3, <<b, c, v>>) /\ last = <<d>>  OBVIOUS
  <1>10. PICK ts : ts = first \o mid \o last  OBVIOUS
  <1>11. Part(ts, n, F, F, {})
    <2>1. Part(first, n, F, {}, {})  BY <1>3, <1>8, <1>9, PartOne
    <2>2. Part(last, n, F, {".endif"}, {})
      <3>1. Part(<<d>>, n, F, {d.name}, {})  BY <1>8, PartLabel
      <3> QED BY <3>1, <1>8, <1>9
    <2>3. PICK s : s = first \o mid  OBVIOUS
    <2>4. CASE k3 = NoNode
      <3>1. mid = <<>>  BY <2>4, <1>9 DEF Maybe
      <3>2. Part(mid, n, F, {}, {})  BY <3>1, PartNone
      <3>3. Part(s, n, F, {}, {})  BY <2>1, <2>3, <3>2, PartPlus
      <3>4. Part(s \o last, n, F, {".endif"}, {})  BY <2>2, <3>3, PartPlus
      <3> QED BY <3>4, <2>3, <2>4, <1>5, <1>10
    <2>5. CASE k3 # NoNode
      <3>1. mid = <<b, c, v>>  BY <2>5, <1>9 DEF Maybe
      <3>2. /\ IsSeq(mid) /\ Entries(mid) = {b, c, v} /\ DOMAIN mid = 1 .. 3
            /\ mid[1] = b /\ mid[2] = c /\ mid[3] = v
        BY <3>1, Three
      <3>3. Part(mid, n, F, {".elseif"}, {})
        <4>1. \A x \in {".elseif"} : Has(Entries(mid), x, n)  BY <1>8, <3>2 DEF Has
        <4>2. \A i, k \in DOMAIN mid : i < k /\ mid[i].do = "label" /\ mid[k].do = "label" => mid[i].name # mid[k].name
          BY <1>8, <3>2
        <4> QED BY <1>3, <1>6, <1>8, <3>2, <4>1, <4>2, PartPlain DEF Jumps, LoopTasks
      <3>4. Part(s, n, F, {".elseif"}, {})  BY <2>1, <2>3, <3>3, PartPlus
      <3>5. {".elseif"} \cap {".endif"} = {}  OBVIOUS
      <3>6. Part(s \o last, n, F, {".elseif"} \cup {".endif"}, {} \cup {})  BY <2>2, <3>4, <3>5, PartJoin
      <3>7. {".elseif"} \cup {".endif"} = F /\ {} \cup {} = {}  BY <2>5, <1>5 DEF IfLabels
      <3> QED BY <3>6, <3>7, <2>3, <1>10
    <2> QED BY <2>4, <2>5
  <1>12. Do(ts)  BY <1>2, <1>7, <1>9, <1>10 DEF Branches
  <1>13. PICK i : i = Ins("beqz", IF k3 # NoNode THEN ".elseif" ELSE ".endif", n)  OBVIOUS
  <1>14. i.op = "beqz" /\ i.name \in F /\ i.n = n /\ i.of = currentFunc
    BY <1>5, <1>13 DEF Ins, IfLabels
  <1>15. PICK is : is = <<i>>  OBVIOUS
  <1>16. IsSeq(is) /\ DOMAIN is = {1} /\ is[1] = i  BY <1>15, One
  <1>17. ir' = ir \o is  BY <1>2, <1>13, <1>15 DEF Branches, Emit
  <1>18. Counted /\ labelCntr' = labelCntr /\ UNCHANGED loopStack  BY <1>1 DEF Counted, labels, LInv, LShape
  <1>19. \A t : t.name \in F /\ t.n = n => InUse(t, labelCntr', loopCntr') /\ Unused(t)
    BY <1>1, <1>2, <1>4, <1>6, <1>18, NewBranch
  <1>20. ~InCondition(now)  BY <1>1 DEF InCondition
  <1>21. \A m \in DOMAIN is : /\ is[m].op # "label"
                              /\ is[m].op \in Jumps => is[m].of = currentFunc /\ is[m].name \in F /\ is[m].n = n
    BY <1>14, <1>16
  <1> QED BY <1>1, <1>11, <1>12, <1>16, <1>17, <1>18, <1>19, <1>20, <1>21, LabelStep

\* A conditional expression.
LEMMA TernaryStepLabels ==
  ASSUME LInv, visitExprTernary
  PROVE  LInv'
  <1>1. /\ Scoped /\ now.do = "visit" /\ todo # <<>> /\ Head(todo) # <<>>
        /\ labelCntr' = labelCntr + 1 /\ UNCHANGED <<ir, loopCntr, loopStack, currentFunc>>
    BY DEF visitExprTernary, Visiting, At, Scoped, LoopTasks, decls
  <1>2. PICK n, k1, k2, k3 : n = labelCntr' /\ k1 = Kid(1) /\ k2 = Kid(2) /\ k3 = Kid(3)  OBVIOUS
  <1>3. /\ k1 \in Nodes /\ k2 \in Nodes /\ k3 \in Nodes
        /\ InCondition(now) => k1 \in Expressions /\ k2 \in Expressions /\ k3 \in Expressions
    BY <1>1, <1>2, Children
  <1>4. PICK a, b, c, d, e, f, g, h :
          /\ a = V(k1) /\ b = Test("beqz", ".elseter", n) /\ c = V(k2) /\ d = T("rvalue")
          /\ e = E("br", ".endter", n) /\ f = E("label", ".elseter", n)
          /\ g = V(k3) /\ h = E("label", ".endter", n)
    OBVIOUS
  <1>5. PICK j : j = T("ternary")  OBVIOUS
  <1>6. /\ a.do = "visit" /\ a.node = k1 /\ c.do = "visit" /\ c.node = k2 /\ g.do = "visit" /\ g.node = k3
        /\ d.do = "rvalue" /\ j.do = "ternary"
        /\ b.do = "beqz" /\ b.name = ".elseter" /\ b.n = n
        /\ e.do = "br" /\ e.name = ".endter" /\ e.n = n
        /\ f.do = "label" /\ f.name = ".elseter" /\ f.n = n
        /\ h.do = "label" /\ h.name = ".endter" /\ h.n = n
    BY <1>4, <1>5, TaskFacts
  <1>7. PICK ts : ts = <<a, b, c, d, e, f, g, d, h, j>>  OBVIOUS
  <1>8. ts \in Seq({a, b, c, d, e, f, g, h, j})  BY <1>7
  <1>9. /\ DOMAIN ts = 1 .. 10
        /\ ts[1] = a /\ ts[2] = b /\ ts[3] = c /\ ts[4] = d /\ ts[5] = e
        /\ ts[6] = f /\ ts[7] = g /\ ts[8] = d /\ ts[9] = h /\ ts[10] = j
    BY <1>7
  <1>10. \A i \in DOMAIN ts : ts[i] \in {a, b, c, d, e, f, g, h, j}  BY <1>8
  <1>11. IsSeq(ts)  BY <1>8 DEF IsSeq
  <1>12. f \in Entries(ts) /\ h \in Entries(ts) /\ Entries(ts) \subseteq {a, b, c, d, e, f, g, h, j}
    <2>1. 6 \in DOMAIN ts /\ 9 \in DOMAIN ts  BY <1>9
    <2> QED BY <2>1, <1>9, <1>10 DEF Entries
  <1>13. Part(ts, n, TernaryLabels, TernaryLabels, {})
    <2>1. \A x \in TernaryLabels : Has(Entries(ts), x, n)  BY <1>6, <1>12 DEF Has, TernaryLabels
    <2>2. \A i \in DOMAIN ts : ts[i].do = "label" => i = 6 \/ i = 9
      BY <1>6, <1>9
    <2>3. \A i, k \in DOMAIN ts : i < k /\ ts[i].do = "label" /\ ts[k].do = "label" => ts[i].name # ts[k].name
      BY <1>6, <1>9, <2>2
    <2>4. \A t \in {a, b, c, d, e, f, g, h, j} :
            /\ t.do \notin {"if"} \cup LoopTasks
            /\ t.do = "visit" => t.node \in Nodes
            /\ t.do = "label" => t.n = n /\ t.name \in TernaryLabels
            /\ t.do \in Jumps => t.n = n /\ t.name \in TernaryLabels
      BY <1>3, <1>6 DEF Jumps, LoopTasks, TernaryLabels
    <2> QED BY <1>11, <1>12, <2>1, <2>3, <2>4, PartPlain
  <1>14. Do(ts)  BY <1>2, <1>4, <1>5, <1>7 DEF visitExprTernary
  <1>15. ir' = ir \o <<>> /\ IsSeq(<<>>) /\ DOMAIN <<>> = {}  BY <1>1, None, NoCode
  <1>16. PICK is : is = <<>>  OBVIOUS
  <1>17. Counted  BY <1>1 DEF Counted, LInv, LShape
  <1>18. \A t : t.name \in TernaryLabels /\ t.n = n => InUse(t, labelCntr', loopCntr') /\ Unused(t)
    BY <1>1, <1>2, NewTernary
  <1>19. InCondition(now) => \A t \in Entries(ts) : InCondition(t)
    <2>1. ASSUME InCondition(now), NEW t \in {a, b, c, d, e, f, g, h, j}  PROVE InCondition(t)
      BY <2>1, <1>3, <1>6 DEF InCondition, LoopTasks, IfLabels
    <2> QED BY <2>1, <1>12
  <1>20. IsSeq(is) /\ ir' = ir \o is /\ DOMAIN is = {}  BY <1>15, <1>16
  <1> QED BY <1>1, <1>13, <1>14, <1>17, <1>18, <1>19, <1>20, LabelStep

-----------------------------------------------------------------------------
(* Steps that append labels and jumps                                      *)

\* The task at hand is nothing but its code.
LEMMA EmitStep ==
  ASSUME LInv, todo # <<>>, Head(todo) # <<>>, Len(todo) # 1, now.do \notin LoopTasks, Do(<<>>),
         UNCHANGED <<labels, currentFunc>>, NEW is, NewCode(is, {}), ir' = ir \o is
  PROVE  LInv'
  <1>1. IsSeq(<<>>) /\ Entries(<<>>) = {} /\ Ordered(<<>>)  BY None DEF Ordered
  <1>2. Advanced(<<>>)  BY <1>1 DEF Advanced, Do
  <1>3. Counted /\ UNCHANGED loopStack  BY DEF Counted, labels, LInv, LShape
  <1>4. Moved(is, Entries(<<>>))  BY <1>1, <1>3 DEF Moved
  <1>5. PICK ts : ts = <<>>  OBVIOUS
  <1> QED BY <1>1, <1>2, <1>4, <1>5, AdvanceStep

\* A label or a jump gets into the code.
LEMMA AppendedLabels ==
  ASSUME LInv, Appended
  PROVE  LInv'
  <1>1. PICK op \in Plain :
           At(op) /\ Emit(<<Ins(op, now.name, now.n)>>) /\ Do(<<>>) /\ Expression
    BY DEF Appended
  <1>2. Len(todo) > 1 /\ Head(todo) # <<>> /\ now.do = op  BY <1>1 DEF At
  <1>3. todo # <<>> /\ Len(todo) # 1
    <2>1. todo # <<>>  BY <1>2
    <2>2. Len(todo) # 1  BY <1>2 DEF LInv, LShape, IsSeq
    <2> QED BY <2>1, <2>2
  <1>4. TaskSound(now)  BY <1>2, <1>3, FirstTask DEF LInv, Sound, TasksSound
  <1>5. PICK x : x = Ins(op, now.name, now.n)  OBVIOUS
  <1>6. x.op = op /\ x.name = now.name /\ x.n = now.n /\ x.of = currentFunc  BY <1>5 DEF Ins
  <1>7. PICK is : is = <<x>>  OBVIOUS
  <1>8. IsSeq(is) /\ DOMAIN is = {1} /\ is[1] = x  BY <1>7, One
  <1>9. NewCode(is, {})
    <2>1. now.do \in Jumps => Lands(x.name, x.n)  BY <1>4, <1>6 DEF TaskSound
    <2>2. SameLabel(x, now)  BY <1>6 DEF SameLabel
    <2> QED BY <1>2, <1>6, <1>8, <2>1, <2>2 DEF NewCode
  <1>10. ir' = ir \o is /\ UNCHANGED <<labels, currentFunc>>  BY <1>1, <1>5, <1>7 DEF Emit, Expression, decls
  <1>11. now.do \notin LoopTasks  BY <1>2 DEF Plain, LoopTasks
  <1> QED BY <1>1, <1>2, <1>3, <1>9, <1>10, <1>11, EmitStep

\* A conditional jump, after the value it tests.
LEMMA TestedLabels ==
  ASSUME LInv, Tested
  PROVE  LInv'
  <1>1. CASE reportError  BY <1>1, NothingMoves
  <1>2. CASE ~reportError
    <2>1. PICK op \in {"beqz", "bnez"} :
             At(op) /\ Emit(Load(Top) \o <<Ins(op, now.name, now.n)>>) /\ Do(<<>>) /\ Expression
      BY <1>2 DEF Tested
    <2>2. Len(todo) > 1 /\ Head(todo) # <<>> /\ now.do = op  BY <2>1 DEF At
    <2>3. todo # <<>> /\ Len(todo) # 1
      <3>1. todo # <<>>  BY <2>2
      <3>2. Len(todo) # 1  BY <2>2 DEF LInv, LShape, IsSeq
      <3> QED BY <3>1, <3>2
    <2>4. TaskSound(now)  BY <2>2, <2>3, FirstTask DEF LInv, Sound, TasksSound
    <2>5. PICK x : x = Ins(op, now.name, now.n)  OBVIOUS
    <2>6. x.op = op /\ x.name = now.name /\ x.n = now.n /\ x.of = currentFunc  BY <2>5 DEF Ins
    <2>7. PICK u, v : u = Load(Top) /\ v = <<x>>  OBVIOUS
    <2>8. CalmCode(u)  BY <2>7, CalmLoad
    <2>9. IsSeq(v) /\ Entries(v) = {x}  BY <2>7, One
    <2>10. PICK is : is = u \o v  OBVIOUS
    <2>11. IsSeq(is) /\ Entries(is) = Entries(u) \cup {x}
      <3>1. IsSeq(u)  BY <2>8 DEF CalmCode
      <3>2. IsSeq(u \o v) /\ Entries(u \o v) = Entries(u) \cup Entries(v)  BY <3>1, <2>9, JoinLists
      <3> QED BY <3>2, <2>9, <2>10
    <2>12. \A i \in DOMAIN is : is[i].op \in Jumps => is[i] = x
      <3>1. \A y \in Entries(u) : y.op \notin {"label"} \cup Jumps  BY <2>8 DEF CalmCode, Entries
      <3>2. \A i \in DOMAIN is : is[i] \in Entries(u) \cup {x}  BY <2>11 DEF Entries
      <3> QED BY <3>1, <3>2
    <2>13. \A i \in DOMAIN is : is[i].op # "label"
      <3>1. \A y \in Entries(u) : y.op \notin {"label"} \cup Jumps  BY <2>8 DEF CalmCode, Entries
      <3>2. \A i \in DOMAIN is : is[i] \in Entries(u) \cup {x}  BY <2>11 DEF Entries
      <3> QED BY <3>1, <3>2, <2>6
    <2>14. NewCode(is, {})
      <3>1. Lands(x.name, x.n)  BY <2>2, <2>4, <2>6 DEF TaskSound, Jumps
      <3> QED BY <2>2, <2>6, <2>11, <2>12, <2>13, <3>1 DEF NewCode
    <2>15. ir' = ir \o is /\ UNCHANGED <<labels, currentFunc>>
      BY <2>1, <2>5, <2>7, <2>10 DEF Emit, Expression, decls
    <2>16. now.do \notin LoopTasks  BY <2>2 DEF LoopTasks
    <2> QED BY <2>1, <2>2, <2>3, <2>14, <2>15, <2>16, EmitStep
  <1> QED BY <1>1, <1>2

\* break and continue: the innermost loop the visitor is in has its labels.
LEMMA JumpLabels ==
  ASSUME LInv, visitStmtJump
  PROVE  LInv'
  <1>1. CASE reportError  BY <1>1, NothingMoves
  <1>2. CASE ~reportError
    <2>1. /\ Scoped /\ now.do = "visit" /\ loopStack # <<>> /\ Do(<<>>) /\ Expression
          /\ Emit(<<Ins("br", IF node.kind = "break" THEN ".break_loop" ELSE ".continue_loop", Head(loopStack))>>)
      BY <1>2 DEF visitStmtJump, Visiting, At, Scoped, LoopTasks
    <2>2. PICK x : x = Ins("br", IF node.kind = "break" THEN ".break_loop" ELSE ".continue_loop", Head(loopStack))
      OBVIOUS
    <2>3. /\ x.op = "br" /\ x.name \in {".break_loop", ".continue_loop"} /\ x.n = Head(loopStack)
          /\ x.of = currentFunc
      BY <2>2 DEF Ins
    <2>4. Lands(x.name, x.n)
      <3>1. loopStack \in Seq(Nat)  BY DEF LInv, LShape
      <3>2. Head(loopStack) \in Entries(loopStack)  BY <2>1, <3>1, RestSeq
      <3>3. PICK t \in Pending : t.do = "leave" /\ t.n = x.n
        BY <2>3, <3>2 DEF LInv, Sound, LoopsSound, Inside
      <3> QED BY <2>3, <3>3 DEF LInv, Sound, TasksSound, TaskSound, LoopTasks
    <2>5. PICK is : is = <<x>>  OBVIOUS
    <2>6. IsSeq(is) /\ DOMAIN is = {1} /\ is[1] = x  BY <2>5, One
    <2>7. NewCode(is, {})  BY <2>1, <2>3, <2>4, <2>6 DEF NewCode
    <2>8. ir' = ir \o is /\ UNCHANGED <<labels, currentFunc>>
      BY <2>1, <2>2, <2>5 DEF Emit, Expression, decls
    <2>9. todo # <<>> /\ Head(todo) # <<>> /\ Len(todo) # 1 /\ now.do \notin LoopTasks
      BY <2>1, ScopedTodo DEF Scoped
    <2> QED BY <2>1, <2>7, <2>8, <2>9, EmitStep
  <1> QED BY <1>1, <1>2

\* The task at hand is done.
LEMMA TaskDone ==
  ASSUME LInv, todo # <<>>, Head(todo) # <<>>, Len(todo) # 1, Do(<<>>)
  PROVE  /\ IsSeq(todo') /\ \A j \in DOMAIN todo' : IsSeq(todo'[j])
         /\ InOrder' /\ TopSound'
         /\ Pending' = Later
  <1>1. /\ IsSeq(Rest) /\ Ordered(Rest)
        /\ \A t \in Entries(Rest), u \in Outer : Apart(t, u)
    BY FirstTask DEF LInv
  <1>2. PICK x : x = Rest  OBVIOUS
  <1>3. IsSeq(x) /\ Ordered(x) /\ \A t \in Entries(x), u \in Outer : Apart(t, u)  BY <1>1, <1>2
  <1>4. todo' = <<x>> \o Tail(todo)
    <2>1. PICK S : x \in Seq(S)  BY <1>3 DEF IsSeq
    <2>2. <<>> \o x = x  BY <2>1
    <2> QED BY <1>2, <2>2 DEF Do
  <1>5. PICK front : front = <<x>>  OBVIOUS
  <1>6. DOMAIN front = {1} /\ front[1] = x /\ IsSeq(front) /\ todo' = front \o Tail(todo)
    BY <1>4, <1>5, One
  <1>7. /\ \A j \in DOMAIN front : IsSeq(front[j]) /\ Ordered(front[j])
        /\ \A j, k \in DOMAIN front : j < k => \A t \in Entries(front[j]), u \in Entries(front[k]) : Apart(t, u)
        /\ \A j \in DOMAIN front : \A t \in Entries(front[j]), u \in Outer : Apart(t, u)
    BY <1>3, <1>6
  <1>8. /\ IsSeq(todo') /\ \A j \in DOMAIN todo' : IsSeq(todo'[j])
        /\ InOrder' /\ TopSound'
        /\ Pending' = (UNION {Entries(front[j]) : j \in DOMAIN front}) \cup Outer
    BY <1>6, <1>7, Fronted DEF LInv
  <1>9. UNION {Entries(front[j]) : j \in DOMAIN front} = Entries(x)  BY <1>6
  <1> QED BY <1>2, <1>8, <1>9 DEF Later

\* A loop is entered or left.
LEMMA LoopStackLabels ==
  ASSUME LInv, LoopStack
  PROVE  LInv'
  <1>1. /\ Len(todo) > 1 /\ Head(todo) # <<>> /\ Do(<<>>) /\ UNCHANGED <<ir, labelCntr, loopCntr, currentFunc>>
        /\ \/ now.do = "enter" /\ loopStack' = <<now.n>> \o loopStack
           \/ now.do = "leave" /\ loopStack' = Tail(loopStack)
    BY DEF LoopStack, At, decls
  <1>2. todo # <<>> /\ Len(todo) # 1
    <2>1. Len(todo) > 1  BY <1>1
    <2>2. todo # <<>>  BY <1>1
    <2>3. Len(todo) # 1  BY <2>1 DEF LInv, LShape, IsSeq
    <2> QED BY <2>2, <2>3
  <1>3. /\ IsSeq(todo') /\ \A j \in DOMAIN todo' : IsSeq(todo'[j])
        /\ InOrder' /\ TopSound' /\ Pending' = Later
    BY <1>1, <1>2, TaskDone
  <1>4. Pending = {now} \cup Later /\ \A u \in Later : Apart(now, u)
    BY <1>1, <1>2, FirstTask DEF LInv
  <1>5. \A t \in Pending : TaskSound(t)  BY DEF LInv, Sound, TasksSound
  <1>6. PICK n : n = now.n  OBVIOUS
  <1>7. now.do \in LoopTasks /\ n \in Nat  BY <1>1, <1>4, <1>5, <1>6 DEF TaskSound, LoopTasks
  <1>8. \A t \in Pending : t.do \in LoopTasks => t.n \in Nat  BY <1>5 DEF TaskSound
  <1>9. \A u \in Later : u.do \in LoopTasks =>
            n > u.n \/ (now.do = "enter" /\ u.do = "leave" /\ u.n = n)
    BY <1>4, <1>6, <1>7 DEF Apart
  <1>10. loopStack \in Seq(Nat)  BY DEF LInv, LShape
  <1>11. /\ \A i, k \in DOMAIN loopStack : i < k => loopStack[i] > loopStack[k]
         /\ \A m \in Entries(loopStack) : Inside(m)
         /\ \A t \in Pending : t.do = "leave" /\ Inside(t.n) => t.n \in Entries(loopStack)
    BY DEF LInv, Sound, LoopsSound
  <1>12. loopStack' \in Seq(Nat)
    <2>1. CASE loopStack' = <<now.n>> \o loopStack  BY <2>1, <1>6, <1>7, <1>10
    <2>2. CASE loopStack' = Tail(loopStack) /\ now.do = "leave"
      <3>1. Inside(n)
        <4>1. ASSUME NEW t \in Pending, t.do = "enter", t.n = n  PROVE FALSE
          BY <4>1, <2>2, <1>4, <1>7, <1>9 DEF LoopTasks
        <4> QED BY <4>1, <2>2, <1>4, <1>6 DEF Inside
      <3>2. n \in Entries(loopStack)  BY <3>1, <2>2, <1>4, <1>6, <1>11
      <3>3. loopStack # <<>>  BY <3>2, None
      <3> QED BY <2>2, <3>3, <1>10
    <2> QED BY <1>1, <2>1, <2>2
  <1>13. LShape'  BY <1>1, <1>3, <1>12 DEF LInv, LShape, IsSeq
  <1>14. \A t : (Numbered(t)' <=> Numbered(t)) /\ (Defined(t)' <=> Defined(t))
    BY <1>1 DEF Numbered, InUse, Defined, SameLabel
  <1>15. \A name, m : Has(Pending, name, m) <=> Has(Later, name, m)
    BY <1>4, <1>7 DEF Has, LoopTasks
  <1>16. \A name, m : Lands(name, m)' <=> Lands(name, m)  BY <1>1, <1>3, <1>15 DEF Lands, Has
  <1>17. LabelsSound'  BY <1>1, <1>14 DEF LInv, Sound, LabelsSound, SameLabel
  <1>18. JumpsSound'
    <2>1. JumpsSound' <=>
            \A i \in DOMAIN ir : ir[i].op \in Jumps =>
              \/ \E k \in DOMAIN ir : ir[k].op = "label" /\ SameLabel(ir[k], ir[i]) /\ ir[k].of = ir[i].of
              \/ ir[i].of = currentFunc /\ Has(Later, ir[i].name, ir[i].n)
      BY <1>1, <1>3 DEF JumpsSound, SameLabel, Has
    <2> QED BY <2>1, <1>15 DEF LInv, Sound, JumpsSound
  <1>19. TasksSound'
    <2>1. ASSUME NEW t \in Later  PROVE TaskSound(t)'
      <3>1. TaskSound(t)  BY <1>4, <1>5
      <3>2. t.do = "enter" => \E u \in Later : u.do = "leave" /\ u.n = t.n
        <4>1. SUFFICES ASSUME t.do = "enter"  PROVE \E u \in Later : u.do = "leave" /\ u.n = t.n
          OBVIOUS
        <4>2. PICK u \in Pending : u.do = "leave" /\ u.n = t.n  BY <3>1, <4>1 DEF TaskSound
        <4>3. u \in Later
          <5>1. SUFFICES ASSUME u = now  PROVE FALSE  BY <1>4
          <5>2. n > t.n /\ t.n = n  BY <5>1, <4>1, <4>2, <1>6, <1>9 DEF LoopTasks
          <5> QED BY <5>2, <1>7
        <4> QED BY <4>2, <4>3
      <3> QED BY <3>1, <3>2, <1>1, <1>3, <1>4, <1>14, <1>16 DEF TaskSound
    <2> QED BY <2>1, <1>3 DEF TasksSound
  <1>20. LoopsSound'
    <2> DEFINE In(m) == /\ \E t \in Later : t.do = "leave" /\ t.n = m
                        /\ \A t \in Later : t.do = "enter" => t.n # m
    <2>1. LoopsSound' <=>
            /\ \A i, k \in DOMAIN loopStack' : i < k => loopStack'[i] > loopStack'[k]
            /\ \A m \in Entries(loopStack') : In(m)
            /\ \A t \in Later : t.do = "leave" /\ In(t.n) => t.n \in Entries(loopStack')
      BY <1>3 DEF LoopsSound, Inside, Entries
    <2>2. CASE now.do = "enter"
      <3>1. loopStack' = <<n>> \o loopStack  BY <2>2, <1>1, <1>6
      <3>2. \A m : Inside(m) => In(m) /\ m # n
        BY <2>2, <1>4, <1>6 DEF Inside
      <3>3. ASSUME NEW m \in Entries(loopStack)  PROVE n > m
        <4>1. In(m) /\ m # n  BY <3>2, <1>11
        <4>2. PICK u \in Later : u.do = "leave" /\ u.n = m  BY <4>1
        <4> QED BY <4>1, <4>2, <1>9 DEF LoopTasks
      <3>4. In(n)
        <4>1. PICK u \in Pending : u.do = "leave" /\ u.n = n
          BY <2>2, <1>4, <1>5, <1>6 DEF TaskSound
        <4>2. u \in Later  BY <4>1, <2>2, <1>4
        <4>3. ASSUME NEW t \in Later, t.do = "enter", t.n = n  PROVE FALSE
          BY <4>3, <1>7, <1>9 DEF LoopTasks
        <4> QED BY <4>1, <4>2, <4>3
      <3>5. \A m : In(m) /\ m # n => Inside(m)
        BY <2>2, <1>4, <1>6 DEF Inside
      <3> HIDE DEF In
      <3>6. PICK s : s = loopStack'  OBVIOUS
      <3>7. /\ Len(loopStack) \in Nat /\ DOMAIN loopStack = 1 .. Len(loopStack)
            /\ DOMAIN s = 1 .. Len(loopStack) + 1 /\ s[1] = n
            /\ \A i \in 1 .. Len(loopStack) : s[i + 1] = loopStack[i]
        BY <3>1, <3>6, <1>10, PushSeq
      <3>8. \A i \in DOMAIN s : i = 1 \/ (i - 1 \in DOMAIN loopStack /\ s[i] = loopStack[i - 1])
        <4>1. ASSUME NEW i \in DOMAIN s, i # 1  PROVE i - 1 \in DOMAIN loopStack /\ s[i] = loopStack[i - 1]
          <5>1. i - 1 \in 1 .. Len(loopStack) /\ (i - 1) + 1 = i  BY <4>1, <3>7
          <5> QED BY <5>1, <3>7
        <4> QED BY <4>1
      <3>9. Entries(s) = {n} \cup Entries(loopStack)
        <4>1. n \in Entries(s)
          <5>1. 1 \in DOMAIN s  BY <3>7
          <5> QED BY <5>1, <3>7 DEF Entries
        <4>2. \A i \in DOMAIN loopStack : loopStack[i] \in Entries(s)
          <5>1. \A i \in DOMAIN loopStack : i + 1 \in DOMAIN s /\ s[i + 1] = loopStack[i]  BY <3>7
          <5> QED BY <5>1 DEF Entries
        <4>3. \A i \in DOMAIN s : s[i] \in {n} \cup Entries(loopStack)  BY <3>7, <3>8 DEF Entries
        <4> QED BY <4>1, <4>2, <4>3 DEF Entries
      <3>10. ASSUME NEW i \in DOMAIN s, NEW k \in DOMAIN s, i < k  PROVE s[i] > s[k]
        <4>1. i \in Nat /\ k \in Nat /\ i >= 1 /\ k # 1  BY <3>7, <3>10
        <4>2. k - 1 \in DOMAIN loopStack /\ s[k] = loopStack[k - 1]  BY <3>8, <4>1
        <4>3. CASE i = 1  BY <4>2, <4>3, <3>3, <3>7 DEF Entries
        <4>4. CASE i # 1
          <5>1. i - 1 \in DOMAIN loopStack /\ s[i] = loopStack[i - 1] /\ i - 1 < k - 1  BY <4>1, <4>4, <3>8, <3>10
          <5> QED BY <5>1, <4>2, <1>11
        <4> QED BY <4>3, <4>4
      <3>11. \A m \in Entries(s) : In(m)  BY <3>2, <3>4, <3>9, <1>11
      <3>12. \A t \in Later : t.do = "leave" /\ In(t.n) => t.n \in Entries(s)
        BY <3>5, <3>9, <1>4, <1>11
      <3> QED BY <2>1, <3>6, <3>10, <3>11, <3>12
    <2>3. CASE now.do = "leave"
      <3>1. loopStack' = Tail(loopStack)  BY <2>3, <1>1
      <3>2. \A u \in Later : u.do \in LoopTasks => n > u.n /\ u.n # n
        BY <2>3, <1>4, <1>7, <1>8, <1>9
      <3>3. Inside(n)
        <4>1. ASSUME NEW t \in Pending, t.do = "enter", t.n = n  PROVE FALSE
          BY <4>1, <2>3, <3>2, <1>4 DEF LoopTasks
        <4> QED BY <4>1, <2>3, <1>4, <1>6 DEF Inside
      <3>4. n \in Entries(loopStack)  BY <3>3, <2>3, <1>4, <1>6, <1>11
      <3>5. ASSUME NEW m \in Entries(loopStack)  PROVE m = n \/ n > m
        <4>1. PICK u \in Pending : u.do = "leave" /\ u.n = m  BY <1>11 DEF Inside
        <4> QED BY <4>1, <3>2, <1>4, <1>6 DEF LoopTasks
      <3>6. loopStack # <<>>  BY <3>4, None
      <3>7. /\ Len(loopStack) \in Nat /\ Len(loopStack) > 0 /\ DOMAIN loopStack = 1 .. Len(loopStack)
            /\ Head(loopStack) = loopStack[1]
        BY <3>6, <1>10
      <3>8. \A i \in DOMAIN loopStack : loopStack[i] \in Nat  BY <1>10
      <3>9. Head(loopStack) = n
        <4>1. PICK i \in DOMAIN loopStack : loopStack[i] = n  BY <3>4 DEF Entries
        <4>2. 1 \in DOMAIN loopStack /\ loopStack[1] \in Entries(loopStack)  BY <3>7 DEF Entries
        <4>3. loopStack[1] = n \/ n > loopStack[1]  BY <3>5, <4>2
        <4>4. CASE i = 1  BY <4>1, <4>4, <3>7
        <4>5. CASE i # 1
          <5>1. 1 < i  BY <4>5, <3>7
          <5>2. loopStack[1] > n  BY <5>1, <4>1, <4>2, <1>11
          <5> QED BY <5>2, <4>2, <4>3, <3>8, <1>7
        <4> QED BY <4>4, <4>5
      <3>10. PICK s : s = Tail(loopStack)  OBVIOUS
      <3>11. Entries(loopStack) = {n} \cup Entries(s)  BY <3>6, <3>9, <3>10, <1>10, RestSeq
      <3>12. /\ DOMAIN s = 1 .. Len(loopStack) - 1
             /\ \A i \in 1 .. Len(loopStack) - 1 : s[i] = loopStack[i + 1]
        BY <3>7, <3>10, <1>10, PopSeq
      <3>13. ASSUME NEW i \in DOMAIN s, NEW k \in DOMAIN s, i < k  PROVE s[i] > s[k]
        <4>1. i + 1 \in DOMAIN loopStack /\ k + 1 \in DOMAIN loopStack /\ i + 1 < k + 1  BY <3>7, <3>12, <3>13
        <4> QED BY <4>1, <3>12, <1>11
      <3>14. n \notin Entries(s)
        <4>1. ASSUME NEW i \in DOMAIN s, s[i] = n  PROVE FALSE
          <5>1. 1 \in DOMAIN loopStack /\ i + 1 \in DOMAIN loopStack /\ 1 < i + 1 /\ s[i] = loopStack[i + 1]
            BY <3>7, <3>12
          <5>2. loopStack[1] > loopStack[i + 1]  BY <5>1, <1>11
          <5> QED BY <5>1, <5>2, <4>1, <3>7, <3>9, <1>7
        <4> QED BY <4>1 DEF Entries
      <3>15. \A m : m # n => (In(m) <=> Inside(m))
        BY <2>3, <1>4, <1>6 DEF Inside
      <3> HIDE DEF In
      <3>16. \A m \in Entries(s) : In(m)  BY <3>11, <3>14, <3>15, <1>11
      <3>17. \A t \in Later : t.do = "leave" /\ In(t.n) => t.n \in Entries(s)
        BY <3>2, <3>11, <3>15, <1>4, <1>11 DEF LoopTasks
      <3>18. s = loopStack'  BY <3>1, <3>10
      <3> QED BY <2>1, <3>13, <3>16, <3>17, <3>18
    <2> QED BY <2>2, <2>3, <1>1
  <1> QED BY <1>3, <1>13, <1>17, <1>18, <1>19, <1>20 DEF LInv, Sound
-----------------------------------------------------------------------------
\* Every step of the visitor.
LEMMA VisitLabels ==
  ASSUME LInv, Visit
  PROVE  LInv'
  <1>1. CASE \/ visitPrimIntLit \/ visitPrimIdent \/ castToRValue \/ typeCheckInt
             \/ visitExprAssign \/ Assigned \/ TernaryEnd
             \/ visitBinary \/ Binary \/ visitUnaryOp \/ visitUnaryAddr \/ Deref \/ Ref
             \/ visitUnaryCast \/ Cast \/ Argument \/ Call
             \/ visitPfixSubscri \/ Subscript
    BY <1>1, ExpressionLabels
  <1>2. CASE visitExprTernary  BY <1>2, TernaryStepLabels
  <1>3. CASE visitPfixFCall  BY <1>3, CallLabels
  <1>4. CASE \/ DroppedValue \/ visitStmtRet \/ Return \/ visitStmtExpr
             \/ visitCompoundStatement \/ visitDeclLoNaive \/ Initialize \/ visitDeclLoArray
    BY <1>4, CalmStatements
  <1>5. CASE Appended  BY <1>5, AppendedLabels
  <1>6. CASE Tested  BY <1>6, TestedLabels
  <1>7. CASE visitStmtIf  BY <1>7, ConditionalLabels
  <1>8. CASE Branches  BY <1>8, BranchLabels
  <1>9. CASE LoopStack  BY <1>9, LoopStackLabels
  <1>10. CASE visitStmtWhile  BY <1>10, WhileLabels
  <1>11. CASE visitStmtDo  BY <1>11, DoLabels
  <1>12. CASE visitStmtJump  BY <1>12, JumpLabels
  <1>13. CASE visitStmtFor  BY <1>13, ForLabels
  <1>14. CASE endScope \/ EndFunction \/ EndProgram  BY <1>14, EndLabels
  <1>15. CASE visitDeclGlNaive \/ visitDeclGlArray \/ visitFuncDecl  BY <1>15, TopLabels
  <1>16. CASE visitFuncDef  BY <1>16, FunctionLabels
  <1> QED BY <1>1, <1>2, <1>3, <1>4, <1>5, <1>6, <1>7, <1>8, <1>9, <1>10, <1>11, <1>12, <1>13,
             <1>14, <1>15, <1>16 DEF Visit

\* At first all that is to be done is to visit the top-level nodes.
LEMMA InitLabels == Init => LInv
  <1> SUFFICES ASSUME Init PROVE LInv
    OBVIOUS
  <1>1. PICK p : p = Program[prog]  OBVIOUS
  <1>2. p \in Seq(Nodes)  BY <1>1, GrammarAssumption DEF Grammar, Init
  <1>3. PICK top : top = [i \in DOMAIN p |-> [do |-> "visit", node |-> p[i], name |-> "", n |-> 0]]
    OBVIOUS
  <1>4. DOMAIN p = 1 .. Len(p) /\ Len(p) \in Nat /\ \A i \in DOMAIN p : p[i] \in Nodes  BY <1>2
  <1>5. /\ DOMAIN top = DOMAIN p
        /\ \A i \in DOMAIN top : top[i].do = "visit" /\ top[i].node \in Nodes
    BY <1>3, <1>4
  <1>6. IsSeq(top)
    <2>1. top \in Seq({top[i] : i \in DOMAIN top})
      <3> DEFINE D == {top[i] : i \in DOMAIN top}
      <3>1. \A i \in DOMAIN top : top[i] \in D  OBVIOUS
      <3>2. top = [i \in 1 .. Len(p) |-> top[i]]  BY <1>3, <1>4
      <3> HIDE DEF D
      <3>3. top \in [1 .. Len(p) -> D]  BY <3>1, <3>2, <1>4, <1>5
      <3>4. top \in Seq(D)  BY <3>3, <1>4
      <3> QED BY <3>4 DEF D
    <2> QED BY <2>1 DEF IsSeq
  <1>7. /\ todo = <<top>> /\ ir = <<>> /\ loopStack = <<>> /\ labelCntr = 0 /\ loopCntr = 0
    BY <1>1, <1>3 DEF Init, VisitorInit
  <1>8. IsSeq(todo) /\ DOMAIN todo = {1} /\ todo[1] = top /\ todo # <<>> /\ Len(todo) = 1
    BY <1>7, One
  <1>9. IsSeq(ir) /\ DOMAIN ir = {}  BY <1>7, None
  <1>10. Entries(loopStack) = {} /\ DOMAIN loopStack = {} /\ loopStack \in Seq(Nat)  BY <1>7, None
  <1>11. Pending = Entries(top)  BY <1>8 DEF Pending
  <1>12. \A t \in Pending : t.do = "visit" /\ t.node \in Nodes  BY <1>5, <1>11 DEF Entries
  <1>13. LShape  BY <1>6, <1>7, <1>8, <1>9, <1>10 DEF LShape
  <1>14. \A i \in DOMAIN top, k \in DOMAIN top : Apart(top[i], top[k])
    BY <1>5 DEF Apart, LoopTasks
  <1>15. InOrder
    <2>1. \A j \in DOMAIN todo : Ordered(todo[j])  BY <1>8, <1>14 DEF Ordered
    <2>2. \A j, k \in DOMAIN todo : ~(j < k)  BY <1>8
    <2> QED BY <2>1, <2>2 DEF InOrder
  <1>16. TopSound  BY <1>8, <1>11, <1>12 DEF TopSound
  <1>17. LabelsSound /\ JumpsSound  BY <1>9 DEF LabelsSound, JumpsSound
  <1>18. TasksSound  BY <1>12 DEF TasksSound, TaskSound, Jumps, LoopTasks
  <1>19. LoopsSound  BY <1>10, <1>12 DEF LoopsSound
  <1> QED BY <1>13, <1>15, <1>16, <1>17, <1>18, <1>19 DEF LInv, Sound

\* With nothing left to do, every label a jump waits for is in the code.
LEMMA LabelsInPlace == LInv => JumpsLand
  <1> SUFFICES ASSUME LInv, Compiled, NEW i \in DOMAIN ir
               PROVE  /\ ir[i].op = "label" => Label(ir[i].name, ir[i].n) = {i}
                      /\ ir[i].op \in Jumps => \E k \in Label(ir[i].name, ir[i].n) : ir[k].of = ir[i].of
    BY DEF JumpsLand
  <1>1. Pending = {}
    <2>1. todo = <<>>  BY DEF Compiled
    <2>2. DOMAIN todo = {}  BY <2>1, None
    <2> QED BY <2>2 DEF Pending
  <1>2. ASSUME ir[i].op = "label"  PROVE Label(ir[i].name, ir[i].n) = {i}
    <2>1. \A k \in DOMAIN ir : ir[k].op = "label" /\ ir[k].name = ir[i].name /\ ir[k].n = ir[i].n => k = i
      BY <1>2 DEF LInv, Sound, LabelsSound, SameLabel
    <2> QED BY <2>1, <1>2 DEF Label
  <1>3. ASSUME ir[i].op \in Jumps
        PROVE  \E k \in Label(ir[i].name, ir[i].n) : ir[k].of = ir[i].of
    <2>1. PICK k \in DOMAIN ir : ir[k].op = "label" /\ SameLabel(ir[k], ir[i]) /\ ir[k].of = ir[i].of
      BY <1>1, <1>3 DEF LInv, Sound, JumpsSound, Has
    <2> QED BY <2>1 DEF Label, SameLabel
  <1> QED BY <1>2, <1>3

LEMMA LabelsStep ==
  ASSUME LInv, [Next]_vars
  PROVE  LInv'
  <1>1. CASE UNCHANGED visitorVars  BY <1>1, NothingMoves
  <1>2. CASE Visit  BY <1>2, VisitLabels
  <1> QED BY <1>1, <1>2 DEF Next, Compile, Run, Stop, vars

\* When a program is compiled, every label is in its code once, and every jump has its label, in
\* its own function: no two statements, however they follow or enclose each other, share one.
THEOREM EveryJumpLands == Spec => []JumpsLand
  <1>1. Init => LInv  BY InitLabels
  <1>2. LInv /\ [Next]_vars => LInv'  BY LabelsStep
  <1>3. LInv => JumpsLand  BY LabelsInPlace
  <1> QED BY <1>1, <1>2, <1>3, PTL DEF Spec

-----------------------------------------------------------------------------
\* With nothing left to do, the offset of a local variable is in reach if the frame is.
LEMMA LocalsInReach ==
  ASSUME Inv, todo = <<>>, \A f \in DOMAIN funcDefined : Immediate(FrameSize(f)),
         NEW i \in DOMAIN ir, ir[i].op = "frameaddr", ir[i].n >= 0
  PROVE  Immediate(-3 - ir[i].n)
  <1> DEFINE f == ir[i].of
             n == ir[i].n
  <1>1. symbolTable = <<>>  BY DEF Inv, IInv, Shape, Depths
  <1>2. f \in DOMAIN funcFrameSize /\ f \in DOMAIN funcDefined /\ n \in Int /\ funcFrameSize[f] \in Nat
    BY <1>1 DEF Inv, IInv, Functions
  <1>3. n < funcFrameSize[f]  BY <1>2 DEF Inv, IInv, FrameCovers
  <1>4. 2 + funcFrameSize[f] <= Reach - 1  BY <1>2, ReachAssumption DEF Immediate, FrameSize
  <1>5. n >= 0  OBVIOUS
  <1> HIDE DEF f, n
  <1>6. -3 - n \in -Reach .. Reach - 1  BY <1>2, <1>3, <1>4, <1>5, ReachAssumption
  <1> QED BY <1>6 DEF Immediate, n

\* What the assembler and the linker refuse is a program that calls a function it does not define,
\* one with a name that the label of an epilogue takes, or one with a frame or a list of arguments
\* that is too long for an immediate: never a label the visitor made is the reason, nor a local
\* variable in a frame that is in reach itself.
THEOREM OnlyRefusedFor ==
  Spec => [][phase' = "refused" /\ phase # "refused" =>
               \/ \E i \in DOMAIN ir : ir[i].op = "call" /\ ~Known(ir[i].name)
               \/ \E f \in DOMAIN funcDefined : EpilogueLabel(f) \in DOMAIN funcDefined \cup DOMAIN globDeclared
               \/ \E f \in DOMAIN funcDefined : ~Immediate(FrameSize(f))
               \/ \E i \in DOMAIN ir : ir[i].op = "call" /\ ~Immediate(ir[i].n)
               \/ \E i \in DOMAIN ir : ir[i].op = "frameaddr" /\ ir[i].n < 0 /\ ~Immediate(-3 - ir[i].n)]_vars
  <1> DEFINE Unresolved == \E i \in DOMAIN ir : ir[i].op = "call" /\ ~Known(ir[i].name)
             Taken == \E f \in DOMAIN funcDefined : EpilogueLabel(f) \in DOMAIN funcDefined \cup DOMAIN globDeclared
             LargeFrame == \E f \in DOMAIN funcDefined : ~Immediate(FrameSize(f))
             ManyArguments == \E i \in DOMAIN ir : ir[i].op = "call" /\ ~Immediate(ir[i].n)
             FarParameter == \E i \in DOMAIN ir : ir[i].op = "frameaddr" /\ ir[i].n < 0 /\ ~Immediate(-3 - ir[i].n)
             Reason == Unresolved \/ Taken \/ LargeFrame \/ ManyArguments \/ FarParameter
             WithReason == phase' = "refused" /\ phase # "refused" => Reason
  <1>1. Inv /\ JumpsLand /\ [Next]_vars => [WithReason]_vars
    <2> SUFFICES ASSUME Inv, JumpsLand, Next, phase' = "refused", phase # "refused"  PROVE Reason
      OBVIOUS
    <2>1. Execute  BY DEF Next, Compile, Run, Stop, vars, machineVars
    <2>2. Load_Program
      <3>1. CASE Next_Line  BY <3>1 DEF Next_Line
      <3>2. ASSUME NEW f, NEW m, NEW s, Epilogue(f, m, s)  PROVE phase' = phase \/ phase' = "exit"
        BY <3>2 DEF Epilogue
      <3>3. CASE doJump \/ doBranch \/ doFunc  BY <3>3 DEF doJump, doBranch, doFunc
      <3>4. CASE doCall \/ doRet \/ doEpilogue  BY <3>2, <3>4 DEF doCall, doRet, doEpilogue
      <3> QED
        BY <2>1, <3>1, <3>3, <3>4 DEF Execute, doPush, doFrAddr, doGlAddr, doLoad, doPop, doStore, doLabel,
                                      doUnaryOp, doBinaryOp
    <2>3. Compiled /\ ~Links  BY <2>2 DEF Load_Program, Compiled
    <2>4. OwnLabels
      <3>1. ASSUME NEW i \in DOMAIN ir
            PROVE  /\ ir[i].op = "label" => Label(ir[i].name, ir[i].n) = {i}
                   /\ ir[i].op \in Jumps => Label(ir[i].name, ir[i].n) # {}
        BY <2>3 DEF JumpsLand
      <3> QED BY <3>1 DEF OwnLabels, Jumps
    <2>5. ASSUME ~LargeFrame, ~ManyArguments, ~FarParameter  PROVE InReach
      <3>1. ASSUME NEW i \in DOMAIN ir, ir[i].op = "frameaddr"  PROVE Immediate(-3 - ir[i].n)
        <4>1. ir[i].n \in Int  BY <3>1 DEF Inv, IInv, Functions
        <4>2. CASE ir[i].n < 0  BY <2>5, <3>1, <4>2
        <4>3. CASE ir[i].n >= 0  BY <2>3, <2>5, <3>1, <4>3, LocalsInReach DEF Compiled
        <4> QED BY <4>1, <4>2, <4>3
      <3> QED BY <2>5, <3>1 DEF InReach
    <2>6. ~Taken => NamesApart  BY DEF NamesApart
    <2>7. ~Unresolved => CallsKnown  BY DEF CallsKnown
    <2> QED BY <2>3, <2>4, <2>5, <2>6, <2>7 DEF Links
  <1> QED BY <1>1, InvAlways, EveryJumpLands, PTL DEF Spec
=============================================================================
