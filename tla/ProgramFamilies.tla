--------------------------- MODULE ProgramFamilies ---------------------------
(***************************************************************************)
(* Families of small units to compile.  x and y are int parameters of their *)
(* main; f, g and h are functions of another unit, and so is poke, which    *)
(* writes where its argument points.                                        *)
(***************************************************************************)
EXTENDS CProgram

X == Name("x")
Y == Name("y")
CallF(f)        == CallExpr(f, << >>, << >>, FALSE)
CallF1(f, a)    == CallExpr(f, <<a>>, <<FALSE>>, FALSE)
CallF2(f, a, b) == CallExpr(f, <<a, b>>, <<FALSE, TRUE>>, FALSE)
Do(e)           == ExprStmt(e)
Block(stmts)    == Compound(stmts)
Params          == <<VarDecl(1, "x", Nothing), VarDecl(2, "y", Nothing)>>
Body(stmts)     == <<Function(Params, Compound(stmts), FALSE)>>

(* Statements that move control, inside a loop. *)
Moves == <<Break, Continue, ReturnStmt(Y), Do(CallF("g")), If(CallF("h"), Break, Nothing),
           If(X, Continue, Do(CallF("g"))), Goto("out")>>

Loop(kind, body) ==
  CASE kind = "while" -> While(CallF("f"), body)
    [] kind = "do"    -> DoWhile(body, CallF("f"))
    [] kind = "for"   -> For(Nothing, CallF("f"), CallF1("g", X), body)
    [] kind = "count" -> For(VarDecl(3, "i", IntLit(0)), Binary("lt", Name("i"), IntLit(2)), PostIncr("i"), body)
    [] kind = "ever"  -> For(Nothing, Nothing, AddAssign("x", IntLit(1)), Block(<<If(LogicalNot(CallF("f")), Break, Nothing), body>>))

LoopKeys == {"while", "do", "for", "count", "ever"} \X (DOMAIN Moves) \X (DOMAIN Moves)
LoopProgram(k, a, b) ==
     Body(<<Loop(k, Block(<<Moves[a], Moves[b]>>)), Do(CallF("g")), Label("out", Do(CallF1("h", X))), ReturnStmt(X)>>)

(* A switch in a loop: cases that fall through, a default in the middle, a *)
(* range, a table, a tree, a nested switch, a case inside an inner          *)
(* statement, a declaration before the first case, a 64-bit value.          *)
SwitchMoves == <<Break, Continue, Do(CallF("g")), ReturnStmt(Y)>>
Cases(shape, a, b, c) ==
  CASE shape = "chain"  -> <<Case(1, -1, a), Do(CallF("h")), Default(2, b), Case(3, 2, c)>>
    [] shape = "range"  -> <<Do(CallF("h")), CaseRange(1, -1, 0, a), CaseRange(2, 1, 2, b), Default(3, c)>>
    [] shape = "tree"   -> <<Case(1, 1, a), Case(2, -4, b), Case(3, 0, c), Case(4, -1, Do(CallF("h")))>>
    [] shape = "nested" -> <<Case(1, -1, Switch(Y, Block(<<Case(4, 0, a), Default(5, b)>>))),
                             Case(2, 0, If(Y, Case(3, 1, c), Nothing))>>
    [] shape = "decl"   -> <<VarDecl(8, "z", IntLit(1)), Case(1, 0, a), Case(2, 1, b), Do(Assign("z", Y)),
                             Default(3, c), Do(CallF1("g", Name("z")))>>
    [] shape = "wide"   -> <<Case(1, -1, a), Case(2, 1, b), Default(3, c)>>
SwitchKeys == {"chain", "range", "tree", "nested", "decl", "wide"} \X (DOMAIN SwitchMoves) \X (DOMAIN SwitchMoves) \X (DOMAIN SwitchMoves)
SwitchProgram(shape, a, b, c) ==
     Body(<<VarDecl(9, "w", X),
            DoWhile(Switch(Name(IF shape = "wide" THEN "w" ELSE "x"),
                           Block(Cases(shape, SwitchMoves[a], SwitchMoves[b], SwitchMoves[c]))), CallF("f")),
            ReturnStmt(X)>>)

(* Conditions: short circuits, negations and merged values, used as tests, *)
(* as values and as arguments.                                             *)
Atoms == <<X, CallF("f"), Binary("lt", X, Y)>>
Conditions(shape, a, b) ==
  CASE shape = "not"  -> LogicalNot(a)
    [] shape = "and"  -> LogicalAnd(a, b)
    [] shape = "or"   -> LogicalOr(a, b)
    [] shape = "both" -> LogicalAnd(LogicalOr(a, b), CallF("g"))
    [] shape = "deep" -> LogicalNot(LogicalOr(LogicalAnd(a, CallF("h")), LogicalNot(b)))
    [] shape = "twice" -> LogicalAnd(Ternary(a, b, X), LogicalNot(LogicalNot(Y)))
UsedIn(use, c) ==
  CASE use = "test"  -> Body(<<If(c, ReturnStmt(IntLit(1)), Nothing), ReturnStmt(IntLit(2))>>)
    [] use = "value" -> Body(<<VarDecl(3, "z", c), ReturnStmt(Binary("add", Name("z"), Ternary(c, X, CallF("f"))))>>)
    [] use = "arg"   -> Body(<<ReturnStmt(CallF2("h", c, Ternary(c, X, Y)))>>)
    [] use = "loop"  -> Body(<<While(c, Block(<<Do(Assign("x", CallF("f"))), If(LogicalNot(X), Break, Nothing)>>)), ReturnStmt(X)>>)
ConditionKeys == {"test", "value", "arg", "loop"} \X {"not", "and", "or", "both", "deep", "twice"} \X (DOMAIN Atoms) \X (DOMAIN Atoms)
ConditionProgram(use, shape, a, b) == UsedIn(use, Conditions(shape, Atoms[a], Atoms[b]))

(* Scopes, slots and widths: a name hiding another, two scopes sharing a    *)
(* slot, a wide local in a word's slot, conversions, updates.               *)
Values == <<X, Binary("sub", X, Y), Comma(PreIncr("x"), Y), PostIncr("x"), AddAssign("x", Y), CallF2("g", X, Y),
            Binary("add", Name("w"), X), Assign("w", Binary("add", X, X)), Ternary(Y, X, Name("w")), AddAssign("w", X),
            CallF2("g", X, CallF1("h", Y)), CallF2("g", CallF2("h", Y, X), Ternary(X, CallF1("f", Y), Y))>>
InScopes(shape, a, b) ==
  CASE shape = "shared" ->
         Body(<<VarDecl(3, "w", X), Block(<<Do(a), VarDecl(4, "x", Y), Do(PreIncr("x")), Do(CallF1("f", X))>>),
                Block(<<VarDecl(5, "z", b), VarDecl(6, "v", Nothing), Do(Assign("v", Name("z")))>>), ReturnStmt(Name("w"))>>)
    [] shape = "loop" ->
         Body(<<VarDecl(3, "w", Y),
                For(VarDecl(4, "x", IntLit(0)), CallF1("f", X), AddAssign("x", IntLit(3)),
                    Block(<<VarDecl(5, "z", b), If(Name("z"), Break, Nothing)>>)), ReturnStmt(Binary("add", X, a))>>)
    [] shape = "grown" ->
         <<Function(Params, Block(<<VarDecl(3, "w", a), Block(<<VarDecl(4, "z", b)>>),
                  Block(<<VarDecl(5, "v", Name("w")), Do(PostIncr("v")), Do(Assign("w", Name("v")))>>), ReturnStmt(Name("w"))>>), TRUE)>>
ScopeKeys == {"shared", "loop", "grown"} \X (1..6) \X (DOMAIN Values)
ScopeProgram(shape, a, b) == InScopes(shape, Values[a], Values[b])

(* Gotos: back, forward, into a loop and into a switch. *)
Passed == <<Do(PreIncr("x")), If(Y, Goto("end"), Nothing), Label("mid", Do(CallF("g"))),
            Block(<<VarDecl(3, "y", X), Do(CallF1("g", Y))>>)>>
Jumping(shape, a) ==
  CASE shape = "back"   -> <<Label("again", Do(CallF1("f", X))), a, If(CallF("g"), Goto("again"), Nothing)>>
    [] shape = "loop"   -> <<If(X, Goto("in"), Nothing), While(CallF("f"), Block(<<a, Label("in", Do(CallF("h")))>>))>>
    [] shape = "switch" -> <<If(X, Goto("in"), Nothing), Switch(Y, Block(<<Case(1, 0, a), Label("in", Default(2, Do(CallF("h"))))>>))>>
    [] shape = "over"   -> <<Goto("end"), a>>
GotoKeys == {"back", "loop", "switch", "over"} \X (DOMAIN Passed)
GotoProgram(shape, a) == Body(Append(Jumping(shape, Passed[a]), Label("end", ReturnStmt(X))))

(* Loops that count and call nothing. *)
Steps == <<Continue, If(X, Continue, Nothing), If(Y, Break, Nothing), Do(PostIncr("y"))>>
CountKeys == {"while", "do", "for", "goto"} \X (DOMAIN Steps) \X (DOMAIN Steps)
CountProgram(k, a, b) ==
  LET body == Block(<<Steps[a], Steps[b]>>)
      more == Binary("lt", PostIncr("i"), IntLit(2))
      goes == CASE k = "while" -> While(more, body)
                [] k = "do"    -> DoWhile(body, more)
                [] k = "for"   -> For(Nothing, Binary("lt", Name("i"), IntLit(2)), AddAssign("i", IntLit(1)), body)
                [] k = "goto"  -> Block(<<Label("again", DoWhile(body, IntLit(0))), If(more, Goto("again"), Nothing)>>)
  IN  Body(<<VarDecl(3, "i", IntLit(0)), goes, ReturnStmt(Y)>>)

(* A volatile local where another local's scope has ended. *)
VolatileKeys == {"x", "y"} \X {"x", "y"}
VolatileProgram(a, b) ==
  Body(<<Block(<<VarDecl(3, "z", Name(a)), Do(CallF1("f", Name("z")))>>),
         Block(<<VarDecl(4, "q", Name(b)), ReturnStmt(Binary("add", Name("q"), Name("q")))>>)>>)

(* Arithmetic between types: what a value is converted to before it is     *)
(* computed with, compared, shifted and stored.                            *)
Typed     == <<X, Name("o"), Name("c"), Name("u"), Name("w")>>
Operators == {"add", "sub", "mul", "div", "mod", "and", "xor", "shl", "shr"}
TypedBody(stmts) ==
  Body(<<VarDecl(3, "o", X), VarDecl(4, "c", Y), VarDecl(5, "u", Y), VarDecl(6, "w", Y)>> \o stmts)
(* A pair is added, subtracted and compared here, and is no count of a shift. *)
Done(o, a, b) == o \in {"add", "sub", "lt", "ge", "eq"} \/ 5 \notin {a, b}
ArithmeticKeys == {k \in {"return", "update"} \X (Operators \cup {"lt", "ge", "eq"}) \X (DOMAIN Typed) \X (DOMAIN Typed) :
                     Done(k[2], k[3], k[4]) /\ (k[1] = "update" => k[2] \in Operators)}
(* The code departs from C where an unsigned char is compared with a signed *)
(* value and where an int is shifted right, in place, by an unsigned count. *)
Diverges(k) ==
  \/ k[2] \in {"lt", "ge"} /\ {k[3], k[4]} \in {{1, 4}, {3, 4}}
  \/ k[1] = "update" /\ k[2] = "shr" /\ k[3] \in {1, 3, 4} /\ k[4] = 2
ArithmeticProgram(use, o, a, b) ==
  IF use = "return" THEN TypedBody(<<ReturnStmt(Binary(o, Typed[a], Typed[b]))>>)
  ELSE TypedBody(<<Do(UpdateOf(o, Typed[a], Typed[b])), ReturnStmt(Typed[a])>>)

(* Pointers into the buffer and to locals: bytes and words, with and        *)
(* without a sign, stepped, subtracted, written through, given to a callee. *)
PointerParams == <<VarDecl(1, "s", Nothing), VarDecl(2, "p", Nothing), VarDecl(3, "x", Nothing)>>
PointerBody(stmts) == <<Function(PointerParams, Compound(stmts), FALSE)>>
S == Name("s")
P == Name("p")
Nth(a, n) == Index(a, IntLit(n))
Uses == <<Do(AssignTo(Deref(PostStep("add", S)), X)), Do(UpdateOf("add", Nth(P, 1), Deref(S))),
          Do(AssignTo(Nth(Name("b"), 1), X)), Do(Assign("x", Nth(Name("b"), 1))),
          Do(UpdateOf("sub", Name("s"), IntLit(-1))), Do(Assign("p", Binary("add", IntLit(1), P))),
          Do(Assign("x", Binary("sub", Binary("add", P, IntLit(2)), P))), Do(PreStep("sub", Nth(S, 1))),
          Do(CallExpr("poke", <<AddressOf("x")>>, <<FALSE>>, FALSE)), Do(PostStep("add", Deref(P))),
          Block(<<VarDecl(5, "p", AddressOf("x")), Do(AssignTo(Deref(P), IntLit(-3)))>>),
          If(Binary("lt", S, Binary("add", S, X)), Do(AssignTo(Nth(S, 2), IntLit(7))), Nothing),
          Do(Assign("x", Unary("neg", Cast("char", Binary("add", X, Nth(S, 0)))))),
          Do(Assign("x", Unary("not", Nth(S, 1)))), Do(AssignTo(Deref(Cast("char*", AddressOf("x"))), IntLit(3)))>>
PointerKeys == (DOMAIN Uses) \X (DOMAIN Uses)
PointerProgram(a, b) ==
  PointerBody(<<VarDecl(4, "b", Cast("char*", S)), Uses[a], Uses[b],
                ReturnStmt(Binary("add", X, Binary("add", Deref(S), Deref(P))))>>)

(* Units of several functions. *)
Inner(stmts) == Named("g", TRUE, Function(<<VarDecl(7, "x", Nothing), VarDecl(8, "w", Nothing)>>, Compound(stmts), FALSE))
CallG(a, b)  == CallExpr("g", <<a, b>>, <<FALSE, TRUE>>, FALSE)
Inners == <<<<ReturnStmt(Binary("sub", X, Name("w")))>>,
            <<If(X, ReturnStmt(CallF1("f", X)), Nothing), ReturnStmt(Name("w"))>>,
            <<VarDecl(9, "y", IntLit(3)), Do(CallExpr("poke", <<AddressOf("y")>>, <<FALSE>>, FALSE)), ReturnStmt(Binary("add", X, Y))>>,
            <<While(Binary("lt", IntLit(0), X), Do(PreStep("sub", X))), ReturnStmt(X)>>,
            <<Do(CallF("f"))>>>>
Outers == <<<<ReturnStmt(CallG(X, Y))>>,
            <<VarDecl(3, "z", CallG(X, CallG(Y, X))), ReturnStmt(Binary("add", Name("z"), CallG(Name("z"), X)))>>,
            <<If(CallG(X, Y), ReturnStmt(X), Do(CallG(Y, X))), ReturnStmt(CallF1("h", Y))>>>>
UnitKeys == (DOMAIN Inners) \X (DOMAIN Outers)
UnitProgram(a, b) == <<Inner(Inners[a]), Function(Params, Compound(Outers[b]), FALSE)>>

(* Loops over the buffer that s and d point into, as bytes and, by way of   *)
(* p, as words: fills, copies, searches, sums, what resembles them, and      *)
(* what does not change from one turn to the next.                          *)
D == Name("d")
I == Name("i")
B == Name("b")
Less(n)   == Binary("lt", I, n)
Turns(how, n, body) ==
  CASE how = "for"   -> For(Do(Assign("i", IntLit(0))), Less(n), PostIncr("i"), body)
    [] how = "while" -> Block(<<Do(Assign("i", IntLit(0))), While(Less(n), Block(<<body, Do(AddAssign("i", IntLit(1)))>>))>>)
    [] how = "early" -> Block(<<Do(Assign("i", IntLit(-1))), While(Less(Binary("sub", n, IntLit(1))), Block(<<Do(AddAssign("i", IntLit(1))), body>>))>>)
    [] how = "from1" -> For(Do(Assign("i", IntLit(1))), Less(n), PostIncr("i"), body)
    [] how = "by2"   -> For(Do(Assign("i", IntLit(0))), Less(n), AddAssign("i", IntLit(2)), body)
    [] how = "down"  -> For(Do(Assign("i", IntLit(1))), Binary("ge", I, IntLit(0)), PostStep("sub", I), body)
    [] how = "scan"  -> Block(<<Do(Assign("i", IntLit(0))), While(Binary("ne", Index(S, I), IntLit(0)), Block(<<body, Do(PostIncr("i"))>>))>>)
At(a) == Index(a, I)
Above(k) == Binary("add", Name(k), IntLit(2))
Bodies ==
  <<Do(AssignTo(At(S), IntLit(1))), Do(AssignTo(At(S), X)), Do(AssignTo(At(D), At(S))), Do(AssignTo(At(S), I)),
    Do(AssignTo(At(P), X)), Do(UpdateOf("add", X, At(S))), Do(UpdateOf("add", At(P), At(P))), Nothing,
    If(At(S), Do(AssignTo(At(D), IntLit(2))), Nothing), If(Binary("eq", At(S), IntLit(2)), Break, Nothing),
    If(Binary("eq", At(S), X), Break, Nothing), If(Binary("eq", IntLit(-1), At(B)), Break, Nothing),
    If(Binary("eq", At(B), IntLit(3)), Break, Nothing),
    Do(Assign("x", Binary("add", X, Binary("mul", Name("k"), IntLit(3))))),
    If(Above("k"), Do(UpdateOf("add", X, Binary("div", IntLit(6), Above("k")))), Nothing),
    Do(AssignTo(Deref(D), At(S))), Do(AssignTo(At(S), Binary("add", Deref(D), IntLit(1)))), Do(AssignTo(At(B), X)),
    Block(<<Do(AssignTo(At(S), IntLit(3))), Do(AssignTo(At(D), IntLit(0)))>>),
    If(X, Do(AssignTo(At(S), IntLit(0))), Do(AssignTo(At(P), IntLit(5)))), Do(CallF1("f", At(S))),
    Do(PostIncr("i"))>>
Afters == <<X, I, At(S)>>
(* Every loop ends, inside the buffer. *)
TurnKeys == {k \in {"for", "while", "early", "from1", "by2", "down", "scan"} \X (DOMAIN Bodies) \X (DOMAIN Afters) :
               ~(k[1] = "down" /\ k[2] = 22) /\ ~(k[1] = "scan" /\ k[2] = 7) /\ ~(k[3] = 3 /\ k[2] \in {6, 14, 15})}
TurnProgram(how, a, after) ==
  <<Function(<<VarDecl(1, "s", Nothing), VarDecl(2, "d", Nothing), VarDecl(3, "x", Nothing), VarDecl(4, "k", Nothing)>>,
      Block(<<VarDecl(5, "p", Cast("int*", S)), VarDecl(6, "b", Cast("char*", S)), VarDecl(7, "i", Nothing),
              Turns(how, IF after = 3 THEN X ELSE IntLit(2), Bodies[a]), ReturnStmt(Afters[after])>>), FALSE)>>

(* Values the compiler can know: operations on numbers, on a number and an  *)
(* int or an unsigned int, and what their results decide.  A program asks   *)
(* of every number; 0, which may trap, comes last.                          *)
Numbers == <<1, 2, -1, 5, 64, -128, 0>>
KnownKeys == {k \in {"both", "right", "left", "unsigned", "tested", "switched", "twice"} \X (Operators \cup {"lt", "ge", "eq"}) \X (DOMAIN Numbers) :
                k[1] \in {"right", "left", "unsigned"} => k[3] = 1}
ForAllNumbers(stmt(_)) == [k \in DOMAIN Numbers |-> stmt(IntLit(Numbers[k]))]
KnownProgram(shape, o, a) ==
  LET n == IntLit(Numbers[a])
      z == Name("z")
  IN CASE shape = "both"     -> Body(ForAllNumbers(LAMBDA m : Do(CallF1("f", Binary(o, n, m)))))
       [] shape = "right"    -> Body(ForAllNumbers(LAMBDA m : Do(CallF1("f", Binary(o, X, m)))))
       [] shape = "left"     -> Body(ForAllNumbers(LAMBDA m : Do(CallF1("f", Binary(o, m, X)))))
       [] shape = "unsigned" -> Body(<<VarDecl(3, "o", X)>> \o ForAllNumbers(LAMBDA m : Do(CallF1("f", Binary(o, Name("o"), m)))))
       [] shape = "tested"   -> Body(<<VarDecl(3, "z", n)>> \o
                                     ForAllNumbers(LAMBDA m : If(Binary(o, z, m), Do(CallF1("f", z)), Do(Assign("z", Y)))))
       [] shape = "switched" -> Body(<<VarDecl(3, "z", Binary(o, n, IntLit(5))),
                                       Switch(z, Block(<<Case(1, 0, Do(CallF("g"))), Case(2, 1, Break), Default(3, Do(Assign("x", z)))>>)),
                                       ReturnStmt(X)>>)
       [] shape = "twice"    -> Body(<<VarDecl(3, "z", Binary(o, X, n)), If(Y, Do(Assign("y", Binary(o, X, n))), Nothing),
                                       ReturnStmt(Binary("sub", Binary(o, X, n), Binary("mul", z, Y)))>>)

(* A restrict pointer, the only way to its object. *)
E == Name("e")
Restricted == <<Do(AssignTo(Deref(E), X)), Do(Assign("x", Deref(E))), Do(AssignTo(Nth(E, 1), X)), Do(UpdateOf("add", Deref(E), IntLit(1))),
                Do(PostStep("add", E)), Do(AssignTo(Deref(PostStep("add", E)), IntLit(2))), If(X, Do(AssignTo(Deref(E), IntLit(3))), Nothing),
                Do(Assign("x", Nth(E, 1))), Do(CallF1("f", Deref(E))), Do(AssignTo(Deref(Name("r")), X)), Do(Assign("x", Deref(Name("r"))))>>
RestrictedKeys == ({1, 3, 6} \X (1..9) \X (1..9)) \cup ({7} \X {1, 4} \X (1..9)) \cup ({10} \X {10, 11} \X {10, 11})
RestrictedProgram(a, b, c) ==
  PointerBody(<<VarDecl(4, "e", S), VarDecl(5, "r", P), Restricted[a], Restricted[b], Restricted[c], ReturnStmt(X)>>)

(* Programs that come out of the optimizer as other programs. *)
MiscompiledKeys == 1..7
MiscompiledProgram(n) ==
  LET count(stmts) == <<Function(<<VarDecl(1, "s", Nothing), VarDecl(2, "x", Nothing), VarDecl(3, "i", Nothing)>>, Block(stmts), FALSE)>>
      first   == Do(Assign("i", IntLit(0)))
  IN CASE n = 1 -> \* the test is made after the store
            count(<<For(first, Comma(AssignTo(Index(S, I), IntLit(1)), Less(IntLit(2))), PostIncr("i"), Nothing), ReturnStmt(X)>>)
       [] n = 2 -> \* the counter moves in the test
            count(<<first, While(Binary("ne", Index(S, PostIncr("i")), IntLit(0)), Nothing), ReturnStmt(I)>>)
       [] n = 3 -> \* the test that leaves is not made in every turn
            count(<<For(first, Less(IntLit(3)), PostIncr("i"), If(Less(X), If(Binary("eq", Index(S, I), IntLit(3)), Break, Nothing), Nothing)), ReturnStmt(I)>>)
       [] n = 4 -> \* a byte read with the other signedness
            count(<<VarDecl(4, "u", X), VarDecl(5, "b", Cast("char*", AddressOf("u"))), ReturnStmt(Deref(Name("b")))>>)
       [] n = 5 -> \* a restrict pointer, its address taken, that moves
            count(<<VarDecl(4, "e", S), VarDecl(5, "p", AddressOf("e")), Do(AssignTo(Deref(PostStep("add", E)), X)), ReturnStmt(Deref(E))>>)
       [] n = 6 -> \* a byte read through a restrict pointer with the other signedness
            <<Function(<<VarDecl(1, "e", Nothing), VarDecl(2, "x", Nothing)>>,
                       Block(<<Do(AssignTo(Deref(E), X)), ReturnStmt(Deref(Cast("char*", E)))>>), FALSE)>>
       [] n = 7 -> \* the bound is overwritten by the fill
            count(<<VarDecl(4, "n", IntLit(2)), VarDecl(5, "p", AddressOf("n")), For(first, Less(Name("n")), PostIncr("i"), Do(AssignTo(Index(Cast("uchar*", P), I), IntLit(1)))), ReturnStmt(Name("n"))>>)

KeysOf(family) ==
  CASE family = "arithmetic" -> {k \in ArithmeticKeys : ~Diverges(k)}
    [] family = "conversions" -> {k \in ArithmeticKeys : Diverges(k)}
    [] family = "pointers"   -> PointerKeys
    [] family = "units"      -> UnitKeys
    [] family = "loops"      -> LoopKeys
    [] family = "switches"   -> SwitchKeys
    [] family = "gotos"      -> GotoKeys
    [] family = "conditions" -> ConditionKeys
    [] family = "scopes"     -> ScopeKeys
    [] family = "counting"   -> CountKeys
    [] family = "volatile"   -> VolatileKeys
    [] family = "turns"      -> TurnKeys
    [] family = "known"      -> KnownKeys
    [] family = "restricted" -> RestrictedKeys
    [] family = "miscompiled" -> {<<n>> : n \in MiscompiledKeys}
ProgramOf(family, key) ==
  CASE family \in {"arithmetic", "conversions"} -> ArithmeticProgram(key[1], key[2], key[3], key[4])
    [] family = "pointers"   -> PointerProgram(key[1], key[2])
    [] family = "units"      -> UnitProgram(key[1], key[2])
    [] family = "loops"      -> LoopProgram(key[1], key[2], key[3])
    [] family = "switches"   -> SwitchProgram(key[1], key[2], key[3], key[4])
    [] family = "gotos"      -> GotoProgram(key[1], key[2])
    [] family = "conditions" -> ConditionProgram(key[1], key[2], key[3], key[4])
    [] family = "scopes"     -> ScopeProgram(key[1], key[2], key[3])
    [] family = "counting"   -> CountProgram(key[1], key[2], key[3])
    [] family = "volatile"   -> VolatileProgram(key[1], key[2])
    [] family = "turns"      -> TurnProgram(key[1], key[2], key[3])
    [] family = "known"      -> KnownProgram(key[1], key[2], key[3])
    [] family = "restricted" -> RestrictedProgram(key[1], key[2], key[3])
    [] family = "miscompiled" -> MiscompiledProgram(key[1])
=============================================================================
