------------------------- MODULE PlacementPrograms --------------------------
(***************************************************************************)
(* Families of small functions whose values compete for registers: they     *)
(* are lowered by IrBuilder and placed by ValuePlacement.  x and y are int  *)
(* parameters, w is a long long one; f and g are functions of another unit. *)
(***************************************************************************)
EXTENDS IrBuilder

X == Name("x")
Y == Name("y")
W == Name("w")
K == Name("k")
Z == Name("z")
Add(a, b) == Binary("add", a, b)
Sub(a, b) == Binary("sub", a, b)
F(a)      == CallExpr("f", <<a>>, <<FALSE>>, FALSE)
G(a, b)   == CallExpr("g", <<a, b>>, <<TRUE, FALSE>>, TRUE)
Do(e)     == ExprStmt(e)
Params(names) == [n \in DOMAIN names |-> VarDecl(n, names[n], Nothing)]

(* Values: of no instruction, of several, of several blocks, of a call, in  *)
(* words and in pairs, with and without side effects on what others read.   *)
Leaf == <<X, Add(X, Y), PostIncr("x"), Ternary(Y, X, Sub(X, Y)), LogicalAnd(X, Y), Add(W, X), IntLit(3),
          Assign("y", X), Ternary(X, W, Add(W, W)), Sub(Add(X, Y), Sub(Y, X))>>
Calling == <<F(X), Ternary(X, F(Y), Y), G(W, X), F(Add(X, F(Y))), Add(G(X, Y), W), Ternary(F(X), G(W, Y), W)>>
Values == Leaf \o Calling

Sum(a, b) == Function(Params(<<"x", "y", "w">>), Compound(<<ReturnStmt(Add(a, b))>>), FALSE)

(* w arrives in the second pair, y on the stack. *)
Arguments(a, b) ==
  Function(Params(<<"x", "w", "y">>),
           Compound(<<ReturnStmt(CallExpr("g", <<a, b, X>>, <<FALSE, TRUE, FALSE>>, TRUE))>>), TRUE)

(* A tail call, when its arguments fit in registers. *)
Handing(a, b) ==
  Function(Params(<<"x", "y", "w">>),
           Compound(<<VarDecl(4, "z", a), Do(F(Z)), ReturnStmt(CallExpr("g", <<b, Z>>, <<FALSE, FALSE>>, FALSE))>>), FALSE)

Loop(a, b) ==
  Function(Params(<<"x", "w", "y">>),
           Compound(<<VarDecl(4, "k", a),
                      While(Binary("lt", K, Y), Compound(<<VarDecl(5, "z", b), Do(Assign("x", Add(X, Z))), Do(PreIncr("k"))>>)),
                      ReturnStmt(Add(X, K))>>), FALSE)

(* More locals than registers, one of them asked for with `register`. *)
Crowd(a, b) ==
  Function(Params(<<"x", "y", "w">>),
           Compound(<<VarDecl(4, "z", a), VarDecl(5, "v", b), VarDecl(6, "n", X), VarDecl(7, "m", Y), VarDecl(8, "k", b),
                      ReturnStmt(Add(Add(Z, Name("v")), Add(Sub(K, Name("n")), Sub(Name("m"), X))))>>), TRUE)

(* A local whose address a callee has. *)
Escaping(a, b) ==
  Function(Params(<<"x", "y", "w">>),
           Compound(<<VarDecl(4, "z", a), Do(F(AddressOf("z"))), ReturnStmt(Add(Z, b))>>), FALSE)

(* A jump table. *)
Choice(a, b) ==
  Function(Params(<<"x", "y", "w">>),
           Compound(<<Switch(a, Compound(<<Case(1, 0, Do(Assign("x", b))), Case(2, 1, ReturnStmt(Y)), Default(3, Do(F(X)))>>)),
                      ReturnStmt(Add(X, Y))>>), FALSE)

Shaped(shape, a, b) ==
  CASE shape = "sum"      -> Sum(a, b)
    [] shape = "args"     -> Arguments(a, b)
    [] shape = "handing"  -> Handing(a, b)
    [] shape = "loop"     -> Loop(a, b)
    [] shape = "crowd"    -> Crowd(a, b)
    [] shape = "escaping" -> Escaping(a, b)
    [] shape = "choice"   -> Choice(a, b)

(* A call on the way to the second operand of &&, a merged value nothing    *)
(* reads, and a pointer to a local handed to a function.                    *)
Departures(shape) ==
  CASE shape = "across" -> Sum(Add(X, Y), LogicalAnd(Y, F(X)))
    [] shape = "unread" -> Sum(Sub(X, Y), Comma(LogicalAnd(Y, X), Y))
    [] shape = "pointer" ->
         Function(Params(<<"x", "y", "w">>),
                  Compound(<<VarDecl(4, "z", X), VarDecl(5, "p", AddressOf("z")), ReturnStmt(F(Name("p")))>>), FALSE)

ProgramOf(key) == IF Len(key) = 1 THEN Departures(key[1]) ELSE Shaped(key[1], Values[key[2]], Values[key[3]])
=============================================================================
