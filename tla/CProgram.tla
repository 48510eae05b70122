------------------------------ MODULE CProgram ------------------------------
(***************************************************************************)
(* A small C: the syntax trees of libs/ast that the lowering is checked    *)
(* on, and what C says they do.  The meaning is big-step and knows nothing *)
(* of blocks or jumps: a statement runs, or is passed over while control   *)
(* seeks a label, a case or a default inside it.  It is the reference the  *)
(* lowered code is compared with.                                          *)
(*                                                                         *)
(* Every declaration, case and default carries an id of its own, as each   *)
(* node of the tree is an object of its own in the source.                 *)
(***************************************************************************)
EXTENDS Integers, Sequences

Nothing == [k |-> "none"]

(* Types.  A variable has the type its name is listed with, or is an int;   *)
(* some are volatile.  A byte has ByteBits bits here, a word four bytes and *)
(* a pair two words, so that sums overflow and conversions lose what they   *)
(* lose.                                                                    *)
TypeOfName    == [w |-> "wide", v |-> "wide", o |-> "uint", c |-> "char", u |-> "uchar",
                  s |-> "uchar*", d |-> "uchar*", e |-> "uchar*", b |-> "char*", p |-> "int*", r |-> "int*"]
VolatileNames == {"q"}
RegisterNames == {"k"}     \* those declared `register`
RestrictNames == {"e", "r"}     \* those declared `restrict`
ByteBits  == 2
WordBits  == 8
Elem(type)  == CASE type = "int*" -> "int" [] type = "char*" -> "char" [] type = "uchar*" -> "uchar"
PtrTo(type) == CASE type = "int" -> "int*" [] type = "char" -> "char*" [] type = "uchar" -> "uchar*" [] OTHER -> "int*"
PointerTypes == {"int*", "char*", "uchar*"}
ByteTypes    == {"char", "uchar"}
SizeOfType(type) == CASE type = "wide" -> 8 [] type \in ByteTypes -> 1 [] OTHER -> 4
VarType(v)  == IF v \in DOMAIN TypeOfName THEN TypeOfName[v] ELSE "int"
WideNames   == {v \in DOMAIN TypeOfName : TypeOfName[v] = "wide"}

Promoted(type)  == IF type \in ByteTypes \cup {"bool"} THEN "int" ELSE type
Common(a, b)    == CASE "wide" \in {a, b} -> "wide" [] "uint" \in {a, b} -> "uint" [] OTHER -> "int"
Comparisons     == {"lt", "le", "gt", "ge", "eq", "ne"}
Shifts          == {"shl", "shr"}

BinaryType(o, a, b) ==
  CASE o \in Comparisons -> "bool"
    [] o \in Shifts -> Promoted(a)
    [] a \in PointerTypes /\ b \in PointerTypes -> "int"
    [] a \in PointerTypes -> a
    [] b \in PointerTypes -> b
    [] OTHER -> Common(a, b)
-----------------------------------------------------------------------------
(* Expressions (ast/expr.h), each with the type sema gives it.  `t` is the   *)
(* target of an assignment, an expression that names an object.             *)
IntLit(n)        == [k |-> "int", type |-> "int", n |-> n]
Name(v)          == [k |-> "name", type |-> VarType(v), v |-> v]
Binary(o, a, b)  == [k |-> "binary", type |-> BinaryType(o, a.type, b.type), o |-> o, a |-> a, b |-> b]
Unary(o, a)      == [k |-> "unary", type |-> Promoted(a.type), o |-> o, a |-> a]     \* "neg" or "not"
Cast(type, a)    == [k |-> "cast", type |-> type, a |-> a]
Deref(a)         == [k |-> "deref", type |-> Elem(a.type), a |-> a]
Index(a, b)      == [k |-> "index", type |-> Elem(a.type), a |-> a, b |-> b]
LogicalAnd(a, b) == [k |-> "and", type |-> "bool", a |-> a, b |-> b]
LogicalOr(a, b)  == [k |-> "or", type |-> "bool", a |-> a, b |-> b]
LogicalNot(a)    == [k |-> "lnot", type |-> "bool", a |-> a]
Ternary(c, a, b) == [k |-> "ternary", type |-> IF a.type \in PointerTypes THEN a.type ELSE Common(a.type, b.type),
                     c |-> c, a |-> a, b |-> b]
Comma(a, b)      == [k |-> "comma", type |-> b.type, a |-> a, b |-> b]
AssignTo(t, e)   == [k |-> "assign", type |-> t.type, t |-> t, e |-> e]
UpdateOf(o, t, e) == [k |-> "opassign", type |-> t.type, o |-> o, t |-> t, e |-> e]
PreStep(o, t)    == [k |-> "prestep", type |-> t.type, o |-> o, t |-> t]
PostStep(o, t)   == [k |-> "poststep", type |-> t.type, o |-> o, t |-> t]
Assign(v, e)     == AssignTo(Name(v), e)
AddAssign(v, e)  == UpdateOf("add", Name(v), e)
PreIncr(v)       == PreStep("add", Name(v))
PostIncr(v)      == PostStep("add", Name(v))
AddressOf(v)     == [k |-> "addressof", type |-> PtrTo(VarType(v)), v |-> v]
(* A call of f, whose parameters and result have the widths given. *)
CallExpr(f, args, wides, wide) ==
  [k |-> "call", type |-> IF wide THEN "wide" ELSE "int", f |-> f, args |-> args, wides |-> wides, wide |-> wide]

TypeOf(e) == e.type
IsWide(e) == e.type = "wide"

(* Statements (ast/stmt.h). *)
ExprStmt(e)         == [k |-> "expr", e |-> e]
VarDecl(id, v, e)   == [k |-> "decl", id |-> id, v |-> v, e |-> e]
Compound(stmts)     == [k |-> "compound", stmts |-> stmts]
If(c, a, b)         == [k |-> "if", c |-> c, a |-> a, b |-> b]
While(c, a)         == [k |-> "while", c |-> c, a |-> a]
DoWhile(a, c)       == [k |-> "dowhile", c |-> c, a |-> a]
For(init, c, inc, a) == [k |-> "for", init |-> init, c |-> c, inc |-> inc, a |-> a]
ReturnStmt(e)       == [k |-> "return", e |-> e]
Break               == [k |-> "break"]
Continue            == [k |-> "continue"]
Switch(c, a)        == [k |-> "switch", c |-> c, a |-> a]
Case(id, n, a)      == [k |-> "case", id |-> id, n |-> n, upper |-> n, a |-> a]
CaseRange(id, n, m, a) == [Case(id, n, a) EXCEPT !.upper = m]
Default(id, a)      == [k |-> "default", id |-> id, a |-> a]
Goto(l)             == [k |-> "goto", l |-> l]
Label(l, a)         == [k |-> "label", l |-> l, a |-> a]

(* A definition: its parameters as declarations, its body, whether it      *)
(* returns a 64-bit value.                                                 *)
Function(params, body, wide) == [name |-> "main", static |-> FALSE, params |-> params, body |-> body, wide |-> wide]
(* Another function of the same unit; a unit ends with its "main". *)
Named(name, static, function) == [function EXCEPT !.name = name, !.static = static]

-----------------------------------------------------------------------------
Wrap(x, bits)   == ((x + 2^(bits - 1)) % 2^bits) - 2^(bits - 1)
As(x, wide)     == Wrap(x, IF wide THEN 2 * WordBits ELSE WordBits)

-----------------------------------------------------------------------------
(* Memory is words; a byte is part of one.  Addresses count bytes.          *)

Unknown  == -1000                        \* a word nothing has written
Byte     == 2^ByteBits
WordBase == 2^WordBits
U(x)     == x % WordBase                 \* the unsigned view of a word
WordOf(mem, x) == LET w == mem[U(x) \div 4] IN IF w = Unknown THEN 0 ELSE w
ByteAt(x)      == Byte^(U(x) % 4)

Truth(b) == IF b THEN 1 ELSE 0

(* The value of `type` that x is converted to. *)
Conv(x, type) ==
  CASE type = "wide"  -> Wrap(x, 2 * WordBits)
    [] type = "char"  -> Wrap(x, ByteBits)
    [] type = "uchar" -> x % Byte
    [] type = "bool"  -> Truth(x # 0)
    [] type = "int"   -> Wrap(x, WordBits)
    [] OTHER          -> x % WordBase

ReadMem(mem, x, type) ==
  CASE type = "wide" -> Wrap(WordOf(mem, x) + WordBase * WordOf(mem, x + 4), 2 * WordBits)
    [] type \in ByteTypes -> Conv((WordOf(mem, x) \div ByteAt(x)) % Byte, type)
    [] OTHER -> Conv(WordOf(mem, x), type)

WriteMem(mem, x, type, val) ==
  CASE type = "wide" -> [mem EXCEPT ![U(x) \div 4] = val % WordBase, ![U(x) \div 4 + 1] = (val \div WordBase) % WordBase]
    [] type \in ByteTypes -> [mem EXCEPT ![U(x) \div 4] =
                               LET old == WordOf(mem, x)
                               IN old - (((old \div ByteAt(x)) % Byte) - (val % Byte)) * ByteAt(x)]
    [] OTHER -> [mem EXCEPT ![U(x) \div 4] = val % WordBase]

(* Words 1 to 3 are a buffer the caller shares; objects follow it, each of  *)
(* two words.                                                               *)
BufferWords == 1..3
FirstFrame  == 4
AddressOfSlot(frame, slot) == 4 * (frame + 2 * (slot - 1))

-----------------------------------------------------------------------------
(* What C says.  The state of a run: how control stands (mode), the value  *)
(* of the last expression, the memory, where the object a name means is,   *)
(* what the program did that others see (calls, accesses to volatile        *)
(* objects) and what its calls will answer (oracle), the functions it has.  *)

Quotient(x, y) == IF (x < 0) = (y < 0) THEN (IF x < 0 THEN -x ELSE x) \div (IF y < 0 THEN -y ELSE y)
                  ELSE -((IF x < 0 THEN -x ELSE x) \div (IF y < 0 THEN -y ELSE y))

(* Bit by bit, on non-negative numbers. *)
BitwiseOn(o, x, y, bits) ==
  LET bit(z, n) == (z \div 2^n) % 2
      f[n \in 0..bits] ==
        IF n = 0 THEN 0
        ELSE f[n - 1] + 2^(n - 1) *
             (CASE o = "and" -> bit(x, n - 1) * bit(y, n - 1)
                [] o = "or"  -> Truth(bit(x, n - 1) + bit(y, n - 1) > 0)
                [] o = "xor" -> (bit(x, n - 1) + bit(y, n - 1)) % 2)
  IN  f[bits]

(* An operator on two numbers of the common type. *)
Calculate(o, x, y) ==
  CASE o = "add" -> x + y
    [] o = "sub" -> x - y
    [] o = "mul" -> x * y
    [] o = "div" -> Quotient(x, y)
    [] o = "mod" -> x - y * Quotient(x, y)
    [] o \in {"and", "or", "xor"} -> BitwiseOn(o, x % WordBase, y % WordBase, WordBits)
    [] o = "shl" -> x * 2^(y % WordBits)
    [] o = "shr" -> x \div 2^(y % WordBits)
    [] o = "lt" -> Truth(x < y)
    [] o = "le" -> Truth(x <= y)
    [] o = "gt" -> Truth(x > y)
    [] o = "ge" -> Truth(x >= y)
    [] o = "eq" -> Truth(x = y)
    [] o = "ne" -> Truth(x # y)

Run == <<"run">>
Seeks(mode) == mode[1] \in {"case", "default", "label"}
Runs(s)     == s.mode = Run
Trap(s)     == [s EXCEPT !.mode = <<"trap">>, !.log = Append(@, <<"trap", << >>>>)]

Answer(s) == IF Len(s.log) < Len(s.oracle) THEN s.oracle[Len(s.log) + 1] ELSE 0
IsVolatile(t) == t.k = "name" /\ t.v \in VolatileNames
Logged(s, t, kind, values) == IF IsVolatile(t) THEN [s EXCEPT !.log = Append(@, <<kind, values>>)] ELSE s

(* The value of the object of `t` at `x`, and that object given a value. *)
Fetch(s, t, x) ==
  LET val == ReadMem(s.mem, x, TypeOf(t)) IN [Logged(s, t, "read", <<val>>) EXCEPT !.val = val]
Put(s, t, x, val) ==
  LET y == Conv(val, TypeOf(t))
  IN IF Runs(s) THEN [Logged(s, t, "write", <<y>>) EXCEPT !.mem = WriteMem(@, x, TypeOf(t), y), !.val = y] ELSE s

(* x o y on the values of types a and b; a pointer moves by whole elements. *)
Operate(s, o, x, a, y, b) ==
  LET common == IF o \in Shifts THEN Promoted(a)
                ELSE IF a \in PointerTypes \/ b \in PointerTypes THEN "uint" ELSE Common(a, b)
      by(type, other) == IF o \in {"add", "sub"} /\ type \in PointerTypes /\ other \notin PointerTypes
                         THEN SizeOfType(Elem(type)) ELSE 1
      result == Calculate(o, Conv(x * by(b, a), common), IF o \in Shifts THEN y ELSE Conv(y * by(a, b), common))
  IN  IF o \in {"div", "mod"} /\ Conv(y, common) = 0 THEN (IF Runs(s) THEN Trap(s) ELSE s)
      ELSE [s EXCEPT !.val = IF a \in PointerTypes /\ b \in PointerTypes /\ o = "sub"
                             THEN Quotient(Conv(result, "int"), SizeOfType(Elem(a)))
                             ELSE Conv(result, BinaryType(o, a, b))]

RECURSIVE Eval(_, _), EvalArgs(_, _, _, _), PlaceOf(_, _), Execute(_, _, _)

OperateOn(b, o, x, ta, tb) == Operate(b, o, x, ta, b.val, tb)
(* `a` has the left operand's value; the right one is computed next. *)
OperateAfter(a, o, left, right) == OperateOn(Eval(right, a), o, a.val, TypeOf(left), TypeOf(right))

(* Where the object of `t` is. *)
PlaceOf(t, s) ==
  CASE t.k = "name"  -> [s EXCEPT !.val = s.names[t.v]]
    [] t.k = "deref" -> Eval(t.a, s)
    [] t.k = "index" -> OperateAfter(Eval(t.a, s), "add", t.a, t.b)

FetchAt(at, t)      == IF Runs(at) THEN Fetch(at, t, at.val) ELSE at
PutAt(at, t, val)   == Put(at, t, at.val, val)
PutLast(s, t, x)    == Put(s, t, x, s.val)
AssignLast(s, t)    == PutAt(PlaceOf(t, s), t, s.val)
(* The target of an update is read before the operand is computed. *)
UpdateOld(old, e, x) == PutLast(OperateOn(Eval(e.e, old), e.o, old.val, TypeOf(e.t), TypeOf(e.e)), e.t, x)
UpdatePlace(at, e)   == UpdateOld(Fetch(at, e.t, at.val), e, at.val)
YieldOf(s, val)     == [s EXCEPT !.val = val]
StepYield(s, e, old) == IF e.k = "prestep" THEN s ELSE YieldOf(s, old)
StepOld(old, e, x)   == StepYield(PutLast(Operate(old, e.o, old.val, TypeOf(e.t), 1, "int"), e.t, x), e, old.val)
StepPlace(at, e)    == StepOld(Fetch(at, e.t, at.val), e, at.val)
TruthOf(s)          == YieldOf(s, Truth(s.val # 0))
Both(a, e)          == IF a.val = 0 THEN a ELSE TruthOf(Eval(e.b, a))
Either(a, e)        == IF a.val # 0 THEN YieldOf(a, 1) ELSE TruthOf(Eval(e.b, a))
Converted(s, type)  == YieldOf(s, Conv(s.val, type))
Negated(s)          == YieldOf(s, Truth(s.val = 0))
UnaryOn(s, e)       == YieldOf(s, Conv(IF e.o = "neg" THEN -s.val ELSE -s.val - 1, TypeOf(e)))
ChosenArm(c, e)     == Converted(Eval(IF c.val # 0 THEN e.a ELSE e.b, c), TypeOf(e))

Eval(e, s) ==
  CASE ~Runs(s)    -> s
    [] e.k = "int"    -> [s EXCEPT !.val = e.n]
    [] e.k \in {"name", "deref", "index"} -> FetchAt(PlaceOf(e, s), e)
    [] e.k = "binary" -> OperateAfter(Eval(e.a, s), e.o, e.a, e.b)
    [] e.k = "unary"  -> UnaryOn(Eval(e.a, s), e)
    [] e.k = "cast"   -> Converted(Eval(e.a, s), e.type)
    [] e.k = "addressof" -> [s EXCEPT !.val = s.names[e.v]]
    [] e.k = "and"    -> Both(Eval(e.a, s), e)
    [] e.k = "or"     -> Either(Eval(e.a, s), e)
    [] e.k = "lnot"   -> Negated(Eval(e.a, s))
    [] e.k = "ternary"  -> ChosenArm(Eval(e.c, s), e)
    [] e.k = "comma"    -> Eval(e.b, Eval(e.a, s))
    [] e.k = "assign"   -> AssignLast(Eval(e.e, s), e.t)
    [] e.k = "opassign" -> UpdatePlace(PlaceOf(e.t, s), e)
    [] e.k \in {"prestep", "poststep"} -> StepPlace(PlaceOf(e.t, s), e)
    [] e.k = "call"     -> EvalArgs(e, s, << >>, 1)

(* A function of the unit runs on its own objects; a call of any other one  *)
(* is seen, and answered.  The one called "poke" also leaves its answer     *)
(* where its argument points.                                               *)
WordOrPair(wide) == IF wide THEN "wide" ELSE "int"
NextValue(a, e, values, n) == EvalArgs(e, a, Append(values, Conv(a.val, WordOrPair(e.wides[n]))), n + 1)
BackFrom(t, function, s) ==
  IF t.mode[1] = "trap" THEN t
  ELSE [t EXCEPT !.mode = Run, !.names = s.names,
                 !.val = IF t.mode = <<"return">> THEN Conv(@, WordOrPair(function.wide)) ELSE 0]
CallOwn(function, values, s) == BackFrom(Execute(function, values, s), function, s)
EvalArgs(e, s, values, n) ==
  CASE n <= Len(e.args) -> NextValue(Eval(e.args[n], s), e, values, n)
    [] n > Len(e.args) /\ ~Runs(s) -> s
    [] n > Len(e.args) /\ Runs(s) /\ \E d \in DOMAIN s.unit : s.unit[d].name = e.f ->
         CallOwn(s.unit[CHOOSE d \in DOMAIN s.unit : s.unit[d].name = e.f], values, s)
    [] OTHER ->
         [s EXCEPT !.val = Answer(s),
                   !.log = Append(@, <<e.f, IF e.f = "poke" THEN << >> ELSE values>>),
                   !.mem = IF e.f = "poke" THEN WriteMem(@, values[1], "int", Answer(s)) ELSE @]

(* The cases and the default that belong to a switch: not those of a       *)
(* switch nested in it.                                                    *)
RECURSIVE CasesOf(_)
CasesOf(stmt) ==
  CASE stmt.k \in {"case", "default"} -> {stmt} \cup CasesOf(stmt.a)
    [] stmt.k = "compound" -> UNION {CasesOf(stmt.stmts[n]) : n \in DOMAIN stmt.stmts}
    [] stmt.k = "if"       -> CasesOf(stmt.a) \cup CasesOf(stmt.b)
    [] stmt.k \in {"while", "dowhile", "for", "label"} -> CasesOf(stmt.a)
    [] OTHER -> {}

RECURSIVE Exec(_, _), ExecAll(_, _, _), Iterate(_, _, _)
(* One turn of a loop is over: leave it, or step, test and go round again. *)
Tested(s, test)    == IF test.k = "none" THEN [s EXCEPT !.val = 1] ELSE Eval(test, s)
Stepped(s, inc)    == IF inc.k = "none" THEN s ELSE Eval(inc, s)
Turn(c, loop, inc) == IF c.val = 0 THEN c ELSE Iterate(loop, inc, Exec(loop.a, c))
Iterate(loop, inc, s) ==
  CASE s.mode = <<"break">> -> [s EXCEPT !.mode = Run]
    [] s.mode \in {Run, <<"continue">>} -> Turn(Tested(Stepped([s EXCEPT !.mode = Run], inc), loop.c), loop, inc)
    [] OTHER -> s
(* Control that still seeks its label passes a loop by. *)
Around(a, loop, inc) == IF Seeks(a.mode) THEN a ELSE Iterate(loop, inc, a)
ForTurns(c, loop) == IF c.val = 0 THEN c ELSE Around(Exec(loop.a, c), loop, loop.inc)
ForOf(i, loop)    == IF Seeks(i.mode) THEN Around(Exec(loop.a, i), loop, loop.inc) ELSE ForTurns(Tested(i, loop.c), loop)

ExecAll(stmts, n, s) == IF n > Len(stmts) THEN s ELSE ExecAll(stmts, n + 1, Exec(stmts[n], s))

Declare(s, decl) ==
  [s EXCEPT !.names = [n \in DOMAIN @ \cup {decl.v} |-> IF n = decl.v THEN AddressOfSlot(FirstFrame, decl.id) ELSE @[n]]]
DeclareAs(s, decl) == Put(Declare(s, decl), Name(decl.v), AddressOfSlot(FirstFrame, decl.id), s.val)

TakenArm(c, stmt) == Exec(IF c.val # 0 THEN stmt.a ELSE stmt.b, c)
OtherArm(a, stmt) == IF Seeks(a.mode) THEN Exec(stmt.b, a) ELSE a

(* A switch seeks the case of its value, or its default, in its own body. *)
ModeOf(x, own) ==
  CASE \E d \in own : d.k = "case" /\ x \in d.n..d.upper -> <<"case", x>>
    [] \A d \in own : ~(d.k = "case" /\ x \in d.n..d.upper) ->
         IF \E d \in own : d.k = "default" THEN <<"default">> ELSE <<"break">>
LeaveSwitch(a) == IF a.mode = <<"break">> THEN [a EXCEPT !.mode = Run] ELSE a
SwitchTo(c, stmt) ==
  IF Runs(c) THEN LeaveSwitch(Exec(stmt.a, [c EXCEPT !.mode = ModeOf(c.val, CasesOf(stmt.a))])) ELSE c

Exec(stmt, s) ==
  LET running == s.mode = Run
  IN CASE ~running /\ ~Seeks(s.mode) -> s
       [] stmt.k = "none"     -> s
       [] stmt.k = "expr"     -> IF running THEN Eval(stmt.e, s) ELSE s
       [] stmt.k = "decl"     -> IF running /\ stmt.e.k # "none" THEN DeclareAs(Eval(stmt.e, s), stmt) ELSE Declare(s, stmt)
       [] stmt.k = "compound" -> [ExecAll(stmt.stmts, 1, s) EXCEPT !.names = s.names]
       [] stmt.k = "if"       -> IF running THEN TakenArm(Eval(stmt.c, s), stmt) ELSE OtherArm(Exec(stmt.a, s), stmt)
       [] stmt.k = "while"    -> IF running THEN Iterate(stmt, Nothing, s) ELSE Around(Exec(stmt.a, s), stmt, Nothing)
       [] stmt.k = "dowhile"  -> Around(Exec(stmt.a, s), stmt, Nothing)
       [] stmt.k = "for"      -> [ForOf(Exec(stmt.init, s), stmt) EXCEPT !.names = s.names]
       [] stmt.k = "return"   ->
            IF running THEN [(IF stmt.e.k = "none" THEN s ELSE Eval(stmt.e, s)) EXCEPT !.mode = <<"return">>] ELSE s
       [] stmt.k \in {"break", "continue"} -> IF running THEN [s EXCEPT !.mode = <<stmt.k>>] ELSE s
       [] stmt.k = "goto"     -> IF running THEN [s EXCEPT !.mode = <<"goto", stmt.l>>] ELSE s
       [] stmt.k = "switch"   ->
            CASE running -> SwitchTo(Eval(stmt.c, s), stmt)
              [] s.mode[1] \in {"case", "default"} -> s
              [] OTHER -> LeaveSwitch(Exec(stmt.a, s))
       [] stmt.k = "case"     -> Exec(stmt.a, IF s.mode[1] = "case" /\ s.mode[2] \in stmt.n..stmt.upper THEN [s EXCEPT !.mode = Run] ELSE s)
       [] stmt.k = "default"  -> Exec(stmt.a, IF s.mode = <<"default">> THEN [s EXCEPT !.mode = Run] ELSE s)
       [] stmt.k = "label"    -> Exec(stmt.a, IF s.mode = <<"label", stmt.l>> THEN [s EXCEPT !.mode = Run] ELSE s)

(* A whole call: a goto that leaves every statement it is in starts the    *)
(* body again, seeking its label.                                          *)
RECURSIVE ExecBody(_, _)
FollowGoto(t, body) == IF t.mode[1] = "goto" THEN ExecBody(body, [t EXCEPT !.mode = <<"label", t.mode[2]>>]) ELSE t
ExecBody(body, s) == FollowGoto(Exec(body, s), body)

(* The parameters are the first objects of a function. *)
Execute(function, values, s) ==
  LET params == function.params
      at(p)  == AddressOfSlot(FirstFrame, params[p].id)
      fill[p \in 0..Len(params)] ==
        IF p = 0 THEN s.mem ELSE WriteMem(fill[p - 1], at(p), VarType(params[p].v), values[p])
  IN  ExecBody(function.body,
        [s EXCEPT !.names = [v \in {params[p].v : p \in DOMAIN params} |->
                               at(CHOOSE p \in DOMAIN params : params[p].v = v)],
                  !.mem = fill[Len(params)]])

MaxObjects == 12

(* The unit's "main" called with these arguments, on this buffer. *)
Seen(s, wide) ==
  [val |-> IF s.mode = <<"return">> THEN Conv(s.val, WordOrPair(wide)) ELSE 0, log |-> s.log,
   buffer |-> [n \in BufferWords |-> s.mem[n]]]
Meaning(unit, inputs, buffer, oracle) ==
  Seen(Execute(unit[Len(unit)], inputs,
         [mode |-> Run, val |-> 0, log |-> << >>, oracle |-> oracle, names |-> << >>, unit |-> unit,
          mem |-> [n \in 0..(FirstFrame + 2 * MaxObjects) |-> IF n \in BufferWords THEN buffer[n] ELSE 0]]),
       unit[Len(unit)].wide)
=============================================================================
