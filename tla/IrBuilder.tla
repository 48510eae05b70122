----------------------------- MODULE IrBuilder -----------------------------
(***************************************************************************)
(* Lowering a function's syntax tree to IR: IrBuilder of libs/ir.  Each    *)
(* operator takes the state of the builder and gives the state after the   *)
(* visit; the field names are the source's.  Types are `int` (a word) and  *)
(* `long long` (a pair); globals, floats and aggregates are left out, and  *)
(* so are the select idioms (-fno-min-max).                                *)
(***************************************************************************)
EXTENDS CProgram, Ir
LOCAL INSTANCE SequencesExt
LOCAL INSTANCE FiniteSetsExt

CONSTANTS
  LocalSlotReuse,          \* -flocal-slot-reuse: the slots of a closed scope serve the next one
  JumpTables,              \* -fjump-tables: tables and trees besides the chain
  SwitchTableMinCases,     \* kSwitchTableMinCases
  SwitchTableMaxEntries,   \* kSwitchTableMaxEntries
  SwitchTreeMinCases       \* kSwitchTreeMinCases

With(f, x, y) == [z \in DOMAIN f \cup {x} |-> IF z = x THEN y ELSE f[z]]

SizeOf(decl) == SizeOfType(VarType(decl.v))
SlotOf(decl) == [size |-> SizeOf(decl), volatile |-> decl.v \in VolatileNames,
                 prefer |-> decl.v \in RegisterNames, restrict |-> decl.v \in RestrictNames]

(* The builder's state at a function's entry block.  `scopes` is the one    *)
(* map of the names in reach, saved and restored around each scope.        *)
Builder(params) ==
  [blocks       |-> <<<< >>>>,            \* _currentFunction's blocks, by id
   currentBlock |-> 1,
   temps        |-> 0,
   lastValue    |-> NoTemp,
   localSlots   |-> [p \in DOMAIN params |-> SlotOf(params[p])],
   scopes       |-> [v \in {params[p].v : p \in DOMAIN params} |->
                       LET p == CHOOSE p \in DOMAIN params : params[p].v = v
                       IN p],
   scopeSlots   |-> <<<< >>>>,
   freeLocalSlots |-> << >>,
   breakTargets |-> << >>, continueTargets |-> << >>,
   labelBlocks  |-> << >>, caseBlocks |-> << >>, returnsWide |-> FALSE,
   dispatch     |-> << >>, defaultBlock |-> 0]     \* what collectSwitchCases fills

-----------------------------------------------------------------------------
(* Blocks and instructions.                                                *)

CreateBlocks(s, n) == [s EXCEPT !.blocks = @ \o [k \in 1..n |-> << >>]]
CreateBlock(s)     == CreateBlocks(s, 1)
NextBlock(s)       == Len(s.blocks) + 1           \* the first one CreateBlocks makes
InBlock(s, b)      == [s EXCEPT !.currentBlock = b]
Terminated(s)  == IsTerminated(s.blocks[s.currentBlock])

(* Dead code after a break, goto or return opens a block nothing jumps to. *)
ReachableBlock(s)      == IF Terminated(s) THEN InBlock(CreateBlock(s), NextBlock(s)) ELSE s
AppendInstr(s, instr)  == [s EXCEPT !.blocks[s.currentBlock] = Append(@, instr)]
EmitVoid(s, instr)     == AppendInstr(ReachableBlock(s), instr)

NewTemp(s)      == s.temps + 1
ValueIs(s, t)   == [s EXCEPT !.lastValue = t]

(* An instruction that defines a fresh temporary, the value of the visit. *)
NewValue(s)      == [s EXCEPT !.temps = @ + 1, !.lastValue = NewTemp(s)]
Define(s, instr) == NewValue(EmitVoid(s, instr))

JumpTo(s, b)     == EmitVoid(s, Jump(b))
JumpIfOpen(s, b) == IF Terminated(s) THEN s ELSE JumpTo(s, b)

SwitchToBlock(s, b) == InBlock(JumpIfOpen(s, b), b)

EmitConst(s, n, wide) == Define(s, Const(NewTemp(s), n, wide))

(* convertForStore: a pair from a word, a word from a pair, a byte from      *)
(* anything of another type.                                               *)
Truncated(s)     == Define(s, Truncate(NewTemp(s), s.lastValue))
Widened(s, from) == Define(s, [Widen(NewTemp(s), s.lastValue) EXCEPT !.name = IF from = "uint" THEN from ELSE ""])
Narrowed(s, to)  == Define(s, Narrow(NewTemp(s), s.lastValue, IF to = "char" THEN SignedByte ELSE PlainByte))

Convert(s, from, to) ==
  CASE to = "wide" /\ from # "wide"                -> Widened(s, from)
    [] to \in ByteTypes /\ from = "wide"           -> Narrowed(Truncated(s), to)
    [] to \in ByteTypes /\ from \notin {to, "wide"} -> Narrowed(s, to)
    [] to \notin ByteTypes \cup {"wide"} /\ from = "wide" -> Truncated(s)
    [] OTHER -> s

ToWord(s, from) == IF from = "wide" THEN Truncated(s) ELSE s

-----------------------------------------------------------------------------
(* Scopes and slots.                                                       *)

PushScope(s) == [s EXCEPT !.scopeSlots = Append(@, << >>)]

(* Mutant of PopScope: the names of the scope stay in reach. *)
PopScopeKeepsNames(s, before) ==
  [s EXCEPT !.freeLocalSlots = @ \o Last(s.scopeSlots), !.scopeSlots = Front(s.scopeSlots)]

(* The names of `before` are back, and what the scope declared is free. *)
PopScope(s, before) ==
  [s EXCEPT !.scopes = before.scopes, !.freeLocalSlots = @ \o Last(s.scopeSlots),
            !.scopeSlots = Front(s.scopeSlots)]

(* newLocalSlotFor and declareSymbol: the slot freed last, grown to the new *)
(* size, restrict as the new local is and otherwise as it was declared the *)
(* first time, or a new slot.                                              *)
NewLocalSlotFor(s, decl) ==
  LET reuse == LocalSlotReuse /\ s.freeLocalSlots # << >>
      slot  == IF reuse THEN Last(s.freeLocalSlots) ELSE Len(s.localSlots) + 1
      owner == Len(s.scopeSlots)
  IN  [s EXCEPT
        !.localSlots     = IF reuse THEN [@ EXCEPT ![slot].size = Max({@, SizeOf(decl)}),
                                                   ![slot].restrict = decl.v \in RestrictNames]
                                    ELSE Append(@, SlotOf(decl)),
        !.freeLocalSlots = IF reuse THEN Front(s.freeLocalSlots) ELSE @,
        !.scopeSlots     = [@ EXCEPT ![owner] = Append(@, slot)],
        !.scopes         = With(@, decl.v, slot)]

(* loadOfType and emitStore move what the type holds, and mark the accesses *)
(* to a volatile object.                                                   *)
SizeOfAccess(type) == CASE type = "char" -> SignedByte [] type = "uchar" -> PlainByte [] OTHER -> WordSized
Access(t, instr) == IF IsVolatile(t) THEN Volatile(instr) ELSE instr
EmitLoad(s, t, addr) ==
  Define(s, Access(t, Sized(Load(NewTemp(s), addr, IsWide(t)), SizeOfAccess(TypeOf(t)))))
EmitStore(s, t, addr, value) ==
  EmitVoid(s, Access(t, Sized(Store(addr, value, IsWide(t)), IF TypeOf(t) \in ByteTypes THEN PlainByte ELSE WordSized)))

LoadFrom(s, t)         == EmitLoad(s, t, s.lastValue)
StoreLast(s, t, addr)  == EmitStore(s, t, addr, s.lastValue)

EmitBinOp(s, o, a, b, wide)  == Define(s, BinOp(NewTemp(s), o, a, b, wide))
WithLast(s, o, a, wide)      == EmitBinOp(s, o, a, s.lastValue, wide)      \* a o the last value
LastWith(s, o, b, wide)      == EmitBinOp(s, o, s.lastValue, b, wide)

-----------------------------------------------------------------------------
(* Expressions.                                                            *)

RECURSIVE LowerExpr(_, _), LowerCondition(_, _, _, _), LowerArgs(_, _, _, _)

(* The instruction of a C operator depends on whether it is done unsigned. *)
OpNamed(o, unsigned) ==
  CASE o = "shr" /\ ~unsigned -> "sar"
    [] o = "div" /\ unsigned  -> "udiv"
    [] o = "mod" /\ unsigned  -> "umod"
    [] OTHER -> o
UnsignedNamed == [lt |-> "ult", le |-> "ule", gt |-> "ugt", ge |-> "uge", eq |-> "eq", ne |-> "ne"]
UnsignedTypes == PointerTypes \cup {"uint", "uchar", "bool"}      \* isSigned() is false

(* The last value, scaled by the size of what a pointer points to. *)
TimesConstant(s, n)  == WithLast(EmitConst(s, n, FALSE), "mul", s.lastValue, FALSE)
ByConstant(s, n)     == WithLast(EmitConst(s, n, FALSE), "div", s.lastValue, FALSE)
Scaled(s, pointer)   == IF SizeOfType(Elem(pointer)) = 1 THEN s ELSE TimesConstant(s, SizeOfType(Elem(pointer)))
Unscaled(s, pointer) == IF SizeOfType(Elem(pointer)) = 1 THEN s ELSE ByConstant(s, SizeOfType(Elem(pointer)))

(* x o the last value, both already of the operation's width. *)
Arithmetic(s, o, type, ta, tb, x) ==
  LET pa == ta \in PointerTypes /\ type # "wide"
      pb == tb \in PointerTypes /\ type # "wide"
  IN  CASE pa /\ ~pb /\ o \in {"add", "sub"} -> WithLast(Scaled(s, ta), o, x, FALSE)
        [] pb /\ ~pa /\ o = "add" -> LastWith(Scaled(ValueIs(s, x), tb), o, s.lastValue, FALSE)
        [] pa /\ pb /\ o = "sub"  -> Unscaled(WithLast(s, o, x, FALSE), ta)
        [] OTHER -> WithLast(s, OpNamed(o, type \in UnsignedTypes), x, type = "wide")

(* lowerArithmetic: a o b, of types ta and tb, as a value of `type`; the    *)
(* left operand is converted first, and a shift count is always a word.    *)
RightOperand(left, o, type, ta, tb, b) ==
  Arithmetic(Convert(ValueIs(left, b), tb, IF type = "wide" /\ o \notin Shifts THEN type
                                          ELSE IF tb = "wide" THEN "int" ELSE tb),
             o, type, ta, tb, left.lastValue)
LowerArithmetic(s, o, type, ta, tb, a, b) ==
  RightOperand(Convert(ValueIs(s, a), ta, IF type = "wide" THEN type ELSE IF ta = "wide" THEN "int" ELSE ta),
               o, type, ta, tb, b)

(* visit(BinaryExpr&): a comparison is unsigned when either side is, and of *)
(* pairs when either side is one.                                          *)
Compare(s, o, ta, tb, x) ==
  Define(s, Cmp(NewTemp(s), IF "wide" \notin {ta, tb} /\ {ta, tb} \cap UnsignedTypes # {} THEN UnsignedNamed[o] ELSE o,
                x, s.lastValue, "wide" \in {ta, tb}))
CompareWith(left, o, ta, tb, b) ==
  Compare(Convert(ValueIs(left, b), tb, IF ta = "wide" THEN ta ELSE tb), o, ta, tb, left.lastValue)

BinaryOf(s, e, a) ==
  IF e.o \in Comparisons
  THEN CompareWith(Convert(ValueIs(s, a), TypeOf(e.a), IF IsWide(e.b) THEN "wide" ELSE TypeOf(e.a)),
                   e.o, TypeOf(e.a), TypeOf(e.b), s.lastValue)
  ELSE LowerArithmetic(s, e.o, TypeOf(e), TypeOf(e.a), TypeOf(e.b), a, s.lastValue)
BinaryFrom(a, e) == BinaryOf(LowerExpr(a, e.b), e, a.lastValue)

(* lowerAddress: where the object of t is. *)
IndexBy(i, base, pointer) == WithLast(Scaled(i, pointer), "add", base, FALSE)
IndexFrom(base, t) == IndexBy(ToWord(LowerExpr(base, t.b), TypeOf(t.b)), base.lastValue, TypeOf(t.a))
LowerAddress(s, t) ==
  CASE t.k = "name"  -> Define(s, FrameAddr(NewTemp(s), s.scopes[t.v]))
    [] t.k = "deref" -> LowerExpr(s, t.a)
    [] t.k = "index" -> IndexFrom(LowerExpr(s, t.a), t)

(* visit(AssignExpr&), `=`: the value first, the address right before the   *)
(* store; the value of the visit is what was stored.                       *)
StoreAt(s, t, value) == ValueIs(EmitStore(s, t, s.lastValue, value), value)
StoreTo(s, t) == StoreAt(LowerAddress(s, t), t, s.lastValue)

(* A boolean as a value: 1 in one block, 0 in another, one temporary that  *)
(* both define.                                                            *)
ConstInto(s, result, n, merge) == JumpTo(EmitVoid(s, Const(result, n, FALSE)), merge)
BooleanOf(c, result, first) ==
  ValueIs(InBlock(ConstInto(InBlock(ConstInto(InBlock([c EXCEPT !.temps = result], first), result, 1, first + 2),
                                    first + 1), result, 0, first + 2),
                  first + 2), result)
BooleanIn(c, first) == BooleanOf(c, NewTemp(c), first)
MaterializeBoolean(s, e) ==
  BooleanIn(LowerCondition(CreateBlocks(s, 3), e, NextBlock(s), NextBlock(s) + 1), NextBlock(s))

(* Mutant of ArmInto: the arm leaves its value where it is. *)
ArmLeft(a, result, wide, merge) == JumpIfOpen(a, merge)

(* `c ? a : b`: one temporary both arms copy into. *)
ArmInto(a, result, wide, merge) == JumpIfOpen(EmitVoid(a, Copy(result, a.lastValue, wide)), merge)

LowerArm(s, arm, e, result, merge) ==
  ArmInto(Convert(LowerExpr(s, arm), TypeOf(arm), TypeOf(e)), result, IsWide(e), merge)
TernaryOf(c, e, result, first) ==
  ValueIs(InBlock(LowerArm(InBlock(LowerArm(InBlock([c EXCEPT !.temps = result], first), e.a, e, result, first + 2),
                                   first + 1), e.b, e, result, first + 2),
                  first + 2), result)
TernaryIn(c, e, first) == TernaryOf(c, e, NewTemp(c), first)
LowerTernary(s, e) ==
  TernaryIn(LowerCondition(CreateBlocks(s, 3), e.c, NextBlock(s), NextBlock(s) + 1), e, NextBlock(s))

(* x op= y reads x before y is computed. *)
UpdateAs(s, e, addr, old, type, operand, promoted) ==
  StoreLast(Convert(LowerArithmetic(s, e.o, promoted, type, operand, old, s.lastValue), promoted, type), e.t, addr)
UpdateWith(s, e, addr, old) ==
  UpdateAs(s, e, addr, old, TypeOf(e.t), TypeOf(e.e), Common(TypeOf(e.t), TypeOf(e.e)))
UpdateFrom(old, e, addr) == UpdateWith(LowerExpr(old, e.e), e, addr, old.lastValue)
UpdateAt(a, e)           == UpdateFrom(LoadFrom(a, e.t), e, a.lastValue)
LowerUpdate(s, e)        == UpdateAt(LowerAddress(s, e.t), e)

(* ++ and -- read the object once; a pointer steps by what it points to. *)
StepBy(s, o, old, type) ==
  Convert(WithLast(EmitConst(s, IF type \in PointerTypes THEN SizeOfType(Elem(type)) ELSE 1, type = "wide"), o, old, type = "wide"),
          WordOrPair(type = "wide"), type)
StepValue(s, e, old) == IF e.k = "poststep" THEN ValueIs(s, old) ELSE s
StepFrom(old, e, addr) ==
  StepValue(StoreLast(StepBy(old, e.o, old.lastValue, TypeOf(e.t)), e.t, addr), e, old.lastValue)
StepAt(a, e)    == StepFrom(LoadFrom(a, e.t), e, a.lastValue)
LowerStep(s, e) == StepAt(LowerAddress(s, e.t), e)

(* Mutant of NextArg: each Param is emitted as soon as its value is there. *)
NextArgAsItComes(a, e, values, n) == LowerArgs(EmitVoid(a, Param(a.lastValue, e.wides[n])), e, values, n + 1)

NextArg(a, e, values, n) == LowerArgs(a, e, Append(values, a.lastValue), n + 1)

(* Every argument is computed, then the Params follow each other right     *)
(* before the Call.                                                        *)
EmitParams(s, e, values) ==
  FoldLeft(LAMBDA t, n : EmitVoid(t, Param(values[n], e.wides[n])), s, [n \in DOMAIN values |-> n])
LowerArgs(s, e, values, n) ==
  IF n <= Len(e.args)
  THEN NextArg(Convert(LowerExpr(s, e.args[n]), TypeOf(e.args[n]), WordOrPair(e.wides[n])), e, values, n)
  ELSE Define(EmitParams(s, e, values), CallOf(NewTemp(s), e.f, Len(e.args), e.wide))

(* A block is always open; asking first makes TLC compute s before it goes on. *)
NoBlockOpen(s) == s.currentBlock \notin DOMAIN s.blocks

UnaryOf(s, o) == Define(s, UnOp(NewTemp(s), o, s.lastValue))

LowerExpr(s, e) ==
  CASE NoBlockOpen(s) -> s
    [] e.k = "int"    -> EmitConst(s, e.n, FALSE)
    [] e.k \in {"name", "deref", "index"} -> LoadFrom(LowerAddress(s, e), e)
    [] e.k = "addressof" -> LowerAddress(s, Name(e.v))
    [] e.k \in {"and", "or", "lnot"} -> MaterializeBoolean(s, e)
    [] e.k = "unary"   -> UnaryOf(LowerExpr(s, e.a), e.o)
    [] e.k = "cast"    -> Convert(LowerExpr(s, e.a), TypeOf(e.a), e.type)
    [] e.k = "binary"  -> BinaryFrom(LowerExpr(s, e.a), e)
    [] e.k = "comma"   -> LowerExpr(LowerExpr(s, e.a), e.b)
    [] e.k = "ternary" -> LowerTernary(s, e)
    [] e.k = "assign"  -> StoreTo(Convert(LowerExpr(s, e.e), TypeOf(e.e), TypeOf(e.t)), e.t)
    [] e.k = "opassign" -> LowerUpdate(s, e)
    [] e.k \in {"prestep", "poststep"} -> LowerStep(s, e)
    [] e.k = "call"    -> LowerArgs(s, e, << >>, 1)

(* Jumping code: && and || open the block of their right side before the   *)
(* left side is lowered; ! swaps the targets.  A pair is compared with zero *)
(* as a pair, and the outcome as a word.                                   *)
JumpIfNot(z, value, trueBlock, falseBlock) == EmitVoid(z, CondJump("ne", value, z.lastValue, trueBlock, falseBlock))
NotZero(z, value) == Define(z, Cmp(NewTemp(z), "ne", value, z.lastValue, TRUE))
TestWord(v, trueBlock, falseBlock) == JumpIfNot(EmitConst(v, 0, FALSE), v.lastValue, trueBlock, falseBlock)
TestLast(v, wide, trueBlock, falseBlock) ==
  TestWord(IF wide THEN NotZero(EmitConst(v, 0, TRUE), v.lastValue) ELSE v, trueBlock, falseBlock)

LowerCondition(s, e, trueBlock, falseBlock) ==
  CASE NoBlockOpen(s) -> s
    [] e.k = "and" -> LowerCondition(InBlock(LowerCondition(CreateBlock(s), e.a, NextBlock(s), falseBlock), NextBlock(s)),
                                     e.b, trueBlock, falseBlock)
    [] e.k = "or"  -> LowerCondition(InBlock(LowerCondition(CreateBlock(s), e.a, trueBlock, NextBlock(s)), NextBlock(s)),
                                     e.b, trueBlock, falseBlock)
    [] e.k = "lnot" -> LowerCondition(s, e.a, falseBlock, trueBlock)
    [] OTHER -> TestLast(LowerExpr(s, e), IsWide(e), trueBlock, falseBlock)

-----------------------------------------------------------------------------
(* Statements.                                                             *)

(* collectLabelBlocks: a block for every label of the body, found first. *)
RECURSIVE CollectLabels(_, _)
CollectLabels(s, stmt) ==
  CASE stmt.k = "label" ->
         CollectLabels([CreateBlock(s) EXCEPT !.labelBlocks = With(@, stmt.l, NextBlock(s))], stmt.a)
    [] stmt.k = "compound" -> FoldLeft(CollectLabels, s, stmt.stmts)
    [] stmt.k = "if" -> CollectLabels(CollectLabels(s, stmt.a), stmt.b)
    [] stmt.k \in {"while", "dowhile", "for", "switch", "case", "default"} -> CollectLabels(s, stmt.a)
    [] OTHER -> s

(* collectSwitchCases: a block for every case and default of this switch,  *)
(* and what its dispatch compares with, in source order.                   *)
RECURSIVE CollectCases(_, _)
CollectCases(s, stmt) ==
  LET b == [CreateBlock(s) EXCEPT !.caseBlocks = With(@, stmt.id, NextBlock(s))] IN
  CASE stmt.k = "case" ->
         CollectCases([b EXCEPT !.dispatch = @ \o [n \in 1..(stmt.upper - stmt.n + 1) |->
                                                    [value |-> stmt.n + n - 1, block |-> NextBlock(s)]]], stmt.a)
    [] stmt.k = "default" -> CollectCases([b EXCEPT !.defaultBlock = NextBlock(s)], stmt.a)
    [] stmt.k = "compound" -> FoldLeft(CollectCases, s, stmt.stmts)
    [] stmt.k = "if" -> CollectCases(CollectCases(s, stmt.a), stmt.b)
    [] stmt.k \in {"while", "dowhile", "for", "label"} -> CollectCases(s, stmt.a)
    [] OTHER -> s

(* One comparison per case, in source order, each in the block the one     *)
(* before falls into; 64-bit values are compared as pairs.                 *)
RECURSIVE EmitSwitchChain(_, _, _, _, _)
ChainLink(c, value, case, wide, next) ==
  IF wide THEN TestWord(Define(c, Cmp(NewTemp(c), "eq", value, c.lastValue, TRUE)), case.block, next)
  ELSE EmitVoid(c, CondJump("eq", value, c.lastValue, case.block, next))
EmitSwitchChain(s, value, cases, fallback, wide) ==
  IF cases = << >> THEN JumpTo(s, fallback)
  ELSE EmitSwitchChain(
         InBlock(ChainLink(EmitConst(CreateBlock(s), cases[1].value, wide), value, cases[1], wide, NextBlock(s)), NextBlock(s)),
         value, Tail(cases), fallback, wide)

(* A balanced tree over the sorted cases: `value < pivot` goes to the lower *)
(* half, the rest, the pivot included, to the upper one.                    *)
PivotOf(half) == half + 1

CompareWithCase(s, value, relation, yes, no) == EmitVoid(s, CondJump(relation, value, s.lastValue, yes, no))

RECURSIVE EmitSwitchTree(_, _, _, _)
EmitSwitchTree(s, value, cases, fallback) ==
  LET half == Len(cases) \div 2 IN
  CASE Len(cases) = 0 -> JumpTo(s, fallback)
    [] Len(cases) = 1 -> CompareWithCase(EmitConst(s, cases[1].value, FALSE), value, "eq", cases[1].block, fallback)
    [] OTHER ->
         EmitSwitchTree(
           InBlock(EmitSwitchTree(
                     InBlock(CompareWithCase(EmitConst(CreateBlocks(s, 2), cases[PivotOf(half)].value, FALSE),
                                             value, "lt", NextBlock(s), NextBlock(s) + 1), NextBlock(s)),
                     value, SubSeq(cases, 1, half), fallback), NextBlock(s) + 1),
           value, SubSeq(cases, half + 1, Len(cases)), fallback)

(* emitSwitchDispatch: a table when the cases are dense enough, a tree when *)
(* they are many, the chain otherwise and for 64-bit values.                *)
EmitSwitchDispatch(s, value, cases, fallback, wide) ==
  LET values  == {cases[n].value : n \in DOMAIN cases}
      low     == Min(values)
      span    == Max(values) - low + 1
      targets == [n \in 1..span |-> IF low + n - 1 \in values
                    THEN cases[CHOOSE c \in DOMAIN cases : cases[c].value = low + n - 1].block ELSE fallback]
      smart   == JumpTables /\ ~wide /\ Len(cases) >= SwitchTableMinCases
  IN  CASE smart /\ span <= SwitchTableMaxEntries /\ 2 * Len(cases) >= span ->
             EmitVoid(s, TableJump(value, targets, low, fallback))
        [] smart /\ ~(span <= SwitchTableMaxEntries /\ 2 * Len(cases) >= span) /\ Len(cases) >= SwitchTreeMinCases ->
             EmitSwitchTree(s, value, SortSeq(cases, LAMBDA a, b : a.value < b.value), fallback)
        [] OTHER -> EmitSwitchChain(s, value, cases, fallback, wide)

-----------------------------------------------------------------------------
(* A loop body has its own break and continue targets; a switch only a     *)
(* break target, so that `continue` reaches the loop around it.            *)
PushBreak(s, b)    == [s EXCEPT !.breakTargets = Append(@, b)]
PushContinue(s, b) == [s EXCEPT !.continueTargets = Append(@, b)]
PopBreak(s)        == [s EXCEPT !.breakTargets = Front(s.breakTargets)]
PopContinue(s)     == [s EXCEPT !.continueTargets = Front(s.continueTargets)]

RECURSIVE LowerStmt(_, _)

InitialValue(s, decl) == Convert(LowerExpr(s, decl.e), TypeOf(decl.e), VarType(decl.v))
InitializeAt(a, decl) == StoreLast(InitialValue(a, decl), Name(decl.v), a.lastValue)
Initialize(s, decl) ==
  CASE decl.e.k = "none" -> s
    [] decl.e.k # "none" /\ VarType(decl.v) = "wide" ->    \* lowerInitializerInto takes the address first
         InitializeAt(LowerAddress(s, Name(decl.v)), decl)
    [] OTHER -> StoreTo(InitialValue(s, decl), Name(decl.v))
LowerDecl(s, decl) == Initialize(NewLocalSlotFor(s, decl), decl)

LowerElse(s, stmt, other, merge) ==
  IF other = merge THEN s ELSE JumpIfOpen(LowerStmt(InBlock(s, other), stmt), merge)
LowerThen(s, stmt, first, merge) ==
  JumpIfOpen(LowerStmt(InBlock(LowerCondition(CreateBlocks(s, merge - Len(s.blocks)), stmt.c, first, first + 1), first),
                       stmt.a), merge)
IfIn(s, stmt, first, merge) == InBlock(LowerElse(LowerThen(s, stmt, first, merge), stmt.b, first + 1, merge), merge)
LowerIf(s, stmt) == IfIn(s, stmt, NextBlock(s), IF stmt.b.k = "none" THEN NextBlock(s) + 1 ELSE NextBlock(s) + 2)

(* The body of a loop, and the jump to where `continue` goes. *)
LoopBody(s, stmt, exit, onContinue) == PopContinue(PopBreak(LowerStmt(PushContinue(PushBreak(s, exit), onContinue), stmt)))

WhileIn(s, stmt, header) ==
  InBlock(JumpIfOpen(
            LoopBody(InBlock(LowerCondition(SwitchToBlock(CreateBlocks(s, 3), header), stmt.c, header + 1, header + 2),
                             header + 1), stmt.a, header + 2, header), header), header + 2)
LowerWhile(s, stmt) == WhileIn(s, stmt, NextBlock(s))

(* Mutant of DoContinues: `continue` starts the body again. *)
DoRepeats(body) == body

(* Where `continue` goes in a do loop: to the test, its second block. *)
DoContinues(body) == body + 1

DoWhileIn(s, stmt, body) ==
  InBlock(LowerCondition(
            InBlock(JumpIfOpen(LoopBody(SwitchToBlock(CreateBlocks(s, 3), body), stmt.a, body + 2, DoContinues(body)),
                               body + 1), body + 1), stmt.c, body, body + 2), body + 2)
LowerDoWhile(s, stmt) == DoWhileIn(s, stmt, NextBlock(s))

(* Mutant of ForContinues: `continue` goes to the test, past the increment. *)
ForTests(header) == header

(* Where `continue` goes in a for loop: to the increment, its third block. *)
ForContinues(header) == header + 2

(* The init clause has the loop's own scope; `continue` runs the increment. *)
ForTest(s, test, header) ==
  IF test.k = "none" THEN JumpTo(s, header + 1) ELSE LowerCondition(s, test, header + 1, header + 3)
ForIncrement(s, inc) == IF inc.k = "none" THEN s ELSE LowerExpr(s, inc)
ForBody(s, stmt, header) ==
  JumpIfOpen(LoopBody(InBlock(ForTest(SwitchToBlock(CreateBlocks(s, 4), header), stmt.c, header), header + 1),
                      stmt.a, header + 3, ForContinues(header)), header + 2)
ForIn(s, stmt, header) ==
  InBlock(JumpTo(ForIncrement(InBlock(ForBody(s, stmt, header), header + 2), stmt.inc), header), header + 3)
ForFrom(s, stmt) == ForIn(s, stmt, NextBlock(s))
LowerFor(s, stmt) == PopScope(ForFrom(LowerStmt(PushScope(s), stmt.init), stmt), s)

Dispatched(c, stmt, value, exit) ==
  EmitSwitchDispatch(CreateBlock(c), value, c.dispatch, IF c.defaultBlock = 0 THEN exit ELSE c.defaultBlock, IsWide(stmt.c))
SwitchIn(c, stmt, value, exit) ==
  SwitchToBlock(PopBreak(LowerStmt(PushBreak(Dispatched(c, stmt, value, exit), exit), stmt.a)), exit)
SwitchFrom(c, stmt, value) == SwitchIn(c, stmt, value, NextBlock(c))
SwitchOn(v, stmt) == SwitchFrom(CollectCases([v EXCEPT !.dispatch = << >>, !.defaultBlock = 0], stmt.a), stmt, v.lastValue)
LowerSwitch(s, stmt) == SwitchOn(LowerExpr(s, stmt.c), stmt)

ReturnLast(s) == EmitVoid(s, Return(s.lastValue, s.returnsWide))
LowerReturn(s, stmt) ==
  IF stmt.e.k = "none" THEN EmitVoid(s, Return(NoTemp, FALSE))
  ELSE ReturnLast(Convert(LowerExpr(s, stmt.e), TypeOf(stmt.e), WordOrPair(s.returnsWide)))

LowerStmt(s, stmt) ==
  CASE NoBlockOpen(s)      -> s
    [] stmt.k = "none"     -> s
    [] stmt.k = "expr"     -> LowerExpr(s, stmt.e)
    [] stmt.k = "decl"     -> LowerDecl(s, stmt)
    [] stmt.k = "compound" -> PopScope(FoldLeft(LowerStmt, PushScope(s), stmt.stmts), s)
    [] stmt.k = "if"       -> LowerIf(s, stmt)
    [] stmt.k = "while"    -> LowerWhile(s, stmt)
    [] stmt.k = "dowhile"  -> LowerDoWhile(s, stmt)
    [] stmt.k = "for"      -> LowerFor(s, stmt)
    [] stmt.k = "switch"   -> LowerSwitch(s, stmt)
    [] stmt.k = "return"   -> LowerReturn(s, stmt)
    [] stmt.k = "break"    -> JumpTo(s, Last(s.breakTargets))
    [] stmt.k = "continue" -> JumpTo(s, Last(s.continueTargets))
    [] stmt.k = "goto"     -> JumpTo(s, s.labelBlocks[stmt.l])
    [] stmt.k \in {"case", "default"} -> LowerStmt(SwitchToBlock(s, s.caseBlocks[stmt.id]), stmt.a)
    [] stmt.k = "label"    -> LowerStmt(SwitchToBlock(s, s.labelBlocks[stmt.l]), stmt.a)

(* visit(FunctionDecl&): a body that falls off its end returns there. *)
EndBody(s) == IF Terminated(s) THEN s ELSE EmitVoid(s, Return(NoTemp, FALSE))
FunctionOf(s, function) ==
  [blocks |-> s.blocks, order |-> [b \in DOMAIN s.blocks |-> b],
   params |-> Len(function.params), locals |-> s.localSlots, temps |-> s.temps,
   name |-> function.name, static |-> function.static]
Labelled(function) == CollectLabels([Builder(function.params) EXCEPT !.returnsWide = function.wide], function.body)
Lower(function) == FunctionOf(EndBody(FoldLeft(LowerStmt, Labelled(function), function.body.stmts)), function)

(* build(): every function of the unit. *)
LowerUnit(unit) ==
  [f \in {unit[n].name : n \in DOMAIN unit} |-> Lower(unit[CHOOSE n \in DOMAIN unit : unit[n].name = f])]
=============================================================================
