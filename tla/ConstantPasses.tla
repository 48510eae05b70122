--------------------------- MODULE ConstantPasses ---------------------------
(***************************************************************************)
(* The optimizer's passes on values: constant folding, conditional          *)
(* constant propagation, strength reduction and common subexpressions.      *)
(* The constants of the IR are 64-bit and are not cut to the word when they *)
(* are folded; floats are left out.                                         *)
(***************************************************************************)
EXTENDS IrPass

(* foldBinOp: the result as a set, empty when it is left to the machine. *)
FoldBinOp(o, a, b) ==
  CASE o \in {"div", "mod", "udiv", "umod"} /\ b = 0 -> {}
    [] o \in {"udiv", "umod"} -> {As(Calculate(IF o = "udiv" THEN "div" ELSE "mod", U(a), U(b)), FALSE)}
    [] o \in {"div", "mod"} /\ a = -(WordBase \div 2) /\ b = -1 -> {}
    [] o = "shr" -> {As(Calculate("shr", U(a), b), FALSE)}
    [] o = "sar" -> {Calculate("shr", As(a, FALSE), b)}
    [] OTHER     -> {As(Calculate(o, a, b), FALSE)}

(* foldUnOp. *)
FoldUnOp(instr, a) ==
  CASE instr.name = "neg"    -> As(-a, FALSE)
    [] instr.name = "not"    -> As(-a - 1, FALSE)
    [] instr.name = "lnot"   -> Truth(a = 0)
    [] instr.name = "tobool" -> Truth(a # 0)
    [] instr.name = "narrow" -> Conv(a, IF instr.num = SignedByte THEN "char" ELSE "uchar")

Signed == [ult |-> "lt", ule |-> "le", ugt |-> "gt", uge |-> "ge"]
SignedName(o) == IF o \in DOMAIN Signed THEN Signed[o] ELSE o

(* evaluatePredicate and selfComparisonTruth. *)
Holds(o, a, b) ==
  IF o \in DOMAIN Signed THEN Calculate(Signed[o], U(a), U(b)) = 1
  ELSE Calculate(o, As(a, FALSE), As(b, FALSE)) = 1
HoldsOfItself(o) == SignedName(o) \in {"eq", "le", "ge"}

(* simplifyBinOp: the operand a BinOp comes down to, as an instruction; the *)
(* BinOp itself when it comes down to nothing.                              *)
Simplified(instr, lhs, rhs) ==
  LET o    == instr.name
      left == Copy(instr.res, instr.use[1], FALSE)
  IN  CASE {0} = rhs /\ o \in {"add", "sub", "or", "xor", "shl", "shr", "sar"} -> left
        [] {1} = rhs /\ o \in {"mul", "div", "udiv"} -> left
        [] ({0} = lhs /\ o \in {"add", "or", "xor"}) \/ ({1} = lhs /\ o = "mul") -> Copy(instr.res, instr.use[2], FALSE)
        [] {0} \in {lhs, rhs} /\ o \in {"mul", "and"} -> Const(instr.res, 0, FALSE)
        [] OTHER -> instr

(* foldFunction: what an instruction becomes when its operands are known. *)
Folded(instr, constants, options) ==
  LET lhs == constants[instr.use[1]]
      rhs == constants[instr.use[2]]
      a   == Number(constants, instr.use[1])
      b   == Number(constants, instr.use[2])
      folding == "constantFolding" \in options
      algebra == "algebraicSimplification" \in options
      known   == lhs # {} /\ rhs # {}
      target  == IF Holds(instr.name, a, b) THEN instr.to[1] ELSE instr.to[2]
  IN  CASE IsBinOp(instr) /\ folding /\ known /\ FoldBinOp(instr.name, a, b) # {} ->
             Const(instr.res, CHOOSE n \in FoldBinOp(instr.name, a, b) : TRUE, FALSE)
        [] IsBinOp(instr) /\ algebra -> Simplified(instr, lhs, rhs)
        [] instr.op = "unop" /\ folding /\ lhs # {} -> Const(instr.res, FoldUnOp(instr, a), FALSE)
        [] instr.op = "widen" /\ folding /\ lhs # {} ->
             Const(instr.res, IF instr.name = "uint" THEN U(a) ELSE As(a, FALSE), TRUE)
        [] IsCmp(instr) /\ algebra /\ instr.use[1] = instr.use[2] ->
             Const(instr.res, Truth(HoldsOfItself(instr.name)), FALSE)
        [] IsCmp(instr) /\ folding /\ known -> Const(instr.res, Truth(Holds(instr.name, a, b)), FALSE)
        [] instr.op = "condjump" /\ "branchSimplification" \in options /\ instr.to[1] = instr.to[2] -> Jump(instr.to[1])
        [] instr.op = "condjump" /\ "branchSimplification" \in options /\ known -> Jump(target)
        [] OTHER -> instr

FoldStep(s, new, instr) ==
  IF IsConst(new) /\ new # instr THEN [Emit(s, new) EXCEPT !.known[new.res] = {new.num}] ELSE Emit(s, new)
FoldFunction(f, options) ==
  Rewriting(f, ConstantTemps(f), SameFacts, LAMBDA s, instr : FoldStep(s, Folded(instr, s.known, options), instr))

-----------------------------------------------------------------------------
(* propagateConditionalConstants.  What is known of a temporary is a set:   *)
(* empty while undefined, its value when constant, Overdefined when it may  *)
(* be anything.                                                             *)
Overdefined == {0, 1}
Join(x, y)  == IF Overdefined \in {x, y} \/ (x # {} /\ y # {} /\ x # y) THEN Overdefined ELSE x \cup y

OfBoth(x, y, op(_, _)) ==
  CASE Overdefined \in {x, y} -> Overdefined
    [] {} \in {x, y} -> {}
    [] OTHER -> LET r == op(CHOOSE n \in x : TRUE, CHOOSE n \in y : TRUE) IN IF r = {} THEN Overdefined ELSE r

LatticeOf(instr, lattice) ==
  CASE IsConst(instr) -> {instr.num}
    [] IsBinOp(instr) -> OfBoth(lattice[instr.use[1]], lattice[instr.use[2]], LAMBDA a, b : FoldBinOp(instr.name, a, b))
    [] instr.op = "unop" -> OfBoth(lattice[instr.use[1]], {0}, LAMBDA a, b : {FoldUnOp(instr, a)})
    [] IsCmp(instr) ->
         IF instr.use[1] = instr.use[2] THEN {Truth(HoldsOfItself(instr.name))}
         ELSE OfBoth(lattice[instr.use[1]], lattice[instr.use[2]], LAMBDA a, b : {Truth(Holds(instr.name, a, b))})
    [] IsCopy(instr)  -> lattice[instr.use[1]]
    [] OTHER -> Overdefined

(* resolveCondition, as a set: what a conditional jump does when that is    *)
(* known.                                                                   *)
Resolved(jump, lattice) ==
  LET a == lattice[jump.use[1]]
      b == lattice[jump.use[2]]
  IN  IF jump.use[1] = jump.use[2] THEN {HoldsOfItself(jump.name)}
      ELSE IF Overdefined \in {a, b} \/ {} \in {a, b} THEN {}
      ELSE {Holds(jump.name, CHOOSE n \in a : TRUE, CHOOSE n \in b : TRUE)}

TableEntry(jump, n) ==
  LET k == U(n - jump.num) + 1 IN IF k < Len(jump.to) THEN jump.to[k] ELSE jump.to[Len(jump.to)]
Arm(jump, taken) == IF taken THEN jump.to[1] ELSE jump.to[2]

(* The blocks that block b, executable, makes executable. *)
Reaches(f, b, lattice) ==
  LET last == f.blocks[b][Len(f.blocks[b])]
      x    == lattice[last.use[1]]
  IN  CASE ~IsTerminated(f.blocks[b]) -> SuccessorsOf(f, b)
        [] last.op = "condjump" ->
             LET way == Resolved(last, lattice)
             IN IF last.to[1] = last.to[2] THEN {last.to[1]}
                ELSE IF way # {} THEN {Arm(last, taken) : taken \in way}
                ELSE IF Overdefined \in {x, lattice[last.use[2]]} THEN {last.to[1], last.to[2]}
                ELSE {}
        [] last.op = "tablejump" ->
             CASE x = {} -> {}
               [] x = Overdefined -> SuccessorsOf(f, b)
               [] OTHER -> {TableEntry(last, n) : n \in x}
        [] OTHER -> SuccessorsOf(f, b)

(* The worklist only fixes the order in which the facts are found. *)
Learnt(l, instr) == IF instr.res = NoTemp THEN l ELSE [l EXCEPT ![instr.res] = Join(@, LatticeOf(instr, l))]
LearntFrom(f, executable, lattice) ==
  Scan(LAMBDA l, b : IF b \in executable THEN Scan(Learnt, l, f.blocks[b]) ELSE l, lattice, f.order)
RECURSIVE Propagate(_, _, _), PropagateOn(_, _, _, _)
PropagateOn(f, executable, lattice, now) ==
  LET reach == executable \cup UNION {Reaches(f, b, now) : b \in executable}
  IN  IF now = lattice /\ reach = executable THEN [executable |-> executable, lattice |-> lattice]
      ELSE Propagate(f, reach, now)
Propagate(f, executable, lattice) == PropagateOn(f, executable, lattice, LearntFrom(f, executable, lattice))

(* A branch that is decided becomes a jump. *)
DecidedJump(instr, way) == IF way = {} THEN instr ELSE Jump(Arm(instr, CHOOSE taken \in way : TRUE))
Decided(instr, lattice) ==
  CASE instr.op = "condjump" -> DecidedJump(instr, Resolved(instr, lattice))
    [] instr.op = "tablejump" /\ lattice[instr.use[1]] \notin {{}, Overdefined} ->
         Jump(TableEntry(instr, Number(lattice, instr.use[1])))
    [] OTHER -> instr
DecideBranches(f, found) ==
  [f EXCEPT !.blocks = [b \in DOMAIN @ |->
     IF b \in found.executable THEN [n \in DOMAIN @[b] |-> Decided(@[b][n], found.lattice)] ELSE @[b]]]
PropagateConstantsOf(f, defs) ==
  DecideBranches(f, Propagate(f, {f.order[1]}, [t \in Temps(f) |-> IF defs[t] = 1 THEN {} ELSE Overdefined]))
PropagateConditionalConstants(f, options) ==
  IF "conditionalConstants" \in options THEN PropagateConstantsOf(f, DefCounts(f)) ELSE f

-----------------------------------------------------------------------------
(* reduceStrength and rewriteStrength.                                      *)

Powers == 1..(WordBits - 1)

BinaryOnLast(s, o, x) == EmitBinary(s, o, x, s.fn.temps)
LastBinary(s, o, t)   == EmitBinary(s, o, s.fn.temps, t)
SignOf(s, x) == EmitBinary(EmitConstant(s, WordBits - 1), "sar", x, FreshTemp(s))

(* The dividend x with the bias that makes the arithmetic shift by k round  *)
(* towards zero, and k.                                                     *)
ShiftedRight(s, t, k) == EmitBinary(EmitConstant(s, k), "shr", t, FreshTemp(s))
BiasOf(sign, k)       == ShiftedRight(sign, sign.fn.temps, WordBits - k)
Quotiented(s, x, k)   == EmitConstant(BinaryOnLast(BiasOf(SignOf(s, x), k), "add", x), k)

QuotientOf(q)          == EmitBinary(q, "sar", q.fn.temps - 1, q.fn.temps)
ScaledBack(s, t, k)    == EmitBinary(EmitConstant(s, k), "shl", t, FreshTemp(s))
ScaledLast(s, k)       == ScaledBack(s, s.fn.temps, k)
EmitWithLast(s, res, o, x) == Emit(s, BinOp(res, o, x, s.fn.temps, FALSE))
EmitQuotient(q, res)   == Emit(q, BinOp(res, "sar", q.fn.temps - 1, q.fn.temps, FALSE))

(* instr, an operation on x and 2^k. *)
Shifted(s, instr, x, k) ==
  CASE instr.name \in {"mul", "udiv", "umod"} ->
         EmitWithLast(EmitConstant(s, IF instr.name = "umod" THEN 2^k - 1 ELSE k), instr.res,
                      CASE instr.name = "mul" -> "shl" [] instr.name = "udiv" -> "shr" [] instr.name = "umod" -> "and", x)
    [] instr.name = "div" -> EmitQuotient(Quotiented(s, x, k), instr.res)
    [] instr.name = "mod" -> EmitWithLast(ScaledLast(QuotientOf(Quotiented(s, x, k)), k), instr.res, "sub", x)

PowerOf(n) == {k \in Powers : U(n) = 2^k}
ShiftedBy(s, instr, right, power) ==
  IF /\ instr.name = "mul" \/ (right /\ instr.name \in {"div", "mod", "udiv", "umod"})
     /\ power # {}
     /\ instr.name \in {"div", "mod"} => power # {WordBits - 1}
  THEN Shifted(s, instr, instr.use[IF right THEN 1 ELSE 2], CHOOSE k \in power : TRUE)
  ELSE Emit(s, instr)
StrengthStep(s, instr, left, right) ==
  IF IsBinOp(instr) /\ (left = {}) # (right = {})
  THEN ShiftedBy(s, instr, right # {}, PowerOf(CHOOSE n \in left \cup right : TRUE))
  ELSE Emit(s, instr)
ReduceStrengthOf(f, constants) ==
  Rewriting(f, << >>, SameFacts,
    LAMBDA s, instr :
      LET number(n) == IF n \in DOMAIN instr.use /\ instr.use[n] <= f.temps THEN constants[instr.use[n]] ELSE {}
      IN  StrengthStep(s, instr, number(1), number(2)))
ReduceStrength(f, options) == IF "strengthReduction" \in options THEN ReduceStrengthOf(f, ConstantTemps(f)) ELSE f

-----------------------------------------------------------------------------
(* eliminateCommonSubexpressions.                                           *)

(* The blocks that use each temporary. *)
UsesIn(m, b, used) == [t \in DOMAIN m |-> IF t \in used THEN m[t] \cup {b} ELSE m[t]]
UsingBlocks(f) ==
  Scan(LAMBDA m, b : UsesIn(m, b, UNION {Operands(f.blocks[b][n]) : n \in DOMAIN f.blocks[b]}),
       [t \in Temps(f) |-> {}], f.order)

(* cseNumberable: instr computes the same wherever it stands. *)
IsNumberable(instr, defs) ==
  /\ instr.op \in {"binop", "unop", "cmp", "frameaddr"} /\ ~instr.wide
  /\ \A t \in Operands(instr) : defs[t] = 1

(* known: the expressions met in the block and the results dropped there. *)
FirstSeen(seen, key, res, escapes, s, instr) ==
  LET first == IndicesWhere(seen, LAMBDA e : e.key = key)
  IN  IF first # {} /\ ~escapes
      THEN [s EXCEPT !.known.instead = Mapping(s.known.instead, res, seen[FirstOf(first)].res)]
      ELSE [Emit(s, instr) EXCEPT !.known.seen = Append(seen, [key |-> key, res |-> res])]

(* Mutant of CseStep: a result used in another block is dropped all the same. *)
CseAnyBlock(s, instr, defs, using) ==
  IF instr.res = NoTemp \/ ~IsNumberable(instr, defs) \/ defs[instr.res] # 1 THEN Emit(s, instr)
  ELSE FirstSeen(s.known.seen, [instr EXCEPT !.res = NoTemp], instr.res, FALSE, s, instr)

CseStep(s, instr, defs, using) ==
  IF instr.res = NoTemp \/ ~IsNumberable(instr, defs) \/ defs[instr.res] # 1 THEN Emit(s, instr)
  ELSE FirstSeen(s.known.seen, [instr EXCEPT !.res = NoTemp], instr.res,
                 ~(using[instr.res] \subseteq {s.known.block}), s, instr)

EliminateCommonIn(f, defs, using) ==
  Rewriting(f, [block |-> 0, seen |-> << >>, instead |-> << >>],
            LAMBDA s, b : [s EXCEPT !.known = [block |-> b, seen |-> << >>, instead |-> << >>]],
            LAMBDA s, instr : CseStep(s, Renamed(instr, s.known.instead), defs, using))
EliminateCommonSubexpressions(f, options) ==
  IF "commonSubexpressionElimination" \in options THEN EliminateCommonIn(f, DefCounts(f), UsingBlocks(f)) ELSE f
=============================================================================
