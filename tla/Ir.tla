--------------------------------- MODULE Ir ---------------------------------
(***************************************************************************)
(* The intermediate representation: instructions, basic blocks and the     *)
(* control-flow questions every pass asks of them (libs/ir, ir_instr.h and *)
(* ir_function.h).                                                         *)
(*                                                                         *)
(* Temporaries, locals and blocks are numbered from 1.  A function is      *)
(*   [blocks |-> its instructions by block id,                             *)
(*    order  |-> the block ids in emission order (entry first),            *)
(*    params |-> how many of the locals are parameters,                    *)
(*    locals |-> the frame slots, temps |-> how many temporaries]          *)
(***************************************************************************)
EXTENDS Integers, Sequences, FiniteSets

NoTemp == 0

(* One instruction: what it defines (res, NoTemp when nothing), what it    *)
(* reads (use, in operand order), the blocks it may branch to (to), a      *)
(* number (a constant, a local, an argument count), a name (an operator, a *)
(* callee) and whether it is the 64-bit form.                              *)
Instr(op, res, use, to, num, name, wide) ==
  [op |-> op, res |-> res, use |-> use, to |-> to, num |-> num, name |-> name, wide |-> wide]

Const(res, n, wide)         == Instr("const", res, << >>, << >>, n, "", wide)
BinOp(res, o, a, b, wide)   == Instr("binop", res, <<a, b>>, << >>, 0, o, wide)
Cmp(res, o, a, b, wide)     == Instr("cmp", res, <<a, b>>, << >>, 0, o, wide)
Copy(res, a, wide)          == Instr("copy", res, <<a>>, << >>, 0, "", wide)
Widen(res, a)               == Instr("widen", res, <<a>>, << >>, 0, "", TRUE)
Truncate(res, a)            == Instr("truncate", res, <<a>>, << >>, 0, "", TRUE)
FrameAddr(res, local)       == Instr("frameaddr", res, << >>, << >>, local, "", FALSE)
Load(res, addr, wide)       == Instr("load", res, <<addr>>, << >>, 0, "", wide)
Store(addr, a, wide)        == Instr("store", NoTemp, <<addr, a>>, << >>, 0, "", wide)
UnOp(res, o, a)             == Instr("unop", res, <<a>>, << >>, 0, o, FALSE)
GlobalAddr(res, name)       == Instr("globaladdr", res, << >>, << >>, 0, name, FALSE)
(* What an access moves, or a Narrow leaves: a word, a byte with its sign, *)
(* a byte without (size and isSigned of the payloads).                     *)
WordSized == 0
SignedByte == 1
PlainByte  == 2
Narrow(res, a, size)        == Instr("unop", res, <<a>>, << >>, size, "narrow", FALSE)
Sized(instr, size)          == [instr EXCEPT !.num = size]
(* An access the optimizer must leave alone: isVolatile of the two payloads. *)
Volatile(instr)             == [instr EXCEPT !.name = "volatile"]
Param(a, wide)              == Instr("param", NoTemp, <<a>>, << >>, 0, "", wide)
CallOf(res, f, count, wide) == Instr("call", res, << >>, << >>, count, f, wide)
Jump(target)                == Instr("jump", NoTemp, << >>, <<target>>, 0, "", FALSE)
CondJump(o, a, b, t, f)     == Instr("condjump", NoTemp, <<a, b>>, <<t, f>>, 0, o, FALSE)
Return(a, wide)             == Instr("return", NoTemp, IF a = NoTemp THEN << >> ELSE <<a>>, << >>, 0, "", wide)

(* Jumps to targets[value - low + 1], or to fallback outside the table. *)
TableJump(a, targets, low, fallback) ==
  Instr("tablejump", NoTemp, <<a>>, Append(targets, fallback), low, "", FALSE)

Terminators == {"jump", "condjump", "tablejump", "return"}

(* IrOpcode::Wide is one opcode; these are its operations here. *)
IsWideOp(instr) == instr.wide /\ instr.op \notin {"param", "call", "return"}

(* The temporary a 64-bit instruction defines is a register pair, unless it *)
(* compares or converts to a word.                                         *)
DefinesPair(instr) == instr.wide /\ instr.op \notin {"cmp", "truncate"}

Operands(instr) == {instr.use[k] : k \in DOMAIN instr.use} \ {NoTemp}

IsTerminated(instrs) == instrs # << >> /\ instrs[Len(instrs)].op \in Terminators

Blocks(f)      == DOMAIN f.blocks
Instrs(f)      == UNION {{f.blocks[b][k] : k \in DOMAIN f.blocks[b]} : b \in Blocks(f)}
Temps(f)       == 1..f.temps
LocalSlots(f)  == DOMAIN f.locals
PositionOf(f, b) == CHOOSE p \in DOMAIN f.order : f.order[p] = b

(* The blocks control can reach from b: what its terminator names, or the  *)
(* next block in emission order when it has none.                          *)
SuccessorsOf(f, b) ==
  LET instrs == f.blocks[b]
      p      == PositionOf(f, b)
  IN  IF IsTerminated(instrs)
      THEN {instrs[Len(instrs)].to[k] : k \in DOMAIN instrs[Len(instrs)].to}
      ELSE IF p < Len(f.order) THEN {f.order[p + 1]} ELSE {}

PointsOf(f) == UNION {{b} \X DOMAIN f.blocks[b] : b \in Blocks(f)}
DefCount(f, t) == Cardinality({q \in PointsOf(f) : f.blocks[q[1]][q[2]].res = t})
UseCount(f, t) ==
  Cardinality(UNION {{<<q[1], q[2], u>> : u \in {v \in DOMAIN f.blocks[q[1]][q[2]].use : f.blocks[q[1]][q[2]].use[v] = t}} :
                     q \in PointsOf(f)})
=============================================================================
