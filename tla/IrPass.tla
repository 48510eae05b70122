------------------------------- MODULE IrPass -------------------------------
(***************************************************************************)
(* What the passes of the IR optimizer share: walking a function block by   *)
(* block, the constants it holds, purity, renaming, and the locals no       *)
(* pointer reaches.                                                         *)
(*                                                                         *)
(* A pass takes a function and gives the function after it.  Removed blocks *)
(* leave `order` and are empty; `order` is the source's blocks().           *)
(***************************************************************************)
EXTENDS CProgram, Ir

(* The elements of seq taken one by one from the state s.  Halving keeps    *)
(* TLC's evaluation shallow, and a state bound by a quantifier is computed  *)
(* before the next one.                                                     *)
Scan(step(_, _), s, seq) ==
  LET RECURSIVE Over(_, _, _)
      Over(r, m, n) ==
        LET k == (m + n) \div 2
        IN  CASE m > n -> r
              [] m = n -> step(r, seq[m])
              [] OTHER -> CHOOSE t \in {Over(q, k + 1, n) : q \in {Over(r, m, k)}} : TRUE
  IN  Over(s, 1, Len(seq))

IndicesWhere(seq, test(_)) == {n \in DOMAIN seq : test(seq[n])}
FirstOf(set) == CHOOSE n \in set : \A m \in set : n <= m
LastOf(set)  == CHOOSE n \in set : \A m \in set : n >= m
Kept(seq, test(_)) == SelectSeq(seq, test)

(* A pass that rewrites instructions keeps a state with the function so far *)
(* (fn), the rewritten instructions of the block (out) and what it has      *)
(* learnt (known); Rewriting walks every block.                             *)
Emit(s, instr)      == [s EXCEPT !.out = Append(@, instr)]
FreshTemp(s)        == s.fn.temps + 1
EmitFresh(s, instr) == [Emit(s, instr) EXCEPT !.fn.temps = @ + 1]
EmitConstant(s, n)  == EmitFresh(s, Const(FreshTemp(s), n, FALSE))
EmitBinary(s, o, a, b) == EmitFresh(s, BinOp(FreshTemp(s), o, a, b, FALSE))

Rewriting(f, known, enter(_, _), step(_, _)) ==
  LET block(s, b) ==
        LET t == Scan(step, enter([s EXCEPT !.out = << >>], b), s.fn.blocks[b])
        IN [t EXCEPT !.fn.blocks[b] = t.out]
  IN  Scan(block, [fn |-> f, out |-> << >>, known |-> known], f.order).fn
SameFacts(s, b) == s

(* Every instruction, in emission order. *)
Listing(f) == LET add(seq, b) == seq \o f.blocks[b] IN Scan(add, << >>, f.order)

DefCounts(f) ==
  LET count(c, instr) == IF instr.res = NoTemp THEN c ELSE [c EXCEPT ![instr.res] = @ + 1]
  IN  Scan(count, [t \in Temps(f) |-> 0], Listing(f))

IsConst(instr) == instr.op = "const" /\ ~instr.wide
IsBinOp(instr) == instr.op = "binop" /\ ~instr.wide
IsCmp(instr)   == instr.op = "cmp" /\ ~instr.wide
IsCopy(instr)  == instr.op = "copy" /\ ~instr.wide
IsLoad(instr)  == instr.op = "load" /\ ~instr.wide
IsStore(instr) == instr.op = "store" /\ ~instr.wide
IsVolatileAccess(instr) == instr.op \in {"load", "store"} /\ instr.name = "volatile"

(* collectConstants: what a temporary is, for those a Const defines and     *)
(* nothing else does.                                                       *)
ConstantTemps(f) ==
  LET defs == DefCounts(f)
      add(c, instr) == IF IsConst(instr) /\ defs[instr.res] = 1 THEN [c EXCEPT ![instr.res] = {instr.num}] ELSE c
  IN  Scan(add, [t \in Temps(f) |-> {}], Listing(f))
Number(constants, t) == CHOOSE n \in constants[t] : TRUE

(* isPure: an instruction that may go when nothing reads its result. *)
IsPure(instr) ==
  \/ instr.op \in {"const", "binop", "cmp", "copy", "unop", "widen", "truncate", "frameaddr", "globaladdr"}
  \/ instr.op = "load" /\ ~IsVolatileAccess(instr)

(* renameOperands: each use replaced as the map says. *)
Renamed(instr, to) ==
  [instr EXCEPT !.use = [n \in DOMAIN @ |-> IF @[n] \in DOMAIN to THEN to[@[n]] ELSE @[n]]]
Mapping(to, t, u) == [x \in DOMAIN to \cup {t} |-> IF x = t THEN u ELSE to[x]]

-----------------------------------------------------------------------------
(* Escape analysis.                                                         *)

(* mapFrameAddrTemps: the local a temporary is the address of, 0 for none. *)
FrameAddrTemps(f) ==
  LET add(m, instr) == IF instr.op = "frameaddr" THEN [m EXCEPT ![instr.res] = instr.num] ELSE m
  IN  Scan(add, [t \in Temps(f) |-> 0], Listing(f))

(* collectNonEscapingLocals: those whose address is only loaded from and    *)
(* stored through.                                                         *)
NonEscapingLocals(f) ==
  LET local == FrameAddrTemps(f)
      defs  == DefCounts(f)
      leaks(instr) == CASE IsLoad(instr)  -> {}
                        [] IsStore(instr) -> {instr.use[2]}
                        [] OTHER          -> Operands(instr)
      leak(set, instr) == set \cup {local[t] : t \in leaks(instr)}
  IN  LocalSlots(f) \ (Scan(leak, {}, Listing(f)) \cup {local[t] : t \in {u \in Temps(f) : defs[u] > 1}})
=============================================================================
