------------------------------- MODULE Inliner -------------------------------
(***************************************************************************)
(* The optimizer's inlining: a call becomes a copy of the callee's body.    *)
(* The attributes noinline, inline and always_inline, interrupt handlers,   *)
(* variadic functions and inline assembly are left out; every function      *)
(* returns a value.                                                         *)
(***************************************************************************)
EXTENDS IrPass

CONSTANT MaxInlineInstrs     \* kMaxInlineInstrs

InstructionCount(f) == Len(Listing(f))

IsInlinable(name, f) ==
  /\ name # "main"
  /\ f.order # << >> /\ IsTerminated(f.blocks[f.order[Len(f.order)]])
  /\ InstructionCount(f) \in 1..MaxInlineInstrs

(* The call at n of block b has the shape the splice needs, and every       *)
(* return of g gives a value g computes.                                    *)
CanSplice(f, b, n, g) ==
  LET count == f.blocks[b][n].num
      defined == {instr.res : instr \in Instrs(g)}
  IN  /\ count = g.params /\ count < n
      /\ \A k \in (n - count)..(n - 1) : f.blocks[b][k].op = "param"
      /\ \A instr \in Instrs(g) : instr.op = "return" => instr.use # << >> /\ instr.use[1] \in defined

(* What an argument's store moves: irMemSizeForBytes. *)
ArgumentStore(addr, t, slot) ==
  IF slot.size = 8 THEN Store(addr, t, TRUE)
  ELSE Sized(Store(addr, t, FALSE), IF slot.size = 1 THEN PlainByte ELSE WordSized)

(* remapInstr: what an instruction copied into f names becomes f's own,     *)
(* numbered after what f has.                                               *)
TempIn(f, t)  == f.temps + t
BlockIn(f, b) == Cardinality(Blocks(f)) + b
RemapInstr(f, instr) ==
  [instr EXCEPT !.res = IF @ = NoTemp THEN @ ELSE TempIn(f, @),
                !.use = [k \in DOMAIN @ |-> TempIn(f, @[k])],
                !.to  = [k \in DOMAIN @ |-> BlockIn(f, @[k])],
                !.num = IF instr.op = "frameaddr" THEN Len(f.locals) + @ ELSE @]

(* spliceInlinedCall: temporaries, slots and blocks of g become fresh ones  *)
(* of f.  A body of one block goes in place of the call; others are copied  *)
(* behind f's blocks and return to a block that holds the rest.             *)
Spliced(f, b, n, g) ==
  LET instrs == f.blocks[b]
      call   == instrs[n]
      count  == call.num
      addr(k)  == f.temps + g.temps + k
      settle(seq, k) ==
        seq \o <<FrameAddr(addr(k), Len(f.locals) + k), ArgumentStore(addr(k), instrs[n - count - 1 + k].use[1], g.locals[k])>>
      head     == Scan(settle, SubSeq(instrs, 1, n - count - 1), [k \in 1..count |-> k])
      tail     == SubSeq(instrs, n + 1, Len(instrs))
      rest     == BlockIn(f, Cardinality(Blocks(g)) + 1)
      body(c, leave) ==
        LET step(seq, instr) == IF instr.op = "return" THEN seq \o <<Copy(call.res, TempIn(f, instr.use[1]), call.wide)>> \o leave
                                ELSE Append(seq, RemapInstr(f, instr))
        IN  Scan(step, << >>, g.blocks[c])
      entry    == g.order[1]
      isSingle == Len(g.order) = 1 /\ g.blocks[entry][Len(g.blocks[entry])].op = "return"
      wider    == [f EXCEPT !.locals = @ \o g.locals, !.temps = @ + g.temps + count]
      added    == [c \in 1..(Cardinality(Blocks(g)) + 1) |-> IF c \in Blocks(g) THEN body(c, <<Jump(rest)>>) ELSE tail]
  IN  IF isSingle THEN [wider EXCEPT !.blocks[b] = head \o body(entry, << >>) \o tail]
      ELSE [wider EXCEPT !.blocks = [@ EXCEPT ![b] = Append(head, Jump(BlockIn(f, entry)))] \o added,
                         !.order = @ \o [k \in DOMAIN g.order |-> BlockIn(f, g.order[k])] \o <<rest>>]

(* inlineCalls.  A block's calls are those it had when its turn came, the   *)
(* last one first; what is copied is not looked at again, and a callee that *)
(* has grown past the limit is no longer copied.                            *)
InlinedInto(unit, name, inlinable) ==
  LET at(s, n) ==
        LET callee == s.fn.blocks[s.block][n].name
        IN IF /\ callee \in inlinable \ {name}
              /\ InstructionCount(unit[callee]) <= MaxInlineInstrs
              /\ CanSplice(s.fn, s.block, n, unit[callee])
           THEN [s EXCEPT !.fn = Spliced(@, s.block, n, unit[callee])] ELSE s
      calls(f, b) == Kept([n \in DOMAIN f.blocks[b] |-> Len(f.blocks[b]) + 1 - n], LAMBDA n : f.blocks[b][n].op = "call")
      visit(f, b) == Scan(at, [fn |-> f, block |-> b], calls(f, b)).fn
  IN  Scan(visit, unit[name], unit[name].order)

InlineCalls(unit, names, options) ==
  LET inlinable == {n \in DOMAIN unit : IsInlinable(n, unit[n])}
      into(u, name) == [u EXCEPT ![name] = InlinedInto(u, name, inlinable)]
  IN  IF "inlining" \in options THEN Scan(into, unit, names) ELSE unit
=============================================================================
