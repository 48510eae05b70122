--------------------------- MODULE InductionPass ---------------------------
(***************************************************************************)
(* Induction-variable strength reduction: an address `base + counter * C`   *)
(* of a loop becomes a pointer kept in a local of its own, which the latch  *)
(* advances.  Loop idioms ask the same questions of a counter.              *)
(***************************************************************************)
EXTENDS FlowPasses

(* localReadBy: the local whose word t is, read by its one definition. *)
LocalReadBy(t, facts) ==
  LET def == facts.definer[t]
  IN  IF facts.defs[t] = 1 /\ IsLoad(def) /\ ~IsVolatileAccess(def) /\ def.num = WordSized
      THEN facts.address[def.use[1]] ELSE 0

(* decomposeScaled: t as a counter times a positive number, as a set. *)
Decomposed(t, facts, constants) ==
  LET def   == facts.definer[t]
      local(n) == LocalReadBy(def.use[n], facts)
      by(n, factor(_)) == {[local |-> local(n), scale |-> factor(k)] : k \in constants[def.use[3 - n]]}
  IN  CASE facts.defs[t] # 1 -> {}
        [] IsLoad(def) -> {[local |-> l, scale |-> 1] : l \in {LocalReadBy(t, facts)} \ {0}}
        [] IsBinOp(def) /\ def.name = "shl" /\ local(1) # 0 ->
             IF constants[def.use[2]] \subseteq 0..(WordBits - 1) THEN by(1, LAMBDA k : 2^k) ELSE {}
        [] IsBinOp(def) /\ def.name = "mul" /\ {local(1), local(2)} # {0} ->
             {d \in by(IF local(1) # 0 THEN 1 ELSE 2, LAMBDA k : k) : d.scale > 0}
        [] OTHER -> {}

StoresTo(f, loop, l, facts) ==
  {q \in UNION {{b} \X DOMAIN f.blocks[b] : b \in loop.blocks} :
     IsStore(f.blocks[q[1]][q[2]]) /\ facts.address[f.blocks[q[1]][q[2]].use[1]] = l}

(* What the one store of the loop to local l, in its latch, adds to l, as a *)
(* set.                                                                     *)
StepOf(f, loop, latch, l, facts, constants) ==
  LET store == CHOOSE q \in StoresTo(f, loop, l, facts) : TRUE
      instr == f.blocks[store[1]][store[2]]
      def   == facts.definer[instr.use[2]]
      reads(n) == LocalReadBy(def.use[n], facts) = l
      counter == l \in facts.safe /\ ~f.locals[l].volatile /\ f.locals[l].size = 4
  IN  CASE ~counter \/ Cardinality(StoresTo(f, loop, l, facts)) # 1 -> {}
        [] store[1] # latch \/ IsVolatileAccess(instr) \/ instr.num # WordSized -> {}
        [] facts.defs[instr.use[2]] # 1 \/ ~IsBinOp(def) -> {}
        [] def.name = "add" /\ reads(1) -> constants[def.use[2]] \ {0}
        [] def.name = "add" /\ reads(2) -> constants[def.use[1]] \ {0}
        [] def.name = "sub" /\ reads(1) -> {-n : n \in constants[def.use[2]] \ {0}}
        [] OTHER -> {}

(* Every place that uses t: block, instruction, operand. *)
UsesOf(f, t) ==
  UNION {UNION {{<<b, n, u>> : u \in {v \in DOMAIN f.blocks[b][n].use : f.blocks[b][n].use[v] = t}} :
                n \in DOMAIN f.blocks[b]} : b \in Listed(f)}

HasCall(f, loop) == \E b \in loop.blocks : \E n \in DOMAIN f.blocks[b] : f.blocks[b][n].op = "call"

(* The add in block b at n is `base + counter * C`, base its operand        *)
(* `side`, and may be replaced.                                             *)
IsReducible(f, loop, latch, b, n, side, facts, constants) ==
  LET instr  == f.blocks[b][n]
      base   == instr.use[side]
      scaled == instr.use[3 - side]
      found  == Decomposed(scaled, facts, constants)
  IN  /\ facts.defs[instr.res] = 1 /\ facts.defs[base] = 1
      /\ Cardinality(UsesOf(f, scaled)) = 1
      /\ constants[base] = {}
      /\ facts.defBlock[base] \notin loop.blocks /\ facts.defBlock[base] \in facts.dom[loop.preheader]
      /\ found # {}
      /\ \A d \in found : StepOf(f, loop, latch, d.local, facts, constants) # {}
      /\ \A u \in UsesOf(f, instr.res) :
           u[1] \in loop.blocks /\ u[1] # latch /\ b \in facts.dom[u[1]] /\ (u[1] = b => u[2] > n)

(* The places of a loop where an address may be reduced, in order. *)
Candidates(f, loop, facts, constants) ==
  LET latch == CHOOSE b \in loop.latches : TRUE
      adds(b) == Kept([n \in DOMAIN f.blocks[b] |-> n], LAMBDA n : IsBinOp(f.blocks[b][n]) /\ f.blocks[b][n].name = "add")
      places(seq, b) == LET at(s, n) == s \o << <<b, n, 1>>, <<b, n, 2>> >> IN Scan(at, seq, adds(b))
  IN  IF loop.preheader = Nowhere \/ Cardinality(loop.latches) # 1 \/ HasCall(f, loop) THEN << >>
      ELSE Kept(Scan(places, << >>, BlocksOf(f, loop.blocks \ {loop.header, latch})),
                LAMBDA c : IsReducible(f, loop, latch, c[1], c[2], c[3], facts, constants))

PointerSlot == [size |-> 4, volatile |-> FALSE, prefer |-> TRUE, restrict |-> FALSE]

(* One address becomes a pointer: set before the loop, read where the       *)
(* address was, advanced right after the counter is.                        *)
Reduced(f, loop, place, facts, constants) ==
  LET latch  == CHOOSE b \in loop.latches : TRUE
      instr  == f.blocks[place[1]][place[2]]
      base   == instr.use[place[3]]
      found  == CHOOSE d \in Decomposed(instr.use[3 - place[3]], facts, constants) : TRUE
      step   == CHOOSE n \in StepOf(f, loop, latch, found.local, facts, constants) : TRUE
      store  == (CHOOSE q \in StoresTo(f, loop, found.local, facts) : TRUE)[2]
      t      == f.temps
      slot   == Len(f.locals) + 1
      address == t + 1  entry == t + 3  init == t + 4  value == t + 5
      current == t + 6  delta == t + 7  next == t + 8
      power  == {k \in 0..(WordBits - 1) : found.scale = 2^k}
      before ==
        <<FrameAddr(address, slot), FrameAddr(t + 2, found.local), Load(entry, t + 2, FALSE)>>
          \o (IF found.scale = 1 THEN << >>
              ELSE IF power # {} THEN <<Const(t + 10, CHOOSE k \in power : TRUE, FALSE), BinOp(t + 9, "shl", entry, t + 10, FALSE)>>
              ELSE <<Const(t + 10, found.scale, FALSE), BinOp(t + 9, "mul", entry, t + 10, FALSE)>>)
          \o <<BinOp(init, "add", base, IF found.scale = 1 THEN entry ELSE t + 9, FALSE), Store(address, init, FALSE)>>
      advance == <<Load(current, address, FALSE), Const(delta, As(step * found.scale, FALSE), FALSE),
                   BinOp(next, "add", current, delta, FALSE), Store(address, next, FALSE)>>
      named  == [f.blocks EXCEPT ![place[1]][place[2]] = Load(value, address, FALSE)]
      blocks == [b \in DOMAIN named |-> [n \in DOMAIN named[b] |-> Renamed(named[b][n], [x \in {instr.res} |-> value])]]
      moved  == [blocks EXCEPT ![latch] = SubSeq(@, 1, store) \o advance \o SubSeq(@, store + 1, Len(@))]
  IN  InsertedBeforeEnd([f EXCEPT !.blocks = moved, !.locals = Append(@, PointerSlot),
                                  !.temps = t + (IF found.scale = 1 THEN 8 ELSE 10)], loop.preheader, before)

(* strengthReduceInductionVariables: the first address of the first loop    *)
(* that has one.                                                            *)
ReduceFirst(f, loops, facts, constants) ==
  IF loops = << >> THEN f
  ELSE Reduced(f, loops[1], Candidates(f, loops[1], facts, constants)[1], facts, constants)
ReduceInductionOf(f, facts, constants) ==
  ReduceFirst(f, Kept(NaturalLoops(f), LAMBDA loop : Candidates(f, loop, facts, constants) # << >>), facts, constants)
ReduceInduction(f, options) ==
  IF {"inductionStrengthReduction", "deadCodeElimination"} \subseteq options /\ Len(f.order) > 1
  THEN ReduceInductionOf(f, LoopFacts(f), ConstantTemps(f)) ELSE f
=============================================================================
