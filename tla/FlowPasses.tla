----------------------------- MODULE FlowPasses -----------------------------
(***************************************************************************)
(* The optimizer's passes on the control-flow graph: jump threading,        *)
(* unreachable blocks, layout, natural loops, and the motion of what does   *)
(* not change out of them.                                                  *)
(***************************************************************************)
EXTENDS IrPass

Listed(f)   == {f.order[n] : n \in DOMAIN f.order}
LastOfBlock(f, b) == f.blocks[b][Len(f.blocks[b])]

(* resolveJumpTarget: past the blocks that only jump, at most as many as    *)
(* there are.                                                               *)
RECURSIVE ResolveJumpTarget(_, _, _)
ResolveJumpTarget(f, target, steps) ==
  LET instrs == f.blocks[target]
  IN  IF steps = 0 \/ Len(instrs) # 1 \/ instrs[1].op # "jump" \/ instrs[1].to[1] = target THEN target
      ELSE ResolveJumpTarget(f, instrs[1].to[1], steps - 1)

(* threadJumps: block after block, each seeing what those before became. *)
ThreadJumps(f, options) ==
  LET resolved(g, b) == ResolveJumpTarget(g, b, Len(f.order))
      thread(g, b) ==
        IF ~IsTerminated(g.blocks[b]) \/ LastOfBlock(g, b).op = "return" THEN g
        ELSE LET old == LastOfBlock(g, b).to
                 new == [n \in DOMAIN old |-> resolved(g, old[n])]
             IN IF LastOfBlock(g, b).op = "jump" /\ new[1] = b THEN g
                ELSE [g EXCEPT !.blocks[b][Len(g.blocks[b])].to = new]
  IN  IF "jumpThreading" \in options THEN Scan(thread, f, f.order) ELSE f

RECURSIVE ReachableFrom(_, _)
ReachableFrom(f, blocks) ==
  LET next == blocks \cup UNION {SuccessorsOf(f, b) : b \in blocks}
  IN  IF next = blocks THEN blocks ELSE ReachableFrom(f, next)

(* retainBlocks. *)
RetainBlocks(f, blocks) ==
  [f EXCEPT !.order = Kept(@, LAMBDA b : b \in blocks),
            !.blocks = [b \in DOMAIN @ |-> IF b \in blocks THEN @[b] ELSE << >>]]

RemoveUnreachableBlocks(f, options) ==
  IF "unreachableBlockElimination" \in options THEN RetainBlocks(f, ReachableFrom(f, {f.order[1]})) ELSE f

-----------------------------------------------------------------------------
(* layoutBlocks.                                                            *)

Nowhere == 0
Prefers(f, b) ==
  LET last == LastOfBlock(f, b)
  IN  CASE last.op = "jump" -> last.to[1]
        [] last.op = "condjump" ->
             LET arm == LastOfBlock(f, last.to[1])
             IN IF arm.op = "jump" /\ arm.to[1] = last.to[2] THEN last.to[1] ELSE last.to[2]
        [] OTHER -> Nowhere

RECURSIVE Trace(_, _, _)
Trace(f, order, b) ==
  IF b = Nowhere \/ \E n \in DOMAIN order : order[n] = b THEN order ELSE Trace(f, Append(order, b), Prefers(f, b))

JumpsLeft(f, order) ==
  LET next(n) == IF n < Len(order) THEN order[n + 1] ELSE Nowhere
  IN  Cardinality({n \in DOMAIN order :
        LastOfBlock(f, order[n]).op \in {"jump", "condjump"}
          /\ \A k \in DOMAIN LastOfBlock(f, order[n]).to : LastOfBlock(f, order[n]).to[k] # next(n)})

(* Mutant of LayoutBlocks: the rest is placed from the last block back. *)
LayoutFromTheBack(f, options) ==
  LET rest  == [n \in 1..(Len(f.order) - 1) |-> f.order[Len(f.order) + 1 - n]]
      order == Scan(LAMBDA seq, b : Trace(f, seq, b), << >>, <<f.order[1]>> \o rest)
  IN  IF "blockLayout" \notin options \/ \E b \in Listed(f) : ~IsTerminated(f.blocks[b]) THEN f
      ELSE IF JumpsLeft(f, order) <= JumpsLeft(f, f.order) THEN [f EXCEPT !.order = order]
      ELSE f

LayoutBlocks(f, options) ==
  LET order == Scan(LAMBDA seq, b : Trace(f, seq, b), << >>, f.order)
  IN  IF "blockLayout" \notin options \/ \E b \in Listed(f) : ~IsTerminated(f.blocks[b]) THEN f
      ELSE IF JumpsLeft(f, order) <= JumpsLeft(f, f.order) THEN [f EXCEPT !.order = order]
      ELSE f

-----------------------------------------------------------------------------
(* Dominators and natural loops.                                            *)

Predecessors(f) == [b \in Listed(f) |-> {p \in Listed(f) : b \in SuccessorsOf(f, p)}]

(* computeDominators: from "every block dominates every other" down. *)
RECURSIVE Dominate(_, _, _)
Dominate(f, preds, dom) ==
  LET next == [b \in DOMAIN dom |->
                 IF b = f.order[1] \/ preds[b] = {} THEN {b}
                 ELSE {b} \cup {d \in Listed(f) : \A p \in preds[b] : d \in dom[p]}]
  IN  IF next = dom THEN dom ELSE Dominate(f, preds, next)
Dominators(f) == Dominate(f, Predecessors(f), [b \in Listed(f) |-> IF b = f.order[1] THEN {b} ELSE Listed(f)])

RECURSIVE Backwards(_, _, _)
Backwards(preds, header, blocks) ==
  LET next == blocks \cup UNION {preds[b] : b \in blocks \ {header}}
  IN  IF next = blocks THEN blocks ELSE Backwards(preds, header, next)

(* findNaturalLoops: in the order the headers are found, each with the      *)
(* blocks that reach a latch without passing the header, and its preheader  *)
(* when one block outside leads to it and nowhere else.                     *)
NaturalLoops(f) ==
  LET preds == Predecessors(f)
      dom   == Dominators(f)
      latches(v) == {u \in preds[v] : v \in dom[u]}
      header(seq, v) == IF v \in {seq[n] : n \in DOMAIN seq} \/ latches(v) = {} THEN seq ELSE Append(seq, v)
      edges(seq, u) == Scan(header, seq, IF IsTerminated(f.blocks[u]) THEN Kept(LastOfBlock(f, u).to, LAMBDA v : v \in dom[u])
                                         ELSE << >>)
      headers == Scan(edges, << >>, f.order)
      blocks(v) == Backwards(preds, v, {v} \cup latches(v))
      outside(v) == preds[v] \ blocks(v)
      preheader(v) == IF Cardinality(outside(v)) # 1 THEN {} ELSE {p \in outside(v) : SuccessorsOf(f, p) = {v}}
  IN  [n \in DOMAIN headers |->
         [header |-> headers[n], blocks |-> blocks(headers[n]), latches |-> latches(headers[n]),
          preheader |-> IF preheader(headers[n]) = {} THEN Nowhere ELSE CHOOSE p \in preheader(headers[n]) : TRUE]]

(* The blocks of a loop, or those outside it, as the function lists them. *)
BlocksOf(f, blocks) == Kept(f.order, LAMBDA b : b \in blocks)
ListingOf(f, blocks) == LET add(seq, b) == seq \o f.blocks[b] IN Scan(add, << >>, BlocksOf(f, blocks))
ReadIn(listing) == UNION {Operands(listing[n]) : n \in DOMAIN listing}
DefinedIn(listing) == {listing[n].res : n \in DOMAIN listing} \ {NoTemp}

(* new, put before the terminator of block b. *)
InsertedBeforeEnd(f, b, new) ==
  LET instrs == f.blocks[b]
      at == IF IsTerminated(instrs) THEN Len(instrs) - 1 ELSE Len(instrs)
  IN  [f EXCEPT !.blocks[b] = SubSeq(instrs, 1, at) \o new \o SubSeq(instrs, at + 1, Len(instrs))]

-----------------------------------------------------------------------------
(* hoistLoopInvariants.                                                     *)

(* Mutant of IsHoistable: a division may run where the loop would not. *)
IsHoistableOrDivides(instr) == instr.op \in {"binop", "unop", "cmp", "copy", "frameaddr", "globaladdr"} /\ ~instr.wide

(* isHoistableInstruction: pure, and cannot trap. *)
IsHoistable(instr) ==
  /\ instr.op \in {"binop", "unop", "cmp", "copy", "frameaddr", "globaladdr"} /\ ~instr.wide
  /\ instr.name \notin {"div", "mod", "udiv", "umod"}

(* What the pass knows before it moves anything: it is not brought up to    *)
(* date as loops are treated one after another.                             *)
LoopFacts(f) ==
  LET where(m, b) == LET add(k, instr) == IF instr.res = NoTemp THEN k ELSE [k EXCEPT ![instr.res] = b]
                     IN Scan(add, m, f.blocks[b])
      define(m, instr) == IF instr.res = NoTemp THEN m ELSE [m EXCEPT ![instr.res] = instr]
      branches(set, instr) == IF instr.op = "condjump" THEN set \cup Operands(instr) ELSE set
  IN  [defs |-> DefCounts(f), dom |-> Dominators(f),
       defBlock |-> Scan(where, [t \in Temps(f) |-> Nowhere], f.order),
       definer  |-> Scan(define, [t \in Temps(f) |-> Return(NoTemp, FALSE)], Listing(f)),
       safe     |-> NonEscapingLocals(f), address |-> FrameAddrTemps(f),
       tested   |-> Scan(branches, {}, Listing(f))]

(* What a loop is to the pass: its instructions, what they define, what is  *)
(* read outside it, the locals it stores to.                                *)
LoopContents(f, loop, body, facts) ==
  [body |-> body, defined |-> DefinedIn(body), later |-> ReadIn(ListingOf(f, Listed(f) \ loop.blocks)),
   stored |-> {facts.address[body[n].use[1]] : n \in {m \in DOMAIN body : IsStore(body[m])}}]
IsMoved(instr, in, facts) ==
  IF IsLoad(instr) THEN ~IsVolatileAccess(instr) /\ facts.address[instr.use[1]] \in facts.safe \ in.stored
  ELSE IsHoistable(instr)
IsInvariant(t, hoisted, loop, in, facts) ==
  \/ t \in hoisted
  \/ t \notin in.defined /\ facts.defs[t] = 1 /\ facts.defBlock[t] \in facts.dom[loop.preheader]
  \/ t \in in.defined /\ IsConst(facts.definer[t]) /\ facts.defs[t] = 1 /\ t \notin facts.tested

(* An instruction moves when its operands come from before the loop or move *)
(* too, and nothing after the loop reads it; the constants it reads move    *)
(* with it.                                                                 *)
OnceEach(seq) == Kept([n \in DOMAIN seq |-> IF \E m \in 1..(n - 1) : seq[m] = seq[n] THEN NoTemp ELSE seq[n]],
                      LAMBDA t : t # NoTemp)
(* Mutant of MoveWith: the constants come behind what reads them. *)
MoveBefore(s, instr, needs, first, facts) ==
  [hoisted |-> s.hoisted \cup {instr.res} \cup {needs[n] : n \in DOMAIN needs},
   moved   |-> Append(s.moved, instr) \o [n \in DOMAIN first |-> facts.definer[first[n]]]]
MoveWith(s, instr, needs, first, facts) ==
  [hoisted |-> s.hoisted \cup {instr.res} \cup {needs[n] : n \in DOMAIN needs},
   moved   |-> Append(s.moved \o [n \in DOMAIN first |-> facts.definer[first[n]]], instr)]
ConsiderNeeding(s, instr, needs, loop, in, facts) ==
  IF /\ instr.res # NoTemp /\ instr.res \notin s.hoisted \cup in.later
     /\ facts.defs[instr.res] = 1 /\ IsMoved(instr, in, facts)
     /\ \A t \in Operands(instr) : IsInvariant(t, s.hoisted, loop, in, facts)
     /\ \A n \in DOMAIN needs : needs[n] \notin in.later
  THEN MoveWith(s, instr, needs, OnceEach(needs), facts) ELSE s
Consider(s, instr, loop, in, facts) ==
  ConsiderNeeding(s, instr, Kept(instr.use, LAMBDA t : t \in in.defined \ s.hoisted), loop, in, facts)
RECURSIVE Sweep(_, _, _, _), SweptAgain(_, _, _, _, _)
SweptAgain(t, s, loop, in, facts) == IF t = s THEN s ELSE Sweep(t, loop, in, facts)
Sweep(s, loop, in, facts) ==
  SweptAgain(Scan(LAMBDA r, instr : Consider(r, instr, loop, in, facts), s, in.body), s, loop, in, facts)

WithoutHoisted(f, loop, hoisted) ==
  [f EXCEPT !.blocks = [b \in DOMAIN f.blocks |->
     IF b \in loop.blocks THEN Kept(f.blocks[b], LAMBDA instr : instr.res \notin hoisted) ELSE f.blocks[b]]]
MovedOut(f, loop, swept) == InsertedBeforeEnd(WithoutHoisted(f, loop, swept.hoisted), loop.preheader, swept.moved)
HoistFrom(f, loop, in, facts) ==
  IF \E n \in DOMAIN in.body : in.body[n].op = "call" THEN f
  ELSE MovedOut(f, loop, Sweep([hoisted |-> {}, moved |-> << >>], loop, in, facts))
HoistLoop(f, loop, facts) ==
  IF loop.preheader = Nowhere THEN f
  ELSE HoistFrom(f, loop, LoopContents(f, loop, ListingOf(f, loop.blocks), facts), facts)

HoistLoops(f, facts) == Scan(LAMBDA g, loop : HoistLoop(g, loop, facts), f, NaturalLoops(f))
HoistLoopInvariants(f, options) ==
  IF "loopInvariantMotion" \in options /\ Len(f.order) > 1 THEN HoistLoops(f, LoopFacts(f)) ELSE f
=============================================================================
