----------------------------- MODULE IdiomPasses -----------------------------
(***************************************************************************)
(* Loop idioms: a loop that fills, copies or scans bytes becomes a call of  *)
(* a routine the compiler carries with it.                                  *)
(***************************************************************************)
EXTENDS InductionPass

Header(f, loop) == LastOfBlock(f, loop.header)
Leaving(f, loop) == UNION {{b} \X (SuccessorsOf(f, b) \ loop.blocks) : b \in loop.blocks}
IsPlain(instr, size) == ~IsVolatileAccess(instr) /\ instr.num \in size
Bytes == {SignedByte, PlainByte}

(* The comparison that jump goes by, as lowerCondition writes it. *)
TestOf(jump, facts, constants) ==
  IF /\ jump.op = "condjump" /\ jump.name = "ne" /\ constants[jump.use[2]] = {0}
     /\ facts.defs[jump.use[1]] = 1 /\ IsCmp(facts.definer[jump.use[1]])
  THEN {facts.definer[jump.use[1]]} ELSE {}

(* What is added to local l by the one definition of t, as a set. *)
AddedTo(t, l, facts) ==
  LET def == facts.definer[t]
  IN  CASE facts.defs[t] # 1 \/ ~IsBinOp(def) \/ def.name # "add" -> {}
        [] LocalReadBy(def.use[1], facts) = l -> {def.use[2]}
        [] LocalReadBy(def.use[2], facts) = l -> {def.use[1]}
        [] OTHER -> {}

(* Local l is 0 before the loop and one more after each turn; no other      *)
(* place stores to it.                                                      *)
CountsFromZero(f, loop, l, facts, constants) ==
  LET inside  == StoresTo(f, loop, l, facts)
      outside == StoresTo(f, [blocks |-> Listed(f) \ loop.blocks], l, facts)
      instr(q) == f.blocks[q[1]][q[2]]
  IN  /\ l \in facts.safe /\ Cardinality(inside) = 1 /\ Cardinality(outside) = 1
      /\ \A q \in inside : q[1] \in loop.latches /\ IsPlain(instr(q), {WordSized})
                             /\ {constants[n] : n \in AddedTo(instr(q).use[2], l, facts)} = {{1}}
      /\ \A q \in outside : q[1] = loop.preheader /\ constants[instr(q).use[2]] = {0}

(* The address that t, a byte read of `address + counter l`, adds to the    *)
(* counter.                                                                 *)
ScannedBase(t, l, facts) ==
  LET def == facts.definer[t]
  IN  IF facts.defs[t] = 1 /\ IsLoad(def) /\ IsPlain(def, Bytes) THEN AddedTo(def.use[1], l, facts) ELSE {}

NothingReadAfter(f, loop) ==
  ReadIn(ListingOf(f, Listed(f) \ loop.blocks)) \cap DefinedIn(ListingOf(f, loop.blocks)) = {}
LoadsOf(f, blocks, l, facts) ==
  LET seq == ListingOf(f, blocks) IN {n \in DOMAIN seq : IsLoad(seq[n]) /\ facts.address[seq[n].use[1]] = l}

(* The loop has the common shape: a preheader, one latch, a test with the   *)
(* body on its true edge.                                                   *)
IsTested(f, loop) ==
  /\ loop.preheader # Nowhere /\ Cardinality(loop.latches) = 1
  /\ Header(f, loop).op = "condjump"
  /\ Header(f, loop).to[1] \in loop.blocks /\ Header(f, loop).to[2] \notin loop.blocks
OnlyTestLeaves(f, loop) == Leaving(f, loop) = {<<loop.header, Header(f, loop).to[2]>>}

(* Everything but the places given is pure, or ends a block. *)
OnlyEffects(f, loop, places) ==
  \A b \in loop.blocks : \A n \in DOMAIN f.blocks[b] :
    <<b, n>> \in places \/ f.blocks[b][n].op \in Terminators \/ IsPure(f.blocks[b][n])

-----------------------------------------------------------------------------
(* Values carried out of the loop.                                          *)

IsBefore(t, loop, facts) ==
  facts.defs[t] = 1 /\ facts.defBlock[t] \notin loop.blocks /\ facts.defBlock[t] \in facts.dom[loop.preheader]

(* materialize: t as a temporary the preheader has, NoTemp when it cannot   *)
(* be formed there.  rereads: which loads are made again.                   *)
Materialize(s, t, loop, facts, constants, rereads(_)) ==
  LET def == facts.definer[t]
      got(u, new) == [new |-> s.new \o new, temps |-> s.temps + Len(new), values |-> Append(s.values, u)]
      u == s.temps + 1
  IN  CASE IsBefore(t, loop, facts) -> got(t, << >>)
        [] constants[t] # {} -> got(u, <<Const(u, Number(constants, t), FALSE)>>)
        [] facts.defs[t] = 1 /\ rereads(t) ->
             got(u + 1, <<FrameAddr(u, facts.address[def.use[1]]), [def EXCEPT !.res = u + 1, !.use = <<u>>]>>)
        [] facts.defs[t] = 1 /\ def.op \in {"frameaddr", "globaladdr"} -> got(u, <<[def EXCEPT !.res = u]>>)
        [] OTHER -> got(NoTemp, << >>)

Materialized(f, loop, seq, facts, constants, rereads(_)) ==
  LET step(s, t) == Materialize(s, t, loop, facts, constants, rereads)
  IN  Scan(step, [new |-> << >>, temps |-> f.temps, values |-> << >>], seq)

(* The preheader goes straight to the exit, by way of new. *)
Replaced(f, loop, new, temps, options) ==
  LET exit   == Header(f, loop).to[2]
      instrs == f.blocks[loop.preheader]
      rest   == IF IsTerminated(instrs) THEN SubSeq(instrs, 1, Len(instrs) - 1) ELSE instrs
  IN  RemoveUnreachableBlocks([f EXCEPT !.blocks[loop.preheader] = Append(rest \o new, Jump(exit)), !.temps = temps], options)

-----------------------------------------------------------------------------
(* lowerLoopIdioms.                                                         *)

MadeBefore(f, loop, idiom, facts, constants) ==
  Materialized(f, loop, idiom.args, facts, constants, LAMBDA t : LocalReadBy(t, facts) # 0)

(* The fill or copy that a loop is, as a set: its routine and what the      *)
(* routine is given.                                                        *)
FillOf(f, loop, facts, constants) ==
  LET test   == TestOf(Header(f, loop), facts, constants)
      cmp    == CHOOSE c \in test : TRUE
      l      == LocalReadBy(cmp.use[1], facts)
      latch  == CHOOSE b \in loop.latches : TRUE
      step   == CHOOSE q \in StoresTo(f, loop, l, facts) : TRUE
      init   == CHOOSE q \in StoresTo(f, [blocks |-> Listed(f) \ loop.blocks], l, facts) : TRUE
      places == {q \in UNION {{b} \X DOMAIN f.blocks[b] : b \in loop.blocks} : IsStore(f.blocks[q[1]][q[2]])} \ {step}
      at     == CHOOSE q \in places : TRUE
      store  == f.blocks[at[1]][at[2]]
      source == ScannedBase(store.use[2], l, facts)
      second == IF source = {} THEN store.use[2] ELSE CHOOSE t \in source : TRUE
      isCounter(t) == LocalReadBy(t, facts) = l
  IN  IF /\ test # {}
         /\ cmp.name = "lt"
         /\ OnlyTestLeaves(f, loop)
         /\ CountsFromZero(f, loop, l, facts, constants)
         /\ IsPlain(f.blocks[init[1]][init[2]], {WordSized})
         /\ LoadsOf(f, Listed(f) \ loop.blocks, l, facts) = {}
         /\ Cardinality(places) = 1
         /\ OnlyEffects(f, loop, {step, at})
         /\ at[1] \in facts.dom[latch]
         /\ at[1] = latch => at[2] < step[2]
         /\ IsPlain(store, Bytes)
         /\ ~isCounter(cmp.use[2]) /\ ~isCounter(second)
         /\ NothingReadAfter(f, loop)
      THEN {[callee |-> IF source = {} THEN "__cc_memset" ELSE "__cc_memcpy", args |-> <<base, second, cmp.use[2]>>] :
              base \in {t \in AddedTo(store.use[1], l, facts) : ~isCounter(t)}}
      ELSE {}

(* The routine is called when all it is given can be had before the loop. *)
FillsIn(f, loop, facts, constants) ==
  {fill \in FillOf(f, loop, facts, constants) :
     \A n \in 1..3 : MadeBefore(f, loop, fill, facts, constants).values[n] # NoTemp}
FillCalled(f, loop, fill, m, options) ==
  Replaced(f, loop, m.new \o [n \in 1..3 |-> Param(m.values[n], FALSE)] \o <<CallOf(NoTemp, fill.callee, 3, FALSE)>>,
           m.temps, options)
LowerFill(f, loop, fill, facts, constants, options) ==
  FillCalled(f, loop, fill, MadeBefore(f, loop, fill, facts, constants), options)
LowerFirstFill(f, loops, facts, constants, options) ==
  IF loops = << >> THEN f
  ELSE LowerFill(f, loops[1], CHOOSE x \in FillsIn(f, loops[1], facts, constants) : TRUE, facts, constants, options)
LowerFills(f, facts, constants, options) ==
  LowerFirstFill(f, Kept(NaturalLoops(f), LAMBDA loop : IsTested(f, loop) /\ FillsIn(f, loop, facts, constants) # {}),
                 facts, constants, options)

(* The first loop that is one. *)
LowerLoopIdioms(f, options) ==
  IF "loopIdioms" \notin options \/ Len(f.order) < 2 THEN f ELSE LowerFills(f, LoopFacts(f), ConstantTemps(f), options)

-----------------------------------------------------------------------------
(* lowerSearchIdioms.                                                       *)

(* The byte looked for can only equal a byte the element type can hold. *)
IsByteWide(t, element, facts, constants) ==
  LET def == facts.definer[t]
      low == IF element = SignedByte THEN -(Byte \div 2) ELSE 0
  IN  IF constants[t] # {} THEN Number(constants, t) \in low..(low + Byte - 1)
      ELSE /\ facts.defs[t] = 1
           /\ IsLoad(def) \/ def.name = "narrow"
           /\ def.num = element

IsSearchCounter(f, loop, l, facts, constants) ==
  /\ l # 0 /\ ~f.locals[l].volatile /\ f.locals[l].size = 4
  /\ CountsFromZero(f, loop, l, facts, constants)

(* `while (s[i] != 0) i++`: the arguments and the counter. *)
ScanOf(f, loop, facts, constants) ==
  LET test  == {c \in TestOf(Header(f, loop), facts, constants) : c.name = "ne" /\ constants[c.use[2]] = {0}}
      cmp   == CHOOSE c \in test : TRUE
      found == {l \in LocalSlots(f) : IsSearchCounter(f, loop, l, facts, constants) /\ ScannedBase(cmp.use[1], l, facts) # {}}
  IN  IF test # {} /\ OnlyTestLeaves(f, loop)
      THEN {[callee |-> "__cc_strlen", counter |-> l, args |-> <<CHOOSE t \in ScannedBase(cmp.use[1], l, facts) : TRUE>>] :
              l \in found}
      ELSE {}

(* `for (i = 0; i < n; i++) if (s[i] == c) break`. *)
SearchOf(f, loop, facts, constants) ==
  LET test   == {c \in TestOf(Header(f, loop), facts, constants) : c.name = "lt"}
      cmp    == CHOOSE c \in test : TRUE
      l      == LocalReadBy(cmp.use[1], facts)
      exit   == Header(f, loop).to[2]
      breaks == {e \in Leaving(f, loop) : e[1] # loop.header}
      edge   == CHOOSE e \in breaks : TRUE
      jump   == LastOfBlock(f, edge[1])
      equal  == {c \in TestOf(jump, facts, constants) : c.name = "eq"}
      eq     == CHOOSE c \in equal : TRUE
      side   == IF ScannedBase(eq.use[1], l, facts) # {} THEN 1 ELSE 2
  IN  IF /\ test # {}
         /\ IsSearchCounter(f, loop, l, facts, constants)
         /\ Cardinality(breaks) = 1
         /\ edge[2] = exit \/ f.blocks[edge[2]] = <<Jump(exit)>>
         /\ equal # {}
         /\ jump.to[1] = edge[2]
         /\ ScannedBase(eq.use[side], l, facts) # {}
         /\ IsByteWide(eq.use[3 - side], facts.definer[eq.use[side]].num, facts, constants)
      THEN {[callee |-> "__cc_memchr_index", counter |-> l, args |-> <<base, eq.use[3 - side], cmp.use[2]>>] :
              base \in ScannedBase(eq.use[side], l, facts)}
      ELSE {}

ScanMadeBefore(f, loop, scan, facts, constants) ==
  Materialized(f, loop, scan.args, facts, constants,
               LAMBDA t : /\ IsLoad(facts.definer[t]) /\ ~IsVolatileAccess(facts.definer[t])
                          /\ facts.address[facts.definer[t].use[1]] # 0)
ScansIn(f, loop, facts, constants) ==
  {scan \in ScanOf(f, loop, facts, constants) \cup SearchOf(f, loop, facts, constants) :
     /\ LoadsOf(f, {Header(f, loop).to[2]}, scan.counter, facts) # {}
     /\ OnlyEffects(f, loop, StoresTo(f, loop, scan.counter, facts))
     /\ NothingReadAfter(f, loop)
     /\ \A n \in DOMAIN scan.args : ScanMadeBefore(f, loop, scan, facts, constants).values[n] # NoTemp}

(* The call gives what the counter would have been. *)
ScanCalled(f, loop, scan, m, t, options) ==
  Replaced(f, loop,
           m.new \o [n \in DOMAIN m.values |-> Param(m.values[n], FALSE)]
             \o <<CallOf(t, scan.callee, Len(scan.args), FALSE), FrameAddr(t + 1, scan.counter), Store(t + 1, t, FALSE)>>,
           t + 1, options)
ScanCalledWith(f, loop, scan, m, options) == ScanCalled(f, loop, scan, m, m.temps + 1, options)
LowerScan(f, loop, scan, facts, constants, options) ==
  ScanCalledWith(f, loop, scan, ScanMadeBefore(f, loop, scan, facts, constants), options)
LowerFirstScan(f, loops, facts, constants, options) ==
  IF loops = << >> THEN f
  ELSE LowerScan(f, loops[1], CHOOSE x \in ScansIn(f, loops[1], facts, constants) : TRUE, facts, constants, options)
LowerScans(f, facts, constants, options) ==
  LowerFirstScan(f, Kept(NaturalLoops(f), LAMBDA loop : IsTested(f, loop) /\ ScansIn(f, loop, facts, constants) # {}),
                 facts, constants, options)

LowerSearchIdioms(f, options) ==
  IF "loopIdioms" \notin options \/ Len(f.order) < 2 THEN f ELSE LowerScans(f, LoopFacts(f), ConstantTemps(f), options)
=============================================================================
