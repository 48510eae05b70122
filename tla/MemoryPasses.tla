---------------------------- MODULE MemoryPasses ----------------------------
(***************************************************************************)
(* The optimizer's passes on copies, loads, stores and what nothing reads.  *)
(* Functions with the attributes pure and const are left out.               *)
(***************************************************************************)
EXTENDS IrPass

(* propagateCopies: a temporary that is a copy, by its one definition, of   *)
(* another with one definition, is read as that one.                        *)
RECURSIVE Ultimate(_, _, _)
Ultimate(source, t, steps) ==
  IF steps = 0 \/ t \notin DOMAIN source THEN t ELSE Ultimate(source, source[t], steps - 1)

PropagateCopies(f, options) ==
  LET defs   == DefCounts(f)
      add(m, instr) == IF IsCopy(instr) /\ defs[instr.res] = 1 /\ defs[instr.use[1]] = 1
                       THEN Mapping(m, instr.res, instr.use[1]) ELSE m
      source == Scan(add, << >>, Listing(f))
      to     == [t \in DOMAIN source |-> Ultimate(source, t, 17)]
  IN  IF "copyPropagation" \notin options \/ to = << >> THEN f
      ELSE [f EXCEPT !.blocks = [b \in DOMAIN @ |-> [n \in DOMAIN @[b] |-> Renamed(@[b][n], to)]]]

-----------------------------------------------------------------------------
(* Store-to-load forwarding: what each local is known to hold, within a     *)
(* block.                                                                   *)

(* The access moves as many bytes as the slot has. *)
IsFullWidth(instr, slot) == instr.num = WordSized <=> slot.size # 1

NoneKnown(s, b) == [s EXCEPT !.known = << >>]
Forget(s, l)    == [s EXCEPT !.known = [x \in DOMAIN @ \ {l} |-> @[x]]]

Remember(s, l, t) == [s EXCEPT !.known = Mapping(@, l, t)]

ForwardStep(s, instr, l, volatile, full) ==
  CASE IsStore(instr) /\ l # 0 /\ ~volatile /\ full -> Remember(Emit(s, instr), l, instr.use[2])
    [] IsStore(instr) /\ l # 0 /\ (volatile \/ ~full) -> Forget(Emit(s, instr), l)
    [] IsLoad(instr) /\ l \in DOMAIN s.known /\ ~volatile /\ full -> Emit(s, Copy(instr.res, s.known[l], FALSE))
    [] OTHER -> Emit(s, instr)

(* The local an access goes to when its address never escapes, 0 for none. *)
TrackedLocal(instr, address, tracked) ==
  IF (IsLoad(instr) \/ IsStore(instr)) /\ address[instr.use[1]] \in tracked THEN address[instr.use[1]] ELSE 0
IsVolatileIn(f, instr, l) == l # 0 /\ (f.locals[l].volatile \/ IsVolatileAccess(instr))
ForwardOn(f, s, instr, l) == ForwardStep(s, instr, l, IsVolatileIn(f, instr, l), l # 0 /\ IsFullWidth(instr, f.locals[l]))
ForwardLoadsOf(f, address, tracked) ==
  Rewriting(f, << >>, NoneKnown, LAMBDA s, instr : ForwardOn(f, s, instr, TrackedLocal(instr, address, tracked)))
ForwardLoads(f, options) ==
  IF "loadForwarding" \in options THEN ForwardLoadsOf(f, FrameAddrTemps(f), NonEscapingLocals(f)) ELSE f

(* forwardRestrictLoads: what was last stored through each restrict         *)
(* pointer local.                                                           *)
RestrictStep(s, instr, l) ==
  CASE IsStore(instr) /\ l = 0 -> NoneKnown(Emit(s, instr), 0)
    [] IsStore(instr) /\ l # 0 /\ IsVolatileAccess(instr) -> Forget(Emit(s, instr), l)
    [] IsStore(instr) /\ l # 0 /\ ~IsVolatileAccess(instr) ->
         Remember(Emit(s, instr), l, [value |-> instr.use[2], word |-> instr.num = WordSized])
    [] IsLoad(instr) /\ l \in DOMAIN s.known /\ ~IsVolatileAccess(instr) /\ s.known[l].word = (instr.num = WordSized) ->
         Emit(s, Copy(instr.res, s.known[l].value, FALSE))
    [] instr.op = "call" \/ (instr.op = "store" /\ instr.wide) -> NoneKnown(Emit(s, instr), 0)
    [] OTHER -> Emit(s, instr)

(* The local each temporary was loaded from, by its last definition. *)
LoadedFrom(f, address) ==
  Scan(LAMBDA m, instr : IF instr.res = NoTemp THEN m
                         ELSE [m EXCEPT ![instr.res] = IF IsLoad(instr) THEN address[instr.use[1]] ELSE 0],
       [t \in Temps(f) |-> 0], Listing(f))
RestrictLocalOf(f, instr, pointer) ==
  IF (IsLoad(instr) \/ IsStore(instr)) /\ pointer[instr.use[1]] # 0 /\ f.locals[pointer[instr.use[1]]].restrict
  THEN pointer[instr.use[1]] ELSE 0
ForwardRestrictOf(f, pointer) ==
  Rewriting(f, << >>, NoneKnown, LAMBDA s, instr : RestrictStep(s, instr, RestrictLocalOf(f, instr, pointer)))
ForwardRestrictLoads(f, options) ==
  IF "loadForwarding" \in options THEN ForwardRestrictOf(f, LoadedFrom(f, FrameAddrTemps(f))) ELSE f

-----------------------------------------------------------------------------
(* eliminateDeadStores: a store to a local that nothing ever loads, or that *)
(* a later store of the block overwrites before a load.                     *)
LocalsRead(f, address) ==
  Scan(LAMBDA set, instr : IF IsLoad(instr) THEN set \cup {address[instr.use[1]]} ELSE set, {}, Listing(f))

(* What a block does to tracked locals: for each instruction the local it   *)
(* accesses, whether it stores to it and whether to all of it.              *)
AccessOf(f, instr, l) ==
  [local |-> l,
   store |-> IsStore(instr) /\ l # 0 /\ ~IsVolatileIn(f, instr, l),
   load  |-> IsLoad(instr),
   full  |-> l # 0 /\ IsFullWidth(instr, f.locals[l])]
AccessesOf(f, instrs, address, tracked) ==
  [n \in DOMAIN instrs |-> AccessOf(f, instrs[n], TrackedLocal(instrs[n], address, tracked))]
IsNeeded(a) == a.load \/ (a.store /\ ~a.full)                     \* the store before it is needed
IsOverwritten(accesses, n) ==
  \E m \in (n + 1)..Len(accesses) :
    /\ accesses[m].store /\ accesses[m].local = accesses[n].local /\ accesses[m].full
    /\ \A k \in (n + 1)..(m - 1) : accesses[k].local = accesses[n].local => ~IsNeeded(accesses[k])
IsDeadStore(accesses, n, everRead) ==
  accesses[n].store /\ (accesses[n].local \notin everRead \/ (accesses[n].full /\ IsOverwritten(accesses, n)))
WithoutDeadStores(instrs, accesses, everRead) ==
  Scan(LAMBDA out, n : IF IsDeadStore(accesses, n, everRead) THEN out ELSE Append(out, instrs[n]),
       << >>, [n \in DOMAIN instrs |-> n])
DeadStoresOf(f, address, tracked, everRead) ==
  [f EXCEPT !.blocks = [b \in DOMAIN f.blocks |->
     WithoutDeadStores(f.blocks[b], AccessesOf(f, f.blocks[b], address, tracked), everRead)]]
EliminateDeadStores(f, options) ==
  IF "deadStoreElimination" \in options
  THEN DeadStoresOf(f, FrameAddrTemps(f), NonEscapingLocals(f), LocalsRead(f, FrameAddrTemps(f))) ELSE f

MaxRounds == 8     \* kMaxRounds

(* eliminateDeadCode: what is pure and read by nothing, again and again. *)
RECURSIVE DropUnread(_, _)
DropUnread(f, rounds) ==
  LET reads(set, instr) == set \cup Operands(instr)
      read == Scan(reads, {}, Listing(f))
      live(instr) == ~IsPure(instr) \/ instr.res \in read
      next == [f EXCEPT !.blocks = [b \in DOMAIN @ |-> Kept(@[b], live)]]
  IN  IF rounds = 0 \/ next = f THEN f ELSE DropUnread(next, rounds - 1)
EliminateDeadCode(f, options) == IF "deadCodeElimination" \in options THEN DropUnread(f, MaxRounds) ELSE f

(* removeUnusedFunctions: a static function stays only when a chain of      *)
(* calls, or of addresses taken, leads to it from one that is not.          *)
NamesIn(f) ==
  LET add(set, instr) == IF instr.op \in {"call", "globaladdr"} THEN set \cup {instr.name} ELSE set
  IN  Scan(add, {}, Listing(f))
RECURSIVE ReachedFrom(_, _)
ReachedFrom(unit, names) ==
  LET next == names \cup (UNION {NamesIn(unit[n]) : n \in names} \cap DOMAIN unit)
  IN  IF next = names THEN names ELSE ReachedFrom(unit, next)
RemoveUnusedFunctions(unit, options) ==
  LET roots == {n \in DOMAIN unit : n = "main" \/ ~unit[n].static}
  IN  IF "unusedFunctionElimination" \in options
      THEN [n \in ReachedFrom(unit, roots) |-> unit[n]] ELSE unit
=============================================================================
