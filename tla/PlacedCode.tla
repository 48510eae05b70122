----------------------------- MODULE PlacedCode -----------------------------
(***************************************************************************)
(* The code CodeGen emits for a placed function, run on a machine that     *)
(* tracks values instead of computing them: every register, frame word and *)
(* outgoing word holds a set of tokens naming the values it contains, and  *)
(* a conditional jump may go either way.  An instruction that reads a      *)
(* temporary must find that temporary's token where the placement says.    *)
(*                                                                         *)
(* The machine is not in this repository; what a call and the frame         *)
(* instructions do to it is what codegen.cpp and value_placement.h state.   *)
(***************************************************************************)
EXTENDS ValuePlacement

CONSTANTS
  ImmediateOperands,   \* -fimmediates
  CmpBranchFusion,     \* -fcmp-branch-fusion
  TailCalls,           \* -ftail-calls
  MaxImmediate         \* kMaxImmediate

VARIABLES
  holds,    \* what each cell of the machine holds
  saved     \* what pushm saved, by register
executionVars == <<holds, saved>>
vars == <<placementVars, executionVars>>

MachineRegisters == 0..12
ClobberedByCalls == (0..7) \cup {12}
kScratch     == {4, 5}                    \* kScratchA, kScratchB, and the pair x2
Reg(r)       == <<"reg", r, 0>>
Regs(rs)     == {Reg(r) : r \in rs}

(* r8-r11 are what a call keeps; neither the argument registers, r0-r3, nor *)
(* those of a pool are scratch registers.                                  *)
ASSUME ConventionAssumption ==
  /\ CalleeSaved \subseteq MachineRegisters \ ClobberedByCalls
  /\ ArgRegisterCount <= 4
  /\ ToSet(CallerSavedPool) \subseteq MachineRegisters \ kScratch

(* What the emitted code relies on: every block listed once, ending once and *)
(* leading to blocks of the function; every instruction with its operands;  *)
(* Params right before their Call; a temporary that is a word or a pair      *)
(* wherever it is defined, and a pair wherever a Param or a Return passes    *)
(* one on (ir_instr.h, IrWidePayload).  Memory is a local of the function,   *)
(* reached by its own address and no wider than it is; what is loaded is a   *)
(* temporary of its own.                                                     *)
EndsOnce(f, b) ==
  /\ f.blocks[b] \in Seq(Instrs(f)) \ {<< >>}
  /\ \A k \in DOMAIN f.blocks[b] : f.blocks[b][k].op \in Terminators <=> k = Len(f.blocks[b])

HasItsParams(f, b, k) ==
  LET count == f.blocks[b][k].num
  IN  /\ count \in 0..(k - 1)
      /\ \A j \in (k - count)..(k - 1) : f.blocks[b][j].op = "param"

(* The places of the operands an operation has. *)
OperandPlaces(op) ==
  CASE op \in {"binop", "cmp", "condjump", "store"} -> {1, 2}
    [] op \in {"const", "frameaddr", "call", "jump"} -> {}
    [] OTHER -> {1}

IsSound(f, i) ==
  /\ i.wide \in BOOLEAN
  /\ i.use \in [OperandPlaces(i.op) -> Temps(f)] \/ (i.op = "return" /\ i.use = << >>)
  /\ IF i.op \in Terminators \cup {"store", "param"} THEN i.res = NoTemp ELSE i.res \in Temps(f)
  /\ \A n \in DOMAIN i.to : i.to[n] \in Blocks(f)
  /\ i.op = "frameaddr" => i.num \in LocalSlots(f) /\ ~i.wide
  /\ i.op \in {"load", "store"} =>
       /\ \E j \in Instrs(f) : j.op = "frameaddr" /\ j.res = i.use[1]
       /\ i.wide => \A j \in Instrs(f) : j.op = "frameaddr" /\ j.res = i.use[1] => f.locals[j.num].size = 8
  /\ i.op = "load" => DefCount(f, i.res) = 1
  /\ i.res # NoTemp /\ DefinesPair(i) => \A j \in Instrs(f) : j.res = i.res => DefinesPair(j)
  /\ i.op \in {"param", "return"} /\ i.wide =>
       \A n \in DOMAIN i.use : \E j \in Instrs(f) : j.res = i.use[n] /\ DefinesPair(j)

WellFormed(f) ==
  /\ f.temps \in Nat /\ f.params \in Nat /\ f.params <= Len(f.locals)
  /\ Len(f.locals) \in Nat /\ LocalSlots(f) = 1..Len(f.locals)
  /\ f.order \in Seq(Blocks(f)) \ {<< >>} /\ IsInjective(f.order) /\ ToSet(f.order) = Blocks(f)
  /\ IsFiniteSet(PointsOf(f))
  /\ \A b \in Blocks(f) :
       /\ EndsOnce(f, b)
       /\ \A k \in DOMAIN f.blocks[b] : f.blocks[b][k].op = "call" => HasItsParams(f, b, k)
  /\ \A i \in Instrs(f) : IsSound(f, i)

ASSUME CodeAssumption == \A p \in Programs : WellFormed(Compile(p))

(* Tokens: a word of a temporary, of a local, of the caller's register, and *)
(* the address of a local.                                                 *)
Temp(t, w)   == <<"temp", t, w>>
Local(l, w)  == <<"local", l, w>>
Caller(r)    == <<"caller", r, 0>>
Address(l)   == <<"address", l, 0>>
AddressTokens == {Address(l) : l \in LocalSlots(code)}

WordsOf(wide) == IF wide THEN {0, 1} ELSE {0}

(* The cell of a placement's word w.  An argument's place is a register or  *)
(* an outgoing word.                                                       *)
HasHome(p)     == p.kind \in {"register", "alias", "slot", "out"}
WordCell(p, w) ==
  CASE p.kind = "slot" -> <<"field", p.index, w>>
    [] p.kind = "out"  -> <<"out", p.index + w, 0>>
    [] OTHER           -> Reg(p.index + w)
Found(p, w) == IF HasHome(p) THEN holds[WordCell(p, w)] ELSE {}
ArgumentHome(slot) == Placement(IF slot.kind = "stack" THEN "out" ELSE "register", slot.index, slot.wide)

(* The cells after the words `moved` went to a home, some having been lost. *)
Written(home, moved, lost) ==
  [c \in DOMAIN holds |->
     IF HasHome(home) /\ \E w \in DOMAIN moved : c = WordCell(home, w)
     THEN moved[CHOOSE w \in DOMAIN moved : c = WordCell(home, w)]
     ELSE IF c \in lost THEN {} ELSE holds[c]]

(* A value defined again: what its home received is it, nothing else is.   *)
Renewed(kind, id, home, moved, lost) ==
  LET after == Written(home, moved, lost)
      mine  == {<<kind, id, w>> : w \in DOMAIN moved}
  IN  [c \in DOMAIN after |->
         (after[c] \ mine) \cup {<<kind, id, w>> : w \in {v \in DOMAIN moved : HasHome(home) /\ c = WordCell(home, v)}}]

-----------------------------------------------------------------------------
(* What CodeGen decides before it emits a block.                           *)

Uses(t) == UseCount(code, t)
Defs(t) == DefCount(code, t)

(* immediateFor: a constant defined once, in the range every reading of a   *)
(* 16-bit field agrees on.                                                 *)
ImmediateFor(t) ==
  /\ ImmediateOperands /\ Defs(t) = 1
  /\ Some(LAMBDA i : i.op = "const" /\ ~i.wide /\ i.res = t /\ i.num \in 0..MaxImmediate)

(* collectSuppressedConstants: one that only ever is a second operand.     *)
Suppressed(t) ==
  /\ ImmediateFor(t)
  /\ ~Some(LAMBDA i : \E n \in DOMAIN i.use :
              i.use[n] = t /\ ~(i.op \in {"binop", "cmp", "condjump"} /\ ~i.wide /\ n = 2))

(* findFusableCmp: a comparison and a zero nothing but this branch reads.   *)
Fused(b, k) ==
  /\ CmpBranchFusion /\ k > 2 /\ k <= Len(code.blocks[b])
  /\ InstrAt(b, k).op = "condjump" /\ InstrAt(b, k).name = "ne"
  /\ LET zero == InstrAt(b, k - 1) cmp == InstrAt(b, k - 2)
     IN /\ zero.op = "const" /\ ~zero.wide /\ zero.num = 0 /\ zero.res = InstrAt(b, k).use[2]
        /\ cmp.op = "cmp" /\ ~cmp.wide /\ cmp.res = InstrAt(b, k).use[1]
        /\ Uses(cmp.res) = 1 /\ Uses(zero.res) = 1

Call(b, k)         == InstrAt(b, k)
ArgumentOf(b, k, n) == InstrAt(b, k - Call(b, k).num + n - 1)
ArgumentList(b, k) == [n \in 1..Call(b, k).num |-> [bank |-> "int", wide |-> ArgumentOf(b, k, n).wide]]

(* argReferencesFrame: addresses of locals and what Copy and BinOp make of  *)
(* them, in one pass over the blocks.                                      *)
Listing == FoldLeft(LAMBDA listed, b : listed \o code.blocks[b], << >>, code.order)
FrameDerived ==
  FoldLeft(LAMBDA known, i :
             IF i.op = "frameaddr" \/ (i.op \in {"copy", "binop"} /\ ~i.wide /\ Operands(i) \cap known # {})
             THEN known \cup {i.res} ELSE known, {}, Listing)

(* findTailCall.  Whether the arguments all fit in registers is asked of    *)
(* their numbering, which is at hand when the call is emitted: see         *)
(* FitsInRegisters.                                                        *)
IsTailCall(b, k) ==
  /\ TailCalls /\ k \in 1..(Len(code.blocks[b]) - 1)
  /\ Call(b, k).op = "call" /\ InstrAt(b, k + 1).op = "return"
  /\ InstrAt(b, k + 1).use = <<Call(b, k).res>> /\ InstrAt(b, k + 1).wide = Call(b, k).wide
  /\ Uses(Call(b, k).res) = 1 /\ Defs(Call(b, k).res) = 1
  /\ \A n \in 1..Call(b, k).num : ArgumentOf(b, k, n).use[1] \notin FrameDerived

(* Mutant of FitsInRegisters: arguments on the stack are not looked for.   *)
FitsAnyway == TRUE

FitsInRegisters == \A n \in DOMAIN numbering : numbering[n].kind # "stack"

(* _skipInstr, and the instructions that emit nothing. *)
EmitsNothing(b, k) ==
  LET i == InstrAt(b, k)
  IN  \/ Fused(b, k + 1) \/ Fused(b, k + 2)
      \/ i.op = "param"
      \/ i.op = "const" /\ ~i.wide /\ Suppressed(i.res)
      \/ i.op = "frameaddr" /\ temps[i.res].kind = "virtual"

(* The temporaries the code of an instruction reads; for a call they are    *)
(* read one at a time by PlaceArgument.  An address that is a local's is    *)
(* not read when the local has a register.                                 *)
SecondOperand(i) == IF ~i.wide /\ ImmediateFor(i.use[2]) THEN {} ELSE {i.use[2]}
ReadBy(b, k) ==
  LET i == IF Fused(b, k) THEN InstrAt(b, k - 2) ELSE InstrAt(b, k)
  IN  IF EmitsNothing(b, k) THEN {}
      ELSE IF i.op \in {"binop", "cmp", "condjump"} THEN {i.use[1]} \cup SecondOperand(i)
      ELSE {t \in Operands(i) : temps[t].kind # "virtual"}

-----------------------------------------------------------------------------
Tokens == {"temp", "local", "caller", "address"} \X Nat \X {0, 1}

TypeOK ==
  /\ PlacementTypeOK
  /\ phase \in PlacementPhases \cup {"settle", "run", "call", "jumped", "returned"}
  /\ phase \notin PlacementPhases => DOMAIN saved = calleeSaved /\ Regs(MachineRegisters) \subseteq DOMAIN holds
  /\ \A c \in DOMAIN holds : holds[c] \subseteq Tokens

Init ==
  /\ PlacementInit
  /\ holds = << >> /\ saved = << >>

Place == PlacementNext /\ UNCHANGED executionVars

(* pushm and enter: parameters and the caller's registers are where the     *)
(* calling convention puts them.                                           *)
ArrivedIn(r) ==
  {Local(p, r - arrival[p].index) : p \in {q \in DOMAIN arrival :
     arrival[q].kind = "int" /\ r - arrival[q].index \in WordsOf(arrival[q].wide)}}
AtEntry(r) == IF r \in CalleeSaved THEN {Caller(r)} ELSE ArrivedIn(r)

(* Outgoing words enough for any call of the function; CallBoundary has the *)
(* number that computeOutgoingSlotCount reserves.                          *)
OutgoingWords == UNION {0..(2 * InstrAt(q[1], q[2]).num - 1) : q \in {p \in Points : InstrAt(p[1], p[2]).op = "call"}}

OpenFrame ==
  /\ phase = "placed"
  /\ holds' = [c \in Regs(MachineRegisters) \cup ({"field"} \X (DOMAIN fields) \X {0, 1}) \cup ({"out"} \X OutgoingWords \X {0}) |->
                 IF c[1] = "reg" THEN AtEntry(c[2]) ELSE {}]
  /\ saved' = [r \in calleeSaved |-> AtEntry(r)]
  /\ EnterPhase("settle", 1)
  /\ UNCHANGED <<code, numberingVars, arrival, locals, temps, freeInt, calleeFree, calleeSaved, liveVars, reserved, scanVars, fields>>

placed == <<code, arrival, locals, temps, freeInt, calleeFree, calleeSaved, liveVars, reserved, scanVars, fields>>

(* One parameter after the other goes from where it arrived to its home.   *)
SettleParameter ==
  /\ phase = "settle" /\ cursor <= code.params
  /\ LET from  == arrival[cursor]
         moved == [w \in WordsOf(from.wide) |->
                     IF from.kind = "stack" THEN {Local(cursor, w)} ELSE Found(ArgumentHome(from), w)]
     IN holds' = Written(locals[cursor], moved, Regs(kScratch))
  /\ cursor' = cursor + 1
  /\ UNCHANGED <<placed, phase, numberingVars, saved>>

(* The body begins: a local that is no parameter has whatever value it has. *)
EnterBody ==
  /\ phase = "settle" /\ cursor > code.params
  /\ holds' = [c \in DOMAIN holds |-> holds[c] \cup
                 UNION {{Local(l, w) : w \in {v \in WordsOf(IsWideLocal(l)) : c = WordCell(locals[l], v)}} :
                          l \in {m \in LocalSlots(code) : ~IsParam(m) /\ HasHome(locals[m])}}]
  /\ EnterPhase("run", <<code.order[1], 1>>)
  /\ UNCHANGED <<placed, numberingVars, saved>>

-----------------------------------------------------------------------------
(* generateInstr: the instructions of a block.                             *)

Here == InstrAt(cursor[1], cursor[2])
Running == phase = "run"
Fetched(ops) == Running /\ Here.op \in ops /\ ~EmitsNothing(cursor[1], cursor[2])
ScratchCells == Regs(kScratch \cup (IF IsWideOp(Here) THEN SixAndSeven ELSE {}))
Advance == EnterPhase("run", <<cursor[1], cursor[2] + 1>>)

(* Moved words into the home of what the instruction defines. *)
Defines(moved) ==
  /\ holds' = Renewed("temp", Here.res, temps[Here.res], moved, ScratchCells)
  /\ Advance /\ UNCHANGED <<placed, numberingVars, saved>>

Pass ==
  /\ Running /\ EmitsNothing(cursor[1], cursor[2])
  /\ Advance /\ UNCHANGED <<placed, numberingVars, executionVars>>

(* A new value, which is an address if it is computed from one. *)
Compute ==
  /\ Fetched({"const", "binop", "cmp"})
  /\ LET read == UNION {Found(temps[t], 0) : t \in Operands(Here)}
     IN Defines([w \in WordsOf(DefinesPair(Here)) |-> IF Here.op = "binop" THEN read \cap AddressTokens ELSE {}])

MoveValue ==
  /\ Fetched({"copy", "widen", "truncate"})
  /\ Defines([w \in WordsOf(DefinesPair(Here)) |->
                IF Here.op = "widen" /\ w = 1 THEN {} ELSE Found(temps[Here.use[1]], w)])

TakeAddress ==
  /\ Fetched({"frameaddr"})
  /\ Defines([w \in {0} |-> {Address(Here.num)}])

(* From memory or, for a local that has a register, from there. *)
LoadLocal ==
  /\ Fetched({"load"})
  /\ Defines([w \in WordsOf(Here.wide) |-> Found(locals[FrameAddrLocal(Here.use[1])], w)])

StoreLocal ==
  /\ Fetched({"store"})
  /\ \E l \in {FrameAddrLocal(Here.use[1])} :
       holds' = Renewed("local", l, locals[l], [w \in WordsOf(Here.wide) |-> Found(temps[Here.use[2]], w)], ScratchCells)
  /\ Advance /\ UNCHANGED <<placed, numberingVars, saved>>

Branch ==
  /\ Fetched({"jump", "condjump", "tablejump"})
  /\ holds' = Written(Nowhere, << >>, ScratchCells)
  /\ \E n \in DOMAIN Here.to : EnterPhase("run", <<Here.to[n], 1>>)
  /\ UNCHANGED <<placed, numberingVars, saved>>

-----------------------------------------------------------------------------
(* Calls.  The arguments are numbered, moved one by one in order, and the   *)
(* call made: phase "call", cursor <<block, instruction, moves made>>.     *)

BeginCall ==
  /\ Fetched({"call"})
  /\ numbered' = ArgumentList(cursor[1], cursor[2]) /\ fixedArgCount' = Here.num
  /\ used' = [k \in Numbering!Kind |-> 0] /\ numbering' = << >>
  /\ EnterPhase("call", <<cursor[1], cursor[2], 0>>)
  /\ UNCHANGED <<placed, executionVars>>

NumberArgument ==
  /\ phase = "call"
  /\ Numbering!AssignOne
  /\ UNCHANGED <<placed, phase, cursor, executionVars>>

Argument(n) == ArgumentOf(cursor[1], cursor[2], n).use[1]
Setting     == phase = "call" /\ Numbering!Done
Moving      == Setting /\ cursor[3] < Here.num
Ready       == Setting /\ cursor[3] = Here.num

PlaceArgument ==
  /\ Moving
  /\ LET slot == numbering[cursor[3] + 1]
     IN holds' = Written(ArgumentHome(slot),
                         [w \in WordsOf(slot.wide) |-> Found(temps[Argument(cursor[3] + 1)], w)], Regs(kScratch))
  /\ cursor' = [cursor EXCEPT ![3] = @ + 1]
  /\ UNCHANGED <<placed, phase, numberingVars, saved>>

TailCall == IsTailCall(cursor[1], cursor[2]) /\ FitsInRegisters

(* The callee may leave anything in the caller-saved registers and in its   *)
(* arguments; the result goes from r0 or x0 to where it lives.             *)
MakeCall ==
  /\ Ready /\ ~TailCall
  /\ holds' = Renewed("temp", Here.res, temps[Here.res], [w \in WordsOf(Here.wide) |-> {}],
                       Regs(ClobberedByCalls) \cup {c \in DOMAIN holds : c[1] = "out"})
  /\ Advance /\ UNCHANGED <<placed, numberingVars, saved>>

(* leave and popm: the frame is gone, the saved registers are back. *)
FrameLeft(h) ==
  [c \in DOMAIN h |-> IF c[1] = "reg" THEN (IF c[2] \in calleeSaved THEN saved[c[2]] ELSE h[c]) ELSE {}]

(* Mutant of JumpToCallee: the saved registers are not restored. *)
JumpWithoutRestoring ==
  /\ Ready /\ TailCall
  /\ holds' = [c \in DOMAIN holds |-> IF c[1] = "reg" THEN holds[c] ELSE {}]
  /\ phase' = "jumped"
  /\ UNCHANGED <<placed, cursor, numberingVars, saved>>

(* A tail call leaves the frame first and jumps. *)
JumpToCallee ==
  /\ Ready /\ TailCall
  /\ holds' = FrameLeft(holds)
  /\ phase' = "jumped"
  /\ UNCHANGED <<placed, cursor, numberingVars, saved>>

ResultHome == Placement("register", 0, Here.wide)

LeaveFunction ==
  /\ Fetched({"return"})
  /\ holds' = FrameLeft(IF Here.use = << >> THEN holds
                        ELSE Written(ResultHome, [w \in WordsOf(Here.wide) |-> Found(temps[Here.use[1]], w)], Regs(kScratch)))
  /\ phase' = "returned"
  /\ UNCHANGED <<placed, cursor, numberingVars, saved>>

Next ==
  \/ Place
  \/ OpenFrame \/ SettleParameter \/ EnterBody
  \/ Pass \/ Compute \/ MoveValue \/ TakeAddress \/ LoadLocal \/ StoreLocal \/ Branch
  \/ BeginCall \/ NumberArgument \/ PlaceArgument \/ MakeCall \/ JumpToCallee
  \/ LeaveFunction

Spec == Init /\ [][Next]_vars /\ WF_vars(Next)

-----------------------------------------------------------------------------
(* Properties.                                                             *)

Holds(t) == \A w \in WordsOf(IsPair(t)) : Temp(t, w) \in Found(temps[t], w)
HoldsLocal(l, wide) == \A w \in WordsOf(wide) : Local(l, w) \in Found(locals[l], w)

(* Every instruction finds its operands, and every move of an argument what *)
(* it moves, where the placement put them: over every path through blocks,  *)
(* across calls, with fields and registers shared between values, whatever  *)
(* the prologue and the argument moves overwrite on the way.               *)
ReadsItsOwnValue ==
  /\ Running => \A t \in ReadBy(cursor[1], cursor[2]) : Holds(t)
  /\ Running /\ Here.op = "load" => HoldsLocal(FrameAddrLocal(Here.use[1]), Here.wide)
  /\ Moving => Holds(Argument(cursor[3] + 1))

(* At the moment control goes to the callee, by a call or by a jump from a  *)
(* frame already left, each word of each argument is where the callee looks. *)
ArgumentsInPlace ==
  Ready \/ phase = "jumped" =>
    \A n \in DOMAIN numbering : \A w \in WordsOf(numbering[n].wide) :
      Temp(Argument(n), w) \in Found(ArgumentHome(numbering[n]), w)

(* The function returns, or hands its return over, with every callee-saved  *)
(* register as its caller left it, and a result in r0 or x0.               *)
CallerRegistersBack ==
  phase \in {"returned", "jumped"} => \A r \in CalleeSaved : Caller(r) \in holds[Reg(r)]
ResultInPlace ==
  phase = "returned" =>
    \A t \in Operands(Here) : \A w \in WordsOf(Here.wide) : Temp(t, w) \in Found(ResultHome, w)
ReturnsCleanly == CallerRegistersBack /\ ResultInPlace

(* A frame is never left while an address into it is on its way to a callee *)
(* (codegen.cpp, findTailCall; the test                                    *)
(* a_call_passing_the_address_of_a_local_is_not_a_tail_call).              *)
AddressesStayInFrame ==
  phase = "jumped" => \A n \in DOMAIN numbering : Found(ArgumentHome(numbering[n]), 0) \cap AddressTokens = {}

(* "A value may only stay in a caller-saved register across a stretch with  *)
(* no `call` in it" (value_placement.h:50): what is live after a call is in  *)
(* none of the registers the call clobbers.                                *)
CallerSavedEndAtCalls ==
  Ready /\ ~TailCall =>
    \A t \in LiveAfter(cursor[1], cursor[2]) \ {Here.res} : CellsOf(temps[t]) \cap ClobberedByCalls = {}

(* PlacementKind::Register: a value "lives in `index` of its own bank for as *)
(* long as it is live" (value_placement.h:68).                             *)
LivesInItsRegister ==
  Running /\ cursor[2] > 1 =>
    \A t \in LiveAfter(cursor[1], cursor[2] - 1) : temps[t].kind = "register" => Holds(t)

-----------------------------------------------------------------------------
(* What the placement takes for granted of a function's values, and what the *)
(* theorems of PlacedCodeProofs ask of them.  A value that breaks it may be  *)
(* lost.                                                                   *)

(* The liveness pass is over. *)
PastLiveness == phase \notin {"arrival", "locals", "liveness"}

(* The value is defined more than once or wanted by another block. *)
LivesAcross(t) == DefCount(code, t) # 1 \/ \E b \in Blocks(code) : t \in liveOut[b]

(* What lives across blocks is wanted at the end of each block defining it:  *)
(* "reserved" is filled from the blocks where a value is live and no other.  *)
DefinitionsReachTheEnd ==
  PastLiveness =>
    \A q \in Points : LET t == InstrAt(q[1], q[2]).res
                      IN  t # NoTemp /\ LivesAcross(t) => t \in liveOut[q[1]]

(* What lives across blocks and is live after a call spans one in the order  *)
(* of emission, where the pass looks for calls.                             *)
CallsAreSpanned ==
  PastLiveness =>
    \A q \in Points : InstrAt(q[1], q[2]).op = "call" =>
      \A t \in LiveAfter(q[1], q[2]) \ {InstrAt(q[1], q[2]).res} : LivesAcross(t) => SpansCall(t)

(* A function begins with nothing live but its parameters, which are locals. *)
NothingLiveAtEntry == PastLiveness => liveIn[code.order[1]] = {}

ValuesFlowForward == DefinitionsReachTheEnd /\ CallsAreSpanned /\ NothingLiveAtEntry
=============================================================================
