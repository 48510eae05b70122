-------------------------- MODULE PlacedCodeProofs --------------------------
(***************************************************************************)
(* The emitted code, proved for every well-formed function, every choice of *)
(* the two register pools and every path it takes: its caller gets its       *)
(* registers back, arguments and results are where they are looked for, and  *)
(* every instruction finds its operands where the placement put them.        *)
(*                                                                         *)
(* The last is the soundness of register allocation.  The invariant says     *)
(* that wherever the code has come to, each value an instruction may still   *)
(* find is in its home; a step can break that only by writing to the home of *)
(* a value that is wanted, and what the placement proves is that it does not.*)
(***************************************************************************)
EXTENDS ValuePlacementProofs

-----------------------------------------------------------------------------
(* The numbering of the parameters, and of the arguments of each call.     *)

LEMMA InitNumbered == PlacementInit => NumberedInv /\ CursorInv
<1>. SUFFICES ASSUME PlacementInit PROVE NumberedInv /\ CursorInv
  OBVIOUS
<1>1. phase = "arrival" /\ numbered = ParamList(code) /\ fixedArgCount = code.params
  BY DEF PlacementInit
<1>2. HomesInv
  BY InitHomes
<1>3. ParamList(code) \in Seq(SlotArg) /\ Len(ParamList(code)) = code.params
  BY <1>2, ParamsAreLocals
<1>4. Slots!Init
  <2>1. used = [k \in Numbering!Kind |-> 0] /\ numbering = << >>
    BY DEF PlacementInit
  <2>2. fixedArgCount \in 0..Len(numbered)
    BY <1>1, <1>3
  <2>. QED  BY <1>1, <1>3, <2>1, <2>2 DEF SlotArg, Slots!Init, Slots!Kind, Slots!Bank, Numbering!Kind, Numbering!Bank
<1>5. Slots!IInv
  BY <1>4, SlotsAssumption, Slots!InitIInv
<1>. QED  BY <1>1, <1>5 DEF NumberedInv, CursorInv

LEMMA PlacementNumbers ==
  ASSUME HomesInv, NumberedInv, CursorInv, PlacementNext
  PROVE  NumberedInv' /\ CursorInv'
<1>1. code' = code
  BY DEF PlacementNext, NumberParameter, FinishArrival, PlaceLocal, PlaceAddresses, UpdateLiveness, PlaceAliases,
         PlaceCrossing, FinishCrossing, OpenBlock, Release, Grant, CloseBlock, FinishScan, PlaceLocalField,
         PlaceTempField, FinishPlacement
<1>2. \A l : IsWideLocal(l)' = IsWideLocal(l)
  BY <1>1, CodeKept
<1>3. CASE NumberParameter
  <2>1. phase = "arrival" /\ phase' = "arrival" /\ Numbering!AssignOne
    BY <1>3 DEF NumberParameter
  <2>2. Slots!IInv' /\ numbered' = numbered
    BY <2>1, SlotsGoOn DEF NumberedInv, Numbering!AssignOne, Numbering!AssignTail, Numbering!AssignRegister, Numbering!AssignStack
  <2>. QED  BY <1>1, <2>1, <2>2 DEF NumberedInv, CursorInv, ParamList
<1>4. CASE FinishArrival
  <2>1. phase = "arrival" /\ Numbering!Done /\ arrival' = numbering /\ phase' \in {"locals", "fields"}
    BY <1>4 DEF FinishArrival, EnterPhase
  <2>2. numbered = ParamList(code) /\ Slots!IInv /\ Len(numbering) = code.params
    BY <2>1, ParamsAreLocals DEF NumberedInv, Numbering!Done
  <2>3. numbering \in Seq(Slots!ArgSlot) /\ \A p \in DOMAIN numbering : numbering[p].wide = numbered[p].wide
    BY <2>2 DEF Slots!IInv, Slots!TypeOK, Slots!SlotsMatch
  <2>4. \A p \in 1..code.params : numbering[p].wide = IsWideLocal(p)
    BY <2>2, <2>3, ParamsAreLocals
  <2>. QED  BY <1>1, <1>2, <2>1, <2>4 DEF NumberedInv, CursorInv
<1>5. CASE ~(NumberParameter \/ FinishArrival)
  <2>1. phase # "arrival" /\ phase' \notin {"arrival", "settle", "run", "call"} /\ arrival' = arrival
    BY <1>5 DEF PlacementNext, PlaceLocal, PlaceAddresses, UpdateLiveness, PlaceAliases,
         PlaceCrossing, FinishCrossing, OpenBlock, Release, Grant, CloseBlock, FinishScan, PlaceLocalField,
         PlaceTempField, FinishPlacement, EnterPhase, InScan
  <2>. QED  BY <1>1, <1>2, <2>1 DEF NumberedInv, CursorInv
<1>. QED  BY <1>3, <1>4, <1>5

(* The steps that stay in the block they are in. *)
Straight == Pass \/ Compute \/ MoveValue \/ TakeAddress \/ LoadLocal \/ StoreLocal

LEMMA StraightGoesOn ==
  ASSUME HomesInv, CursorInv, Straight
  PROVE  /\ phase = "run" /\ phase' = "run"
         /\ \E b, k : cursor = <<b, k>> /\ cursor' = <<b, k + 1>> /\ IsPoint(b, k) /\ IsPoint(b, k + 1)
<1>1. phase = "run" /\ Advance
  BY DEF Straight, Pass, Compute, MoveValue, TakeAddress, LoadLocal, StoreLocal, Defines, Fetched, Running
<1>2. PICK b, k : cursor = <<b, k>> /\ IsPoint(b, k)
  BY <1>1 DEF CursorInv
<1>3. phase' = "run" /\ cursor' = <<b, k + 1>>
  BY <1>1, <1>2 DEF Advance, EnterPhase
<1>4. IsPoint(b, k + 1)
  <2>1. CASE Pass
    BY <1>2, <2>1, PassesOn DEF Pass
  <2>2. CASE ~Pass
    <3>1. Here.op \notin Terminators
      BY <2>2 DEF Straight, Compute, MoveValue, TakeAddress, LoadLocal, StoreLocal, Fetched, Terminators
    <3>2. InstrAt(b, k).op \notin Terminators
      BY <1>2, <3>1 DEF Here
    <3>. QED  BY <1>2, <3>2, NextPoint
  <2>. QED  BY <2>1, <2>2
<1>. QED  BY <1>1, <1>2, <1>3, <1>4

LEMMA BranchArrives ==
  ASSUME HomesInv, CursorInv, Branch
  PROVE  /\ phase = "run" /\ phase' = "run"
         /\ \E b : cursor' = <<b, 1>> /\ IsPoint(b, 1)
<1>1. phase = "run"
  BY DEF Branch, Fetched, Running
<1>2. PICK b, k : cursor = <<b, k>> /\ IsPoint(b, k)
  BY <1>1 DEF CursorInv
<1>3. PICK n \in DOMAIN Here.to : phase' = "run" /\ cursor' = <<Here.to[n], 1>>
  BY DEF Branch, EnterPhase
<1>4. Here.to[n] \in Blocks(code)
  BY <1>2, PointFacts DEF Here, IsSound
<1>. QED  BY <1>1, <1>3, <1>4, BlockBegins

(* At a call: its arguments are numbered, then moved, then it is made. *)
LEMMA CallFacts ==
  ASSUME HomesInv, CursorInv, phase = "call"
  PROVE  \E b, k, n : /\ cursor = <<b, k, n>> /\ IsPoint(b, k) /\ Here = InstrAt(b, k) /\ Here.op = "call"
                      /\ Here.num \in Nat /\ n \in 0..Here.num /\ (n > 0 => Numbering!Done)
                      /\ numbered = ArgumentList(b, k) /\ Len(numbered) = Here.num
                      /\ \A m : Argument(m) = ArgumentOf(b, k, m).use[1]
<1>1. PICK b, k, n : /\ cursor = <<b, k, n>> /\ IsPoint(b, k) /\ InstrAt(b, k).op = "call"
                     /\ n \in 0..InstrAt(b, k).num /\ (n > 0 => Numbering!Done)
                     /\ numbered = ArgumentList(b, k)
  BY DEF CursorInv
<1>2. Here = InstrAt(b, k)
  BY <1>1 DEF Here
<1>3. \A m : Argument(m) = ArgumentOf(b, k, m).use[1]
  BY <1>1 DEF Argument
<1>4. InstrAt(b, k).num \in Nat /\ Len(ArgumentList(b, k)) = InstrAt(b, k).num
  BY <1>1, CallList
<1>. QED  BY <1>1, <1>2, <1>3, <1>4

LEMMA EmissionNumbers ==
  ASSUME HomesInv, NumberedInv, CursorInv, Emission
  PROVE  NumberedInv' /\ CursorInv'
<1>1. code' = code
  BY EmissionKeepsPlacement
<1>2. \A l : IsWideLocal(l)' = IsWideLocal(l)
  BY <1>1, CodeKept
<1>3. \A b, k : IsPoint(b, k)' = IsPoint(b, k) /\ InstrAt(b, k)' = InstrAt(b, k) /\ ArgumentList(b, k)' = ArgumentList(b, k)
  BY <1>1 DEF IsPoint, InstrAt, ArgumentList, Call, ArgumentOf, Blocks
<1>4. arrival' = arrival /\ phase # "arrival"
  BY DEF Emission, OpenFrame, SettleParameter, EnterBody, Pass, Compute, MoveValue, TakeAddress, LoadLocal, StoreLocal, Branch,
         BeginCall, NumberArgument, PlaceArgument, MakeCall, JumpToCallee, LeaveFunction, Defines, Fetched, Running,
         Ready, Moving, Setting, placed
<1>5. \A p \in 1..code'.params : arrival'[p].wide = IsWideLocal(p)'
  BY <1>1, <1>2, <1>4 DEF NumberedInv
<1>6. ASSUME phase' \in {"settle", "run", "jumped", "returned"}, phase' = "settle" => cursor' \in Nat \ {0},
             phase' = "run" => \E b, k : cursor' = <<b, k>> /\ IsPoint(b, k)
      PROVE  NumberedInv' /\ CursorInv'
  BY <1>3, <1>5, <1>6 DEF NumberedInv, CursorInv
<1>7. CASE OpenFrame
  BY <1>6, <1>7 DEF OpenFrame, EnterPhase
<1>8. CASE SettleParameter
  <2>1. phase = "settle" /\ phase' = "settle" /\ cursor' = cursor + 1
    BY <1>8 DEF SettleParameter
  <2>. QED  BY <1>6, <2>1 DEF CursorInv
<1>9. CASE EnterBody
  <2>1. phase' = "run" /\ cursor' = <<code.order[1], 1>>
    BY <1>9 DEF EnterBody, EnterPhase
  <2>2. code.order[1] \in Blocks(code)
    BY DEF HomesInv, WellFormed
  <2>. QED  BY <1>6, <2>1, <2>2, BlockBegins
<1>10. CASE Straight
  BY <1>6, <1>10, StraightGoesOn
<1>11. CASE Branch
  BY <1>6, <1>11, BranchArrives
<1>12. CASE BeginCall
  <2>1. phase = "run" /\ Here.op = "call"
    BY <1>12 DEF BeginCall, Fetched, Running
  <2>2. PICK b, k : cursor = <<b, k>> /\ IsPoint(b, k)
    BY <2>1 DEF CursorInv
  <2>3. Here = InstrAt(b, k)
    BY <2>2 DEF Here
  <2>4. /\ phase' = "call" /\ cursor' = <<b, k, 0>> /\ numbered' = ArgumentList(b, k) /\ fixedArgCount' = Here.num
        /\ used' = [j \in Numbering!Kind |-> 0] /\ numbering' = << >>
    BY <1>12, <2>2 DEF BeginCall, EnterPhase
  <2>5. InstrAt(b, k).num \in Nat /\ ArgumentList(b, k) \in Seq(SlotArg) /\ Len(ArgumentList(b, k)) = InstrAt(b, k).num
    BY <2>1, <2>2, <2>3, CallList
  <2>6. Slots!IInv'
    BY <2>3, <2>4, <2>5, SlotsStart
  <2>7. OutgoingBound'
    BY <2>4 DEF OutgoingBound, Numbering!Kind
  <2>8. CursorInv'
    BY <1>3, <2>1, <2>2, <2>3, <2>4, <2>5 DEF CursorInv
  <2>. QED  BY <1>5, <2>4, <2>6, <2>7, <2>8 DEF NumberedInv
<1>13. CASE NumberArgument
  <2>1. phase = "call" /\ phase' = "call" /\ cursor' = cursor /\ Numbering!AssignOne
    BY <1>13 DEF NumberArgument
  <2>2. Slots!IInv /\ OutgoingBound
    BY <2>1 DEF NumberedInv
  <2>3. Slots!IInv' /\ OutgoingBound'
    BY <2>1, <2>2, SlotsGoOn, OutgoingGoesOn
  <2>4. PICK b, k, n : /\ cursor = <<b, k, n>> /\ IsPoint(b, k) /\ InstrAt(b, k).op = "call"
                       /\ n \in 0..InstrAt(b, k).num /\ (n > 0 => Numbering!Done)
                       /\ numbered = ArgumentList(b, k)
    BY <2>1 DEF CursorInv
  <2>5. numbered' = numbered /\ Numbering!i \in DOMAIN numbered
    BY <2>1 DEF Numbering!AssignOne, Numbering!AssignTail, Numbering!AssignRegister, Numbering!AssignStack
  <2>6. ~Numbering!Done
    BY <2>2, <2>5 DEF Numbering!Done, Numbering!i, Slots!IInv, Slots!TypeOK
  <2>7. n = 0
    BY <2>4, <2>6, CallList
  <2>8. CursorInv'
    BY <1>3, <2>1, <2>4, <2>5, <2>7 DEF CursorInv
  <2>. QED  BY <1>5, <2>1, <2>3, <2>8 DEF NumberedInv
<1>14. CASE PlaceArgument
  <2>1. phase = "call" /\ phase' = "call" /\ UNCHANGED numberingVars /\ Numbering!Done /\ cursor[3] < Here.num
    BY <1>14 DEF PlaceArgument, Moving, Setting
  <2>2. PICK b, k, n : /\ cursor = <<b, k, n>> /\ IsPoint(b, k) /\ Here = InstrAt(b, k) /\ Here.op = "call"
                       /\ Here.num \in Nat /\ n \in 0..Here.num /\ numbered = ArgumentList(b, k)
    BY <2>1, CallFacts
  <2>3. cursor' = <<b, k, n + 1>>
    BY <1>14, <2>2 DEF PlaceArgument
  <2>4. n + 1 \in 0..Here.num
    BY <2>1, <2>2
  <2>5. Numbering!Done' /\ numbered' = numbered
    BY <2>1 DEF Numbering!Done, numberingVars
  <2>6. CursorInv'
    BY <1>3, <2>1, <2>2, <2>3, <2>4, <2>5 DEF CursorInv
  <2>7. Slots!IInv' /\ OutgoingBound'
    <3>1. Slots!IInv'
      BY <2>1, SlotsStay DEF NumberedInv
    <3>. QED  BY <2>1, <3>1 DEF NumberedInv, OutgoingBound, numberingVars
  <2>. QED  BY <1>5, <2>1, <2>6, <2>7 DEF NumberedInv
<1>15. CASE MakeCall
  <2>1. phase = "call" /\ Advance
    BY <1>15 DEF MakeCall, Ready, Setting
  <2>2. PICK b, k, n : cursor = <<b, k, n>> /\ IsPoint(b, k) /\ Here = InstrAt(b, k) /\ Here.op = "call"
    BY <2>1, CallFacts
  <2>3. phase' = "run" /\ cursor' = <<b, k + 1>>
    BY <2>1, <2>2 DEF Advance, EnterPhase
  <2>4. IsPoint(b, k + 1)
    BY <2>2, NextPoint DEF Terminators
  <2>. QED  BY <1>6, <2>3, <2>4
<1>16. CASE JumpToCallee \/ LeaveFunction
  BY <1>6, <1>16 DEF JumpToCallee, LeaveFunction
<1>. QED  BY <1>7, <1>8, <1>9, <1>10, <1>11, <1>12, <1>13, <1>14, <1>15, <1>16 DEF Emission, Straight

LEMMA NumbersStay ==
  ASSUME HomesInv, NumberedInv, CursorInv, UNCHANGED vars
  PROVE  NumberedInv' /\ CursorInv'
<1>1. code' = code /\ phase' = phase /\ cursor' = cursor /\ UNCHANGED numberingVars /\ arrival' = arrival
  BY DEF vars, placementVars
<1>2. \A l : IsWideLocal(l)' = IsWideLocal(l)
  BY <1>1, CodeKept
<1>3. Slots!IInv => Slots!IInv'
  BY <1>1, SlotsStay
<1>4. UNCHANGED <<numbered, numbering, used>>
  BY <1>1 DEF numberingVars
<1>5. NumberedInv'
  BY <1>1, <1>2, <1>3, <1>4 DEF NumberedInv, OutgoingBound, ParamList
<1>6. \A b, k : IsPoint(b, k)' = IsPoint(b, k) /\ InstrAt(b, k)' = InstrAt(b, k) /\ ArgumentList(b, k)' = ArgumentList(b, k)
  BY <1>1 DEF IsPoint, InstrAt, ArgumentList, Call, ArgumentOf, Blocks
<1>. QED  BY <1>1, <1>4, <1>5, <1>6 DEF CursorInv, Numbering!Done

(* The inductive invariant under the emitted code: where homes are, where   *)
(* the code is, and what the numbering of the moment means.                *)
RunInv == IInv /\ HomesInv /\ NumberedInv /\ CursorInv

(* Every step leaves the code at an instruction, correctly numbered. *)
LEMMA NextRunInv == RunInv /\ [Next]_vars => RunInv'
<1>. SUFFICES ASSUME RunInv, [Next]_vars PROVE RunInv'
  OBVIOUS
<1>1. IInv' /\ HomesInv'
  BY NextIInv, NextHomes DEF RunInv
<1>2. CASE Place
  BY <1>1, <1>2, PlacementNumbers DEF Place, RunInv
<1>3. CASE Emission
  BY <1>1, <1>3, EmissionNumbers DEF RunInv
<1>4. CASE UNCHANGED vars
  BY <1>1, <1>4, NumbersStay DEF RunInv
<1>. QED  BY <1>2, <1>3, <1>4 DEF Next, Emission

-----------------------------------------------------------------------------
(* The frame: the caller's registers while the function runs.               *)

(* The registers no one has taken of those a call keeps. *)
Spared == CalleeSaved \ calleeSaved

(* The phases in which the frame is open. *)
Underway == {"settle", "run", "call"}

(* While the function runs the caller's values are in the save area or      *)
(* where they were; the frame's cells are all there.                       *)
FrameInv ==
  phase \in Underway =>
    /\ DOMAIN saved = calleeSaved
    /\ \A r \in calleeSaved \cap CalleeSaved : Caller(r) \in saved[r]
    /\ \A r \in MachineRegisters : Reg(r) \in DOMAIN holds
    /\ \A n \in OutgoingWords : <<"out", n, 0>> \in DOMAIN holds
    /\ \A r \in Spared : Caller(r) \in holds[Reg(r)]

(* Words that can be moved to a home without touching a spared register.   *)
Harmless(home, moved) ==
  HasHome(home) => \A w \in DOMAIN moved : \A r \in Spared : WordCell(home, w) # Reg(r)

(* Nothing a caller relies on is lost. *)
SparesAll(lost) == \A r \in CalleeSaved : Reg(r) \notin lost

(* A cell that is not written keeps what it has. *)
LEMMA WrittenElsewhere ==
  ASSUME NEW home, NEW moved, NEW lost, NEW c \in DOMAIN holds, c \notin lost,
         HasHome(home) => \A w \in DOMAIN moved : c # WordCell(home, w)
  PROVE  Written(home, moved, lost)[c] = holds[c]
BY DEF Written

LEMMA WrittenSpares ==
  ASSUME NEW home, NEW moved, NEW lost, Harmless(home, moved), SparesAll(lost),
         NEW r \in Spared, Reg(r) \in DOMAIN holds, Caller(r) \in holds[Reg(r)]
  PROVE  Caller(r) \in Written(home, moved, lost)[Reg(r)]
<1>1. Reg(r) \notin lost
  BY DEF SparesAll, Spared
<1>2. Written(home, moved, lost)[Reg(r)] = holds[Reg(r)]
  BY <1>1, WrittenElsewhere DEF Harmless
<1>. QED  BY <1>2

LEMMA RenewedSpares ==
  ASSUME NEW kind \in {"temp", "local"}, NEW id,
         NEW home, NEW moved, NEW lost, Harmless(home, moved), SparesAll(lost),
         NEW r \in Spared, Reg(r) \in DOMAIN holds, Caller(r) \in holds[Reg(r)]
  PROVE  Caller(r) \in Renewed(kind, id, home, moved, lost)[Reg(r)]
<1>1. Caller(r) \in Written(home, moved, lost)[Reg(r)]
  BY WrittenSpares
<1>2. DOMAIN Written(home, moved, lost) = DOMAIN holds
  BY DEF Written
<1>3. Caller(r) \notin {<<kind, id, w>> : w \in DOMAIN moved}
  BY DEF Caller
<1>. QED  BY <1>1, <1>2, <1>3 DEF Renewed

LEMMA DomainsKept ==
  ASSUME NEW kind, NEW id, NEW home, NEW moved, NEW lost
  PROVE  /\ DOMAIN Written(home, moved, lost) = DOMAIN holds
         /\ DOMAIN Renewed(kind, id, home, moved, lost) = DOMAIN holds
BY DEF Written, Renewed

(* A home whose registers the prologue saved is harmless to write. *)
LEMMA SavedHomes ==
  ASSUME NEW p, Saves(p), NEW moved,
         DOMAIN moved \subseteq {0, 1},
         p.kind \in {"register", "alias"} => p.index \in Nat /\ (1 \in DOMAIN moved => p.pair)
  PROVE  Harmless(p, moved)
<1>. SUFFICES ASSUME HasHome(p), NEW w \in DOMAIN moved, NEW r \in Spared PROVE WordCell(p, w) # Reg(r)
  BY DEF Harmless
<1>1. CASE p.kind \in {"slot", "out"}
  BY <1>1 DEF WordCell, Reg
<1>2. CASE p.kind \in {"register", "alias"}
  <2>1. r \notin HomeCells(p)
    BY DEF Saves, Spared
  <2>2. r \in Nat
    BY ConventionFacts DEF Spared, MachineRegisters
  <2>3. WordCell(p, w) = Reg(p.index + w)
    BY <1>2 DEF WordCell
  <2>4. p.index + w # r
    <3>1. CASE w = 1
      <4>1. p.pair
        BY <1>2, <3>1
      <4>. QED  BY <1>2, <2>1, <3>1, <4>1 DEF HomeCells, Cells
    <3>2. CASE w = 0
      <4>1. r # p.index
        BY <1>2, <2>1 DEF HomeCells, Cells
      <4>. QED  BY <1>2, <2>2, <3>2, <4>1
    <3>. QED  BY <3>1, <3>2
  <2>. QED  BY <2>3, <2>4, ConventionFacts
<1>. QED  BY <1>1, <1>2 DEF HasHome

(* A step keeps the frame if it keeps what is spared. *)
LEMMA FrameStep ==
  ASSUME FrameInv, phase \in Underway, UNCHANGED <<code, calleeSaved, saved>>,
         DOMAIN holds' = DOMAIN holds, \A r \in Spared : Caller(r) \in holds'[Reg(r)]
  PROVE  FrameInv'
<1>1. OutgoingWords' = OutgoingWords
  BY DEF OutgoingWords, Points, PointsOf, InstrAt, Blocks
<1>2. Spared' = Spared
  BY DEF Spared
<1>. QED  BY <1>1, <1>2 DEF FrameInv

(* A register not yet taken holds the caller's value. *)
LEMMA SparedIsThere ==
  ASSUME FrameInv, phase \in Underway, NEW r \in Spared
  PROVE  Reg(r) \in DOMAIN holds /\ Caller(r) \in holds[Reg(r)]
BY ConventionFacts DEF FrameInv, Spared

(* No scratch register and none a call clobbers is callee-saved. *)
LEMMA ScratchIsNoCallers ==
  /\ SparesAll(Regs(kScratch)) /\ SparesAll(ScratchCells) /\ SparesAll(Regs(ClobberedByCalls))
<1>1. ScratchCells \subseteq Regs(kScratch \cup SixAndSeven)
  BY DEF ScratchCells, Regs
<1>2. \A rs : (\A r \in CalleeSaved : r \notin rs) => SparesAll(Regs(rs))
  BY ConventionFacts DEF SparesAll, Regs
<1>3. SparesAll(Regs(kScratch \cup SixAndSeven)) /\ SparesAll(Regs(kScratch)) /\ SparesAll(Regs(ClobberedByCalls))
  BY <1>2, ConventionFacts
<1>. QED  BY <1>1, <1>3 DEF SparesAll

LEMMA WordsAre ==
  ASSUME NEW w
  PROVE  WordsOf(w) \subseteq {0, 1} /\ (1 \in WordsOf(w) => w) /\ 0 \in WordsOf(w)
BY DEF WordsOf

(* What an instruction defines has a home of its width. *)
LEMMA DefinedHome ==
  ASSUME HomesInv, NEW b, NEW k, IsPoint(b, k), InstrAt(b, k).op \notin Terminators \cup {"store", "param"},
         NEW moved, DOMAIN moved \subseteq {0, 1}, 1 \in DOMAIN moved => DefinesPair(InstrAt(b, k))
  PROVE  Harmless(temps[InstrAt(b, k).res], moved)
<1>. DEFINE t == InstrAt(b, k).res
<1>1. t \in DOMAIN temps
  BY PointFacts DEF IsSound, HomesInv
<1>2. TempHome(t)
  BY <1>1 DEF HomesInv
<1>3. DefinesPair(InstrAt(b, k)) => IsPair(t)
  BY DEF IsPair, Some, IsPoint
<1>. HIDE DEF t
<1>4. Harmless(temps[t], moved)
  BY <1>2, <1>3, SavedHomes DEF TempHome
<1>. QED  BY <1>4 DEF t

LEMMA DefinesKeepsFrame ==
  ASSUME HomesInv, CursorInv, FrameInv, phase = "run", Here.op \notin Terminators \cup {"store", "param"},
         NEW moved, DOMAIN moved \subseteq {0, 1}, 1 \in DOMAIN moved => DefinesPair(Here), Defines(moved)
  PROVE  FrameInv'
<1>1. PICK b, k : cursor = <<b, k>> /\ IsPoint(b, k)
  BY DEF CursorInv
<1>2. Here = InstrAt(b, k)
  BY <1>1 DEF Here
<1>3. Harmless(temps[Here.res], moved)
  BY <1>1, <1>2, DefinedHome
<1>4. holds' = Renewed("temp", Here.res, temps[Here.res], moved, ScratchCells) /\ UNCHANGED <<code, calleeSaved, saved>>
  BY DEF Defines, placed
<1>5. \A r \in Spared : Caller(r) \in holds'[Reg(r)]
  BY <1>3, <1>4, RenewedSpares, SparedIsThere, ScratchIsNoCallers DEF Underway
<1>6. DOMAIN holds' = DOMAIN holds
  BY <1>4, DomainsKept
<1>. QED  BY <1>4, <1>5, <1>6, FrameStep DEF Underway

LEMMA AddressIsListed ==
  ASSUME NEW t, NEW l, IsAddressOf(t, l)
  PROVE  t \in AddressesOf(l)
<1>1. PICK d \in Blocks(code) : \E n \in DOMAIN code.blocks[d] :
        InstrAt(d, n).op = "frameaddr" /\ InstrAt(d, n).res = t /\ InstrAt(d, n).num = l
  BY DEF IsAddressOf, Some
<1>2. PICK n \in DOMAIN code.blocks[d] : InstrAt(d, n).op = "frameaddr" /\ InstrAt(d, n).res = t /\ InstrAt(d, n).num = l
  BY <1>1
<1>3. <<d, n>> \in Points
  BY PointsAre DEF IsPoint
<1>4. \E q \in Points : InstrAt(q[1], q[2]).op = "frameaddr" /\ InstrAt(q[1], q[2]).num = l /\ InstrAt(q[1], q[2]).res = t
  BY <1>2, <1>3
<1>. QED  BY <1>4 DEF AddressesOf

(* The address of a load or a store is a local's, which is as wide as the   *)
(* access if it has a register.                                            *)
LEMMA AccessFacts ==
  ASSUME HomesInv, NEW b, NEW k, IsPoint(b, k), InstrAt(b, k).op \in {"load", "store"},
         NEW l, l = FrameAddrLocal(InstrAt(b, k).use[1])
  PROVE  /\ l \in DOMAIN locals /\ LocalHome(l) /\ IsAddressOf(InstrAt(b, k).use[1], l)
         /\ InstrAt(b, k).wide => IsWideLocal(l)
         /\ locals[l].kind = "register" => InstrAt(b, k).wide = locals[l].pair
<1>. DEFINE t == InstrAt(b, k).use[1]
<1>1. 1 \in DOMAIN InstrAt(b, k).use /\ \E j \in Instrs(code) : j.op = "frameaddr" /\ j.res = t
  BY PointFacts, OperandFacts DEF IsSound
<1>2. PICK j \in Instrs(code) : j.op = "frameaddr" /\ j.res = t
  BY <1>1
<1>3. PICK c \in Blocks(code) : \E m \in DOMAIN code.blocks[c] : InstrAt(c, m) = j
  BY DEF Instrs, InstrAt
<1>4. PICK m \in DOMAIN code.blocks[c] : InstrAt(c, m) = j
  BY <1>3
<1>5. j.num \in LocalSlots(code) /\ IsAddressOf(t, j.num)
  BY <1>2, <1>3, <1>4 DEF HomesInv, WellFormed, IsSound, IsAddressOf, Some
<1>6. Some(LAMBDA i : i.op = "frameaddr" /\ i.res = t)
  BY <1>2, <1>3, <1>4 DEF Some
<1>7. l \in LocalSlots(code) /\ IsAddressOf(t, l)
  BY <1>5, <1>6 DEF FrameAddrLocal
<1>8. LocalHome(l) /\ l \in DOMAIN locals
  BY <1>7 DEF HomesInv
<1>9. t \in AddressesOf(l)
  BY <1>7, AddressIsListed
<1>10. ASSUME locals[l].kind = "register" PROVE InstrAt(b, k).wide = locals[l].pair
  <2>1. ~Escapes(l) /\ locals[l].pair = IsWideLocal(l)
    BY <1>8, <1>10 DEF LocalHome
  <2>. QED  BY <1>1, <1>9, <2>1 DEF Escapes, Some, IsPoint
<1>11. ASSUME InstrAt(b, k).wide PROVE IsWideLocal(l)
  <2>1. PICK i \in Instrs(code) : i.op = "frameaddr" /\ i.res = t /\ i.num = l
    BY <1>7 DEF IsAddressOf, Some, Instrs, InstrAt
  <2>. QED  BY <1>11, <2>1, PointFacts DEF IsSound, IsWideLocal
<1>. QED  BY <1>7, <1>8, <1>10, <1>11

LEMMA StoreKeepsFrame ==
  ASSUME HomesInv, CursorInv, FrameInv, StoreLocal
  PROVE  FrameInv'
<1>1. phase = "run" /\ Here.op = "store" /\ UNCHANGED <<code, calleeSaved, saved>>
  BY DEF StoreLocal, Fetched, Running, placed
<1>2. PICK b, k : cursor = <<b, k>> /\ IsPoint(b, k)
  BY <1>1 DEF CursorInv
<1>3. Here = InstrAt(b, k)
  BY <1>2 DEF Here
<1>. DEFINE moved == [w \in WordsOf(Here.wide) |-> Found(temps[Here.use[2]], w)]
<1>4. PICK l : l = FrameAddrLocal(Here.use[1])
  OBVIOUS
<1>5. holds' = Renewed("local", l, locals[l], moved, ScratchCells)
  BY <1>4 DEF StoreLocal
<1>6. LocalHome(l) /\ (locals[l].kind = "register" => Here.wide = locals[l].pair)
  BY <1>1, <1>2, <1>3, <1>4, AccessFacts
<1>7. DOMAIN moved \subseteq {0, 1} /\ (1 \in DOMAIN moved => Here.wide)
  BY WordsAre
<1>. HIDE DEF moved
<1>8. Harmless(locals[l], moved)
  BY <1>6, <1>7, SavedHomes DEF LocalHome
<1>9. \A r \in Spared : Caller(r) \in holds'[Reg(r)]
  BY <1>1, <1>5, <1>8, RenewedSpares, SparedIsThere, ScratchIsNoCallers DEF Underway
<1>10. DOMAIN holds' = DOMAIN holds
  BY <1>5, DomainsKept
<1>. QED  BY <1>1, <1>9, <1>10, FrameStep DEF Underway

LEMMA ComputationKeepsFrame ==
  ASSUME HomesInv, CursorInv, FrameInv, Compute \/ MoveValue \/ TakeAddress \/ LoadLocal
  PROVE  FrameInv'
<1>1. phase = "run" /\ Here.op \in {"const", "binop", "cmp", "copy", "widen", "truncate", "frameaddr", "load"}
  BY DEF Compute, MoveValue, TakeAddress, LoadLocal, Fetched, Running
<1>2. Here.op \notin Terminators \cup {"store", "param"}
  BY <1>1 DEF Terminators
<1>3. ASSUME NEW moved, Defines(moved), DOMAIN moved \subseteq {0, 1}, 1 \in DOMAIN moved => DefinesPair(Here)
      PROVE  FrameInv'
  BY <1>1, <1>2, <1>3, DefinesKeepsFrame
<1>4. CASE Compute
  <2>. DEFINE moved == [w \in WordsOf(DefinesPair(Here)) |->
                          IF Here.op = "binop" THEN (UNION {Found(temps[t], 0) : t \in Operands(Here)}) \cap AddressTokens ELSE {}]
  <2>1. Defines(moved)
    BY <1>4 DEF Compute
  <2>2. DOMAIN moved \subseteq {0, 1} /\ (1 \in DOMAIN moved => DefinesPair(Here))
    BY WordsAre
  <2>. HIDE DEF moved
  <2>. QED  BY <1>3, <2>1, <2>2
<1>5. CASE MoveValue
  <2>. DEFINE moved == [w \in WordsOf(DefinesPair(Here)) |->
                          IF Here.op = "widen" /\ w = 1 THEN {} ELSE Found(temps[Here.use[1]], w)]
  <2>1. Defines(moved)
    BY <1>5 DEF MoveValue
  <2>2. DOMAIN moved \subseteq {0, 1} /\ (1 \in DOMAIN moved => DefinesPair(Here))
    BY WordsAre
  <2>. HIDE DEF moved
  <2>. QED  BY <1>3, <2>1, <2>2
<1>6. CASE TakeAddress
  <2>. DEFINE moved == [w \in {0} |-> {Address(Here.num)}]
  <2>1. Defines(moved)
    BY <1>6 DEF TakeAddress
  <2>2. DOMAIN moved \subseteq {0, 1} /\ 1 \notin DOMAIN moved
    OBVIOUS
  <2>. HIDE DEF moved
  <2>. QED  BY <1>3, <2>1, <2>2
<1>7. CASE LoadLocal
  <2>. DEFINE moved == [w \in WordsOf(Here.wide) |-> Found(locals[FrameAddrLocal(Here.use[1])], w)]
  <2>1. Defines(moved) /\ Here.op = "load"
    BY <1>7 DEF LoadLocal, Fetched
  <2>2. DOMAIN moved \subseteq {0, 1} /\ (1 \in DOMAIN moved => Here.wide)
    BY WordsAre
  <2>3. Here.wide => DefinesPair(Here)
    BY <2>1 DEF DefinesPair
  <2>. HIDE DEF moved
  <2>. QED  BY <1>3, <2>1, <2>2, <2>3
<1>. QED  BY <1>4, <1>5, <1>6, <1>7

(* A parameter's home is as wide as the argument that arrived. *)
LEMMA SettlingKeepsFrame ==
  ASSUME HomesInv, NumberedInv, CursorInv, FrameInv, SettleParameter
  PROVE  FrameInv'
<1>1. phase = "settle" /\ cursor <= code.params /\ UNCHANGED <<code, calleeSaved, saved>>
  BY DEF SettleParameter, placed
<1>. DEFINE from  == arrival[cursor]
            moved == [w \in WordsOf(from.wide) |->
                        IF from.kind = "stack" THEN {Local(cursor, w)} ELSE Found(ArgumentHome(from), w)]
<1>2. holds' = Written(locals[cursor], moved, Regs(kScratch))
  BY DEF SettleParameter
<1>3. cursor \in 1..code.params
  BY <1>1, ParamsAreLocals DEF CursorInv
<1>4. cursor \in DOMAIN locals /\ from.wide = IsWideLocal(cursor)
  BY <1>1, <1>3, ParamsAreLocals DEF NumberedInv
<1>5. LocalHome(cursor)
  BY <1>4 DEF HomesInv
<1>6. DOMAIN moved \subseteq {0, 1} /\ (1 \in DOMAIN moved => from.wide)
  BY WordsAre
<1>. HIDE DEF moved, from
<1>7. Harmless(locals[cursor], moved)
  BY <1>4, <1>5, <1>6, SavedHomes DEF LocalHome
<1>8. \A r \in Spared : Caller(r) \in holds'[Reg(r)]
  BY <1>1, <1>2, <1>7, WrittenSpares, SparedIsThere, ScratchIsNoCallers DEF Underway
<1>9. DOMAIN holds' = DOMAIN holds
  BY <1>2, DomainsKept
<1>. QED  BY <1>1, <1>8, <1>9, FrameStep DEF Underway

-----------------------------------------------------------------------------
(* Where arguments go. *)

(* What the numbering of a call says of one of its arguments. *)
LEMMA SlotFacts ==
  ASSUME HomesInv, NumberedInv, CursorInv, phase = "call", NEW n \in DOMAIN numbering
  PROVE  /\ n \in 1..Here.num /\ numbering[n].kind \in {"int", "stack"}
         /\ numbering[n].index \in Nat /\ numbering[n].wide \in BOOLEAN
         /\ \E b, k : /\ cursor[1] = b /\ cursor[2] = k /\ IsPoint(b, k) /\ Here = InstrAt(b, k) /\ Here.op = "call"
                      /\ numbering[n].wide = ArgumentOf(b, k, n).wide
         /\ \A w \in WordsOf(numbering[n].wide) :
              /\ numbering[n].kind = "int" => numbering[n].index + w \in 0..3
              /\ numbering[n].kind = "stack" => <<"out", numbering[n].index + w, 0>> \in {"out"} \X OutgoingWords \X {0}
<1>1. PICK b, k, m : /\ cursor = <<b, k, m>> /\ IsPoint(b, k) /\ Here = InstrAt(b, k) /\ Here.op = "call"
                     /\ Here.num \in Nat /\ numbered = ArgumentList(b, k) /\ Len(numbered) = Here.num
  BY CallFacts
<1>2. Slots!IInv /\ OutgoingBound
  BY DEF NumberedInv
<1>3. /\ numbering \in Seq(Slots!ArgSlot) /\ Len(numbering) \in Nat /\ Len(numbering) <= Len(numbered)
      /\ used \in [Slots!Kind -> Nat]
  BY <1>2 DEF Slots!IInv, Slots!TypeOK
<1>4. n \in 1..Len(numbering) /\ n \in 1..Here.num
  BY <1>1, <1>3
<1>5. numbered[n] = [bank |-> "int", wide |-> ArgumentOf(b, k, n).wide]
  BY <1>1, <1>4 DEF ArgumentList, Call
<1>6. numbering[n].kind \in {numbered[n].bank, "stack"} /\ numbering[n].wide = numbered[n].wide
  BY <1>2 DEF Slots!IInv, Slots!SlotsMatch
<1>7. numbering[n] \in Slots!ArgSlot
  BY <1>3, <1>4
<1>8. numbering[n].index \in Nat /\ numbering[n].wide \in BOOLEAN
  BY <1>7 DEF Slots!ArgSlot
<1>. DEFINE s == numbering[n]
<1>9. /\ s.index + Slots!Width(s.wide) <= used[s.kind]
      /\ used["int"] <= ArgRegisterCount
  BY <1>2 DEF Slots!IInv, Slots!BelowCursor, Slots!End, Slots!Bank
<1>10. ASSUME NEW w \in WordsOf(s.wide)
       PROVE  w \in {0, 1} /\ s.index + w < used[s.kind] /\ s.index + w \in Nat
  <2>1. w \in {0, 1} /\ w < Slots!Width(s.wide) /\ Slots!Width(s.wide) \in {1, 2}
    BY <1>8 DEF WordsOf, Slots!Width
  <2>2. used[s.kind] \in Nat
    BY <1>3, <1>7 DEF Slots!ArgSlot
  <2>. HIDE DEF s
  <2>. QED  BY <1>8, <1>9, <2>1, <2>2 DEF s
<1>11. ASSUME NEW w \in WordsOf(s.wide), s.kind = "int" PROVE s.index + w \in 0..3
  <2>1. s.index + w < used["int"] /\ s.index + w \in Nat
    BY <1>10, <1>11
  <2>2. used["int"] \in Nat /\ used["int"] <= ArgRegisterCount /\ ArgRegisterCount \in Nat /\ ArgRegisterCount <= 4
    BY <1>3, <1>9, PoolsAssumption, ConventionAssumption DEF PoolsAssumption, ConventionAssumption, Slots!Kind, Slots!Bank
  <2>. HIDE DEF s
  <2>. QED  BY <2>1, <2>2
<1>12. ASSUME NEW w \in WordsOf(s.wide), s.kind = "stack"
       PROVE  <<"out", s.index + w, 0>> \in {"out"} \X OutgoingWords \X {0}
  <2>1. used["stack"] <= 2 * Here.num /\ used["stack"] \in Nat
    <3>1. used["stack"] \in Nat
      BY <1>3 DEF Slots!Kind
    <3>. QED  BY <1>1, <1>2, <1>3, <3>1 DEF OutgoingBound
  <2>2. s.index + w \in 0..(2 * Here.num - 1)
    BY <1>1, <1>10, <1>12, <2>1
  <2>3. <<b, k>> \in Points
    BY <1>1, PointsAre
  <2>4. \E q \in {p \in Points : InstrAt(p[1], p[2]).op = "call"} : s.index + w \in 0..(2 * InstrAt(q[1], q[2]).num - 1)
    BY <1>1, <2>2, <2>3
  <2>. QED  BY <2>4 DEF OutgoingWords
<1>. QED  BY <1>1, <1>4, <1>5, <1>6, <1>8, <1>11, <1>12

LEMMA ArgumentKeepsFrame ==
  ASSUME HomesInv, NumberedInv, CursorInv, FrameInv, PlaceArgument
  PROVE  FrameInv'
<1>1. phase = "call" /\ UNCHANGED <<code, calleeSaved, saved>> /\ Numbering!Done /\ cursor[3] < Here.num
  BY DEF PlaceArgument, placed, Moving, Setting
<1>2. PICK b, k, n : /\ cursor = <<b, k, n>> /\ Here.num \in Nat /\ n \in 0..Here.num /\ Len(numbered) = Here.num
  BY <1>1, CallFacts
<1>3. n + 1 \in DOMAIN numbering
  <2>1. numbering \in Seq(Slots!ArgSlot) /\ Len(numbering) = Here.num
    BY <1>1, <1>2 DEF NumberedInv, Slots!IInv, Slots!TypeOK, Numbering!Done
  <2>. QED  BY <1>1, <1>2, <2>1
<1>4. PICK slot : slot = numbering[n + 1]
  OBVIOUS
<1>5. PICK moved : /\ moved = [w \in WordsOf(slot.wide) |-> Found(temps[Argument(n + 1)], w)]
                   /\ holds' = Written(ArgumentHome(slot), moved, Regs(kScratch))
  BY <1>2, <1>4 DEF PlaceArgument
<1>6. Harmless(ArgumentHome(slot), moved)
  <2>. SUFFICES ASSUME NEW w \in WordsOf(slot.wide), NEW r \in Spared PROVE WordCell(ArgumentHome(slot), w) # Reg(r)
    BY <1>5 DEF Harmless
  <2>1. slot.kind \in {"int", "stack"} /\ (slot.kind = "int" => slot.index + w \in 0..3)
    BY <1>1, <1>3, <1>4, SlotFacts
  <2>2. CASE slot.kind = "stack"
    BY <2>2 DEF ArgumentHome, Placement, WordCell, Reg
  <2>3. CASE slot.kind = "int"
    <3>1. WordCell(ArgumentHome(slot), w) = Reg(slot.index + w)
      BY <2>3 DEF ArgumentHome, Placement, WordCell
    <3>. QED  BY <2>1, <2>3, <3>1, ConventionFacts DEF Spared
  <2>. QED  BY <2>1, <2>2, <2>3
<1>7. \A r \in Spared : Caller(r) \in holds'[Reg(r)]
  BY <1>1, <1>5, <1>6, WrittenSpares, SparedIsThere, ScratchIsNoCallers DEF Underway
<1>8. DOMAIN holds' = DOMAIN holds
  BY <1>5, DomainsKept
<1>. QED  BY <1>1, <1>7, <1>8, FrameStep DEF Underway

(* What a call leaves anything in is nothing the callee has to keep. *)
LEMMA CallKeepsFrame ==
  ASSUME HomesInv, NumberedInv, CursorInv, FrameInv, MakeCall
  PROVE  FrameInv'
<1>1. phase = "call" /\ UNCHANGED <<code, calleeSaved, saved>>
  BY DEF MakeCall, placed, Ready, Setting
<1>2. PICK b, k : IsPoint(b, k) /\ Here = InstrAt(b, k) /\ Here.op = "call"
  BY <1>1, CallFacts
<1>3. PICK moved, lost : /\ moved = [w \in WordsOf(Here.wide) |-> {}]
                         /\ lost = Regs(ClobberedByCalls) \cup {c \in DOMAIN holds : c[1] = "out"}
                         /\ holds' = Renewed("temp", Here.res, temps[Here.res], moved, lost)
  BY DEF MakeCall
<1>4. Harmless(temps[Here.res], moved)
  <2>1. DOMAIN moved \subseteq {0, 1} /\ (1 \in DOMAIN moved => DefinesPair(Here))
    BY <1>2, <1>3, WordsAre DEF DefinesPair
  <2>. QED  BY <1>2, <2>1, DefinedHome DEF Terminators
<1>5. SparesAll(lost)
  BY <1>3, ScratchIsNoCallers DEF SparesAll, Reg
<1>6. \A r \in Spared : Caller(r) \in holds'[Reg(r)]
  BY <1>1, <1>3, <1>4, <1>5, RenewedSpares, SparedIsThere DEF Underway
<1>7. DOMAIN holds' = DOMAIN holds
  BY <1>3, DomainsKept
<1>. QED  BY <1>1, <1>6, <1>7, FrameStep DEF Underway

LEMMA BranchKeepsFrame ==
  ASSUME FrameInv, Branch
  PROVE  FrameInv'
<1>1. phase = "run" /\ UNCHANGED <<code, calleeSaved, saved>> /\ holds' = Written(Nowhere, << >>, ScratchCells)
  BY DEF Branch, placed, Fetched, Running
<1>2. Harmless(Nowhere, << >>)
  BY DEF Harmless, Nowhere, Placement, HasHome
<1>3. \A r \in Spared : Caller(r) \in holds'[Reg(r)]
  BY <1>1, <1>2, WrittenSpares, SparedIsThere, ScratchIsNoCallers DEF Underway
<1>4. DOMAIN holds' = DOMAIN holds
  BY <1>1, DomainsKept
<1>. QED  BY <1>1, <1>3, <1>4, FrameStep DEF Underway

LEMMA BodyKeepsFrame ==
  ASSUME FrameInv, EnterBody
  PROVE  FrameInv'
<1>1. phase = "settle" /\ UNCHANGED <<code, calleeSaved, saved>>
  BY DEF EnterBody, placed
<1>2. DOMAIN holds' = DOMAIN holds /\ \A c \in DOMAIN holds : holds[c] \subseteq holds'[c]
  BY DEF EnterBody
<1>3. \A r \in Spared : Caller(r) \in holds'[Reg(r)]
  BY <1>1, <1>2, SparedIsThere DEF Underway
<1>. QED  BY <1>1, <1>2, <1>3, FrameStep DEF Underway

(* pushm saves what it finds: every register a call keeps is the caller's. *)
LEMMA FrameOpens ==
  ASSUME HomesInv, OpenFrame
  PROVE  FrameInv'
<1>1. /\ UNCHANGED <<code, calleeSaved>>
      /\ saved' = [r \in calleeSaved |-> AtEntry(r)]
      /\ holds' = [c \in Regs(MachineRegisters) \cup ({"field"} \X (DOMAIN fields) \X {0, 1}) \cup ({"out"} \X OutgoingWords \X {0}) |->
                     IF c[1] = "reg" THEN AtEntry(c[2]) ELSE {}]
  BY DEF OpenFrame, HomesInv
<1>2. OutgoingWords' = OutgoingWords
  BY <1>1 DEF OutgoingWords, Points, PointsOf, InstrAt, Blocks
<1>3. \A r \in CalleeSaved : AtEntry(r) = {Caller(r)}
  BY DEF AtEntry
<1>4. \A r \in MachineRegisters : Reg(r) \in DOMAIN holds' /\ holds'[Reg(r)] = AtEntry(r)
  BY <1>1 DEF Regs, Reg
<1>5. \A n \in OutgoingWords : <<"out", n, 0>> \in DOMAIN holds'
  BY <1>1
<1>6. DOMAIN saved' = calleeSaved /\ \A r \in calleeSaved \cap CalleeSaved : Caller(r) \in saved'[r]
  BY <1>1, <1>3
<1>7. \A r \in CalleeSaved : Caller(r) \in holds'[Reg(r)]
  BY <1>3, <1>4, ConventionFacts
<1>. QED  BY <1>1, <1>2, <1>4, <1>5, <1>6, <1>7 DEF FrameInv, Spared

(* Every step keeps the caller's registers. *)
LEMMA NextFrame == RunInv /\ FrameInv /\ [Next]_vars => FrameInv'
<1>. SUFFICES ASSUME RunInv, FrameInv, [Next]_vars PROVE FrameInv'
  OBVIOUS
<1>. USE DEF RunInv
<1>1. ASSUME phase' \notin Underway PROVE FrameInv'
  BY <1>1 DEF FrameInv, Underway
<1>2. CASE Place
  <2>1. phase' \notin Underway
    BY <1>2 DEF Place, PlacementNext, NumberParameter, FinishArrival, PlaceLocal, PlaceAddresses, UpdateLiveness, PlaceAliases,
         PlaceCrossing, FinishCrossing, OpenBlock, Release, Grant, CloseBlock, FinishScan, PlaceLocalField,
         PlaceTempField, FinishPlacement, EnterPhase, InScan, Underway
  <2>. QED  BY <1>1, <2>1
<1>3. CASE OpenFrame
  BY <1>3, FrameOpens
<1>4. CASE SettleParameter
  BY <1>4, SettlingKeepsFrame
<1>5. CASE EnterBody
  BY <1>5, BodyKeepsFrame
<1>6. CASE Compute \/ MoveValue \/ TakeAddress \/ LoadLocal
  BY <1>6, ComputationKeepsFrame
<1>7. CASE StoreLocal
  BY <1>7, StoreKeepsFrame
<1>8. CASE Branch
  BY <1>8, BranchKeepsFrame
<1>9. CASE Pass \/ BeginCall \/ NumberArgument \/ UNCHANGED vars
  <2>1. CASE phase \in Underway
    <3>1. UNCHANGED <<code, calleeSaved, saved, holds>>
      BY <1>9 DEF Pass, BeginCall, NumberArgument, placed, executionVars, vars, placementVars
    <3>2. \A r \in Spared : Caller(r) \in holds'[Reg(r)]
      BY <2>1, <3>1, SparedIsThere
    <3>. QED  BY <2>1, <3>1, <3>2, FrameStep
  <2>2. CASE phase \notin Underway
    BY <1>1, <1>9, <2>2 DEF Pass, BeginCall, NumberArgument, vars, placementVars, Fetched, Running, Underway
  <2>. QED  BY <2>1, <2>2
<1>10. CASE PlaceArgument
  BY <1>10, ArgumentKeepsFrame
<1>11. CASE MakeCall
  BY <1>11, CallKeepsFrame
<1>12. CASE JumpToCallee \/ LeaveFunction
  BY <1>1, <1>12 DEF JumpToCallee, LeaveFunction, Underway
<1>. QED  BY <1>2, <1>3, <1>4, <1>5, <1>6, <1>7, <1>8, <1>9, <1>10, <1>11, <1>12 DEF Next

-----------------------------------------------------------------------------
(* The caller's registers.                                                 *)

(* leave and popm put back what was saved; nobody touched the others. *)
LEMMA LeavingRestores ==
  ASSUME HomesInv, FrameInv, phase \in Underway,
         NEW h, DOMAIN h = DOMAIN holds, \A r \in Spared : Caller(r) \in h[Reg(r)],
         NEW r \in CalleeSaved
  PROVE  Caller(r) \in FrameLeft(h)[Reg(r)]
<1>1. r \in MachineRegisters /\ Reg(r) \in DOMAIN h
  BY ConventionFacts DEF FrameInv
<1>2. FrameLeft(h)[Reg(r)] = IF r \in calleeSaved THEN saved[r] ELSE h[Reg(r)]
  BY <1>1 DEF FrameLeft, Reg
<1>. QED  BY <1>2 DEF FrameInv, Spared

LEMMA LeavingKeepsCallers ==
  ASSUME RunInv, FrameInv, JumpToCallee \/ LeaveFunction
  PROVE  CallerRegistersBack'
<1>. USE DEF RunInv
<1>1. CASE JumpToCallee
  <2>1. phase = "call" /\ holds' = FrameLeft(holds)
    BY <1>1 DEF JumpToCallee, Ready, Setting
  <2>2. \A r \in CalleeSaved : Caller(r) \in holds'[Reg(r)]
    BY <2>1, LeavingRestores, SparedIsThere DEF Underway
  <2>. QED  BY <2>2 DEF CallerRegistersBack
<1>2. CASE LeaveFunction
  <2>1. phase = "run"
    BY <1>2 DEF LeaveFunction, Fetched, Running
  <2>. DEFINE moved == [w \in WordsOf(Here.wide) |-> Found(temps[Here.use[1]], w)]
              h     == IF Here.use = << >> THEN holds ELSE Written(ResultHome, moved, Regs(kScratch))
  <2>2. holds' = FrameLeft(h)
    BY <1>2 DEF LeaveFunction
  <2>3. Harmless(ResultHome, moved)
    <3>1. \A w \in DOMAIN moved : w \in {0, 1} /\ WordCell(ResultHome, w) = Reg(w)
      BY WordsAre DEF ResultHome, Placement, WordCell
    <3>. HIDE DEF moved
    <3>. QED  BY <3>1, ConventionFacts DEF Harmless, Spared
  <2>. HIDE DEF moved
  <2>4. DOMAIN h = DOMAIN holds
    BY DomainsKept
  <2>5. \A r \in Spared : Caller(r) \in h[Reg(r)]
    BY <2>1, <2>3, WrittenSpares, SparedIsThere, ScratchIsNoCallers DEF Underway
  <2>. HIDE DEF h
  <2>6. \A r \in CalleeSaved : Caller(r) \in holds'[Reg(r)]
    BY <2>1, <2>2, <2>4, <2>5, LeavingRestores DEF Underway
  <2>. QED  BY <2>6 DEF CallerRegistersBack
<1>. QED  BY <1>1, <1>2

LEMMA NextCallers == RunInv /\ FrameInv /\ CallerRegistersBack /\ [Next]_vars => CallerRegistersBack'
<1>. SUFFICES ASSUME RunInv, FrameInv, CallerRegistersBack, [Next]_vars PROVE CallerRegistersBack'
  OBVIOUS
<1>1. CASE JumpToCallee \/ LeaveFunction
  BY <1>1, LeavingKeepsCallers
<1>2. CASE UNCHANGED vars
  BY <1>2 DEF vars, placementVars, executionVars, CallerRegistersBack
<1>3. ASSUME phase' \notin {"returned", "jumped"} PROVE CallerRegistersBack'
  BY <1>3 DEF CallerRegistersBack
<1>4. CASE Place
  BY <1>3, <1>4 DEF Place, PlacementNext, NumberParameter, FinishArrival, PlaceLocal, PlaceAddresses, UpdateLiveness, PlaceAliases,
         PlaceCrossing, FinishCrossing, OpenBlock, Release, Grant, CloseBlock, FinishScan, PlaceLocalField,
         PlaceTempField, FinishPlacement, EnterPhase, InScan
<1>5. CASE Emission /\ ~(JumpToCallee \/ LeaveFunction)
  BY <1>3, <1>5 DEF Emission, OpenFrame, SettleParameter, EnterBody, Pass, Compute, MoveValue, TakeAddress, LoadLocal, StoreLocal,
         Branch, BeginCall, NumberArgument, PlaceArgument, MakeCall, Defines, Advance, EnterPhase, Moving, Setting
<1>. QED  BY <1>1, <1>2, <1>4, <1>5 DEF Next, Emission

LEMMA InitRun == Init => RunInv /\ FrameInv /\ CallerRegistersBack
<1>. SUFFICES ASSUME Init PROVE RunInv /\ FrameInv /\ CallerRegistersBack
  OBVIOUS
<1>1. phase = "arrival"
  BY DEF Init, PlacementInit
<1>. QED  BY <1>1, InitIInv, InitHomes, InitNumbered DEF Init, RunInv, FrameInv, Underway, CallerRegistersBack

(* The inductive invariant, of every function and set of options.          *)
THEOREM RunInvariant == Spec => [](RunInv /\ FrameInv /\ CallerRegistersBack)
<1>1. Init => RunInv /\ FrameInv /\ CallerRegistersBack
  BY InitRun
<1>2. RunInv /\ FrameInv /\ CallerRegistersBack /\ [Next]_vars => (RunInv /\ FrameInv /\ CallerRegistersBack)'
  BY NextRunInv, NextFrame, NextCallers
<1>. QED  BY <1>1, <1>2, PTL DEF Spec

(* Whatever path a function takes, and whether it returns or leaves its      *)
(* return to a tail call, every register its caller relies on is as it was. *)
THEOREM CallerGetsItsRegistersBack == Spec => []CallerRegistersBack
BY RunInvariant, PTL

-----------------------------------------------------------------------------
(* The result.                                                             *)

(* A pair is passed on as a pair. *)
LEMMA PassedPairs ==
  ASSUME HomesInv, NEW i \in Instrs(code), i.op \in {"param", "return"}, i.wide, NEW n \in DOMAIN i.use
  PROVE  IsPair(i.use[n])
<1>1. PICK j \in Instrs(code) : j.res = i.use[n] /\ DefinesPair(j)
  BY DEF HomesInv, WellFormed, IsSound
<1>2. PICK b \in Blocks(code) : \E k \in DOMAIN code.blocks[b] : code.blocks[b][k] = j
  BY DEF Instrs
<1>3. PICK k \in DOMAIN code.blocks[b] : InstrAt(b, k) = j
  BY <1>2 DEF InstrAt
<1>. QED  BY <1>1, <1>3 DEF IsPair, Some

(* The address of a local in a register is read by loads and stores only,   *)
(* so what a function returns is somewhere.                                *)
LEMMA ReturnedIsSomewhere ==
  ASSUME HomesInv, NEW b, NEW k, IsPoint(b, k), InstrAt(b, k).op = "return", NEW t \in Operands(InstrAt(b, k))
  PROVE  temps[t].kind # "virtual"
<1>. SUFFICES ASSUME temps[t].kind = "virtual" PROVE FALSE
  OBVIOUS
<1>1. t \in DOMAIN temps
  BY PointFacts, OperandFacts DEF HomesInv
<1>2. PICK l \in LocalSlots(code) : InRegister(l) /\ IsAddressOf(t, l)
  BY <1>1 DEF HomesInv, TempHome
<1>3. ~Escapes(l)
  BY <1>2 DEF HomesInv, LocalHome, InRegister
<1>4. t \in AddressesOf(l)
  BY <1>2, AddressIsListed
<1>5. PICK n \in DOMAIN InstrAt(b, k).use : InstrAt(b, k).use[n] = t
  BY DEF Operands
<1>. QED  BY <1>3, <1>4, <1>5 DEF Escapes, Some, IsPoint

LEMMA ReturnReadsItsOperand ==
  ASSUME HomesInv, NEW b, NEW k, IsPoint(b, k), InstrAt(b, k).op = "return", ~EmitsNothing(b, k)
  PROVE  ReadBy(b, k) = Operands(InstrAt(b, k))
<1>1. ~Fused(b, k)
  BY DEF Fused
<1>2. \A t \in Operands(InstrAt(b, k)) : temps[t].kind # "virtual"
  BY ReturnedIsSomewhere
<1>. QED  BY <1>1, <1>2 DEF ReadBy

LEMMA LeavingBringsResult ==
  ASSUME RunInv, FrameInv, ReadsItsOwnValue, LeaveFunction
  PROVE  ResultInPlace'
<1>. USE DEF RunInv
<1>1. /\ phase = "run" /\ Here.op = "return" /\ ~EmitsNothing(cursor[1], cursor[2])
      /\ code' = code /\ cursor' = cursor /\ \A r \in calleeSaved : r >= 8
  BY DEF LeaveFunction, Fetched, Running, placed, HomesInv
<1>2. PICK b, k : cursor = <<b, k>> /\ IsPoint(b, k) /\ Here = InstrAt(b, k)
  BY <1>1 DEF CursorInv, Here
<1>3. Here' = Here /\ ResultHome' = ResultHome
  BY <1>1 DEF Here, InstrAt, ResultHome
<1>. SUFFICES ASSUME NEW t \in Operands(Here), NEW w \in WordsOf(Here.wide) PROVE Temp(t, w) \in Found(ResultHome, w)'
  BY <1>3 DEF ResultInPlace
<1>4. Holds(t)
  BY <1>1, <1>2, ReturnReadsItsOperand DEF ReadsItsOwnValue, Running
<1>5. Here.use # << >> /\ t = Here.use[1] /\ 1 \in DOMAIN Here.use /\ Here \in Instrs(code) /\ Here.wide \in BOOLEAN
  <2>1. Here \in Instrs(code) /\ IsSound(code, Here)
    BY <1>2, PointFacts
  <2>2. DOMAIN Here.use \subseteq {1} /\ Here.wide \in BOOLEAN
    BY <1>1, <2>1, OperandFacts DEF IsSound, Fetched
  <2>3. PICK n \in DOMAIN Here.use : t = Here.use[n]
    BY DEF Operands
  <2>. QED  BY <2>1, <2>2, <2>3
<1>6. Here.wide => IsPair(t)
  BY <1>1, <1>5, PassedPairs
<1>7. w \in WordsOf(IsPair(t)) /\ w \in {0, 1}
  BY <1>6 DEF WordsOf
<1>8. Temp(t, w) \in Found(temps[t], w)
  BY <1>4, <1>7 DEF Holds
<1>9. PICK moved : /\ moved = [v \in WordsOf(Here.wide) |-> Found(temps[t], v)]
                   /\ holds' = FrameLeft(Written(ResultHome, moved, Regs(kScratch)))
  BY <1>5 DEF LeaveFunction
<1>10. HasHome(ResultHome) /\ \A v : v \in {0, 1} => WordCell(ResultHome, v) = Reg(v)
  BY DEF ResultHome, Placement, HasHome, WordCell
<1>11. Reg(w) \in DOMAIN holds /\ w \notin calleeSaved
  <2>1. w \in MachineRegisters /\ ~(w >= 8)
    BY <1>7 DEF MachineRegisters
  <2>. QED  BY <1>1, <2>1 DEF FrameInv, Underway
<1>12. Written(ResultHome, moved, Regs(kScratch))[Reg(w)] = moved[w]
  <2>1. DOMAIN moved \subseteq {0, 1} /\ w \in DOMAIN moved
    BY <1>9, WordsAre
  <2>2. \A v \in DOMAIN moved : Reg(w) = WordCell(ResultHome, v) => v = w
    BY <1>10, <2>1, ConventionFacts
  <2>3. Reg(w) = WordCell(ResultHome, w)
    BY <1>7, <1>10
  <2>4. (CHOOSE v \in DOMAIN moved : Reg(w) = WordCell(ResultHome, v)) = w
    BY <2>1, <2>2, <2>3
  <2>. QED  BY <1>10, <1>11, <2>1, <2>3, <2>4 DEF Written
<1>13. holds'[Reg(w)] = moved[w]
  <2>1. Reg(w) \in DOMAIN Written(ResultHome, moved, Regs(kScratch))
    BY <1>11, DomainsKept
  <2>. QED  BY <1>9, <1>11, <1>12, <2>1 DEF FrameLeft, Reg
<1>14. Found(ResultHome, w)' = holds'[Reg(w)]
  <2>1. Found(ResultHome, w)' = holds'[WordCell(ResultHome', w)]
    BY <1>3, <1>10 DEF Found
  <2>. QED  BY <1>3, <1>7, <1>10, <2>1
<1>. QED  BY <1>8, <1>9, <1>13, <1>14

LEMMA NextResult == RunInv /\ FrameInv /\ ReadsItsOwnValue /\ ResultInPlace /\ [Next]_vars => ResultInPlace'
<1>. SUFFICES ASSUME RunInv, FrameInv, ReadsItsOwnValue, ResultInPlace, [Next]_vars PROVE ResultInPlace'
  OBVIOUS
<1>1. CASE LeaveFunction
  BY <1>1, LeavingBringsResult
<1>2. CASE UNCHANGED vars
  BY <1>2 DEF vars, placementVars, executionVars, ResultInPlace, ResultHome, Found, Here, InstrAt
<1>3. ASSUME phase' # "returned" PROVE ResultInPlace'
  BY <1>3 DEF ResultInPlace
<1>4. CASE Place
  BY <1>3, <1>4 DEF Place, PlacementNext, NumberParameter, FinishArrival, PlaceLocal, PlaceAddresses, UpdateLiveness, PlaceAliases,
         PlaceCrossing, FinishCrossing, OpenBlock, Release, Grant, CloseBlock, FinishScan, PlaceLocalField,
         PlaceTempField, FinishPlacement, EnterPhase, InScan
<1>5. CASE Emission /\ ~LeaveFunction
  BY <1>3, <1>5 DEF Emission, OpenFrame, SettleParameter, EnterBody, Pass, Compute, MoveValue, TakeAddress, LoadLocal, StoreLocal,
         Branch, BeginCall, NumberArgument, PlaceArgument, MakeCall, JumpToCallee, Defines, Advance, EnterPhase, Moving, Setting
<1>. QED  BY <1>1, <1>2, <1>4, <1>5 DEF Next, Emission

(* A function whose every instruction finds its operands returns cleanly.  *)
THEOREM ReturnIsClean == Spec /\ []ReadsItsOwnValue => []ReturnsCleanly
<1>1. Init => ResultInPlace
  BY DEF Init, PlacementInit, ResultInPlace
<1>2. Spec => [](RunInv /\ FrameInv /\ CallerRegistersBack)
  BY RunInvariant
<1>3. RunInv /\ FrameInv /\ ReadsItsOwnValue /\ ResultInPlace /\ [Next]_vars => ResultInPlace'
  BY NextResult
<1>4. CallerRegistersBack /\ ResultInPlace => ReturnsCleanly
  BY DEF ReturnsCleanly
<1>. QED  BY <1>1, <1>2, <1>3, <1>4, PTL DEF Spec

-----------------------------------------------------------------------------
(* The arguments of a call.                                                *)

(* Where each argument that has been moved stays until the call is made. *)
InPlace(n) == \A w \in WordsOf(numbering[n].wide) : Temp(Argument(n), w) \in Found(ArgumentHome(numbering[n]), w)
PlacedInv  == phase = "call" /\ Numbering!Done => \A n \in 1..cursor[3] : InPlace(n)
JumpedInv  == phase = "jumped" => \A n \in DOMAIN numbering : InPlace(n)

(* The moves made so far are of arguments that have been numbered. *)
LEMMA MovesMade ==
  ASSUME HomesInv, NumberedInv, CursorInv, phase = "call", Numbering!Done
  PROVE  /\ Here.num \in Nat /\ DOMAIN numbering = 1..Here.num /\ cursor[3] \in 0..Here.num
         /\ cursor = <<cursor[1], cursor[2], cursor[3]>>
<1>1. PICK b, k, n : /\ cursor = <<b, k, n>> /\ Here.num \in Nat /\ n \in 0..Here.num /\ Len(numbered) = Here.num
  BY CallFacts
<1>2. numbering \in Seq(Slots!ArgSlot) /\ Len(numbering) = Here.num
  BY <1>1 DEF NumberedInv, Slots!IInv, Slots!TypeOK, Numbering!Done
<1>. QED  BY <1>1, <1>2

(* The cell of each word of an argument exists ... *)
LEMMA ArgumentCells ==
  ASSUME HomesInv, NumberedInv, CursorInv, FrameInv, phase = "call",
         NEW n \in DOMAIN numbering, NEW w \in WordsOf(numbering[n].wide)
  PROVE  /\ HasHome(ArgumentHome(numbering[n]))
         /\ \/ /\ numbering[n].kind = "int" /\ numbering[n].index + w \in 0..3
               /\ WordCell(ArgumentHome(numbering[n]), w) = Reg(numbering[n].index + w)
            \/ /\ numbering[n].kind = "stack"
               /\ WordCell(ArgumentHome(numbering[n]), w) = <<"out", numbering[n].index + w, 0>>
         /\ WordCell(ArgumentHome(numbering[n]), w) \in DOMAIN holds
<1>. DEFINE s == numbering[n]
<1>1. /\ s.kind \in {"int", "stack"}
      /\ s.kind = "int" => s.index + w \in 0..3
      /\ s.kind = "stack" => <<"out", s.index + w, 0>> \in {"out"} \X OutgoingWords \X {0}
  BY SlotFacts
<1>2. HasHome(ArgumentHome(s))
  BY DEF ArgumentHome, Placement, HasHome
<1>. HIDE DEF s
<1>3. CASE s.kind = "int"
  <2>1. WordCell(ArgumentHome(s), w) = Reg(s.index + w)
    BY <1>3 DEF ArgumentHome, Placement, WordCell
  <2>2. s.index + w \in MachineRegisters /\ s.index + w \in 0..3
    BY <1>1, <1>3 DEF MachineRegisters
  <2>3. Reg(s.index + w) \in DOMAIN holds
    BY <2>2 DEF FrameInv, Underway
  <2>. QED  BY <1>2, <1>3, <2>1, <2>2, <2>3 DEF s
<1>4. CASE s.kind = "stack"
  <2>1. WordCell(ArgumentHome(s), w) = <<"out", s.index + w, 0>>
    BY <1>4 DEF ArgumentHome, Placement, WordCell
  <2>2. s.index + w \in OutgoingWords
    BY <1>1, <1>4
  <2>3. <<"out", s.index + w, 0>> \in DOMAIN holds
    BY <2>2 DEF FrameInv, Underway
  <2>. QED  BY <1>2, <1>4, <2>1, <2>3 DEF s
<1>. QED  BY <1>1, <1>3, <1>4

(* ... and is no other argument's. *)
LEMMA ArgumentsApart ==
  ASSUME HomesInv, NumberedInv, CursorInv, FrameInv, phase = "call",
         NEW m \in DOMAIN numbering, NEW n \in DOMAIN numbering, m < n,
         NEW v \in WordsOf(numbering[m].wide), NEW w \in WordsOf(numbering[n].wide)
  PROVE  WordCell(ArgumentHome(numbering[m]), v) # WordCell(ArgumentHome(numbering[n]), w)
<1>1. Slots!InOrder /\ numbering \in Seq(Slots!ArgSlot)
  BY DEF NumberedInv, Slots!IInv, Slots!TypeOK
<1>2. numbering[m] \in Slots!ArgSlot /\ numbering[n] \in Slots!ArgSlot
  BY <1>1
<1>3. \A s \in Slots!ArgSlot : s.index \in Nat /\ s.wide \in BOOLEAN
  BY DEF Slots!ArgSlot
<1>4. numbering[m].index \in Nat /\ numbering[n].index \in Nat /\ numbering[m].wide \in BOOLEAN
  BY <1>2, <1>3
<1>5. v \in {0, 1} /\ v < Slots!Width(numbering[m].wide) /\ Slots!Width(numbering[m].wide) \in {1, 2} /\ w \in {0, 1}
  BY <1>4 DEF WordsOf, Slots!Width
<1>6. ASSUME numbering[m].kind = numbering[n].kind PROVE numbering[m].index + v # numbering[n].index + w
  <2>1. numbering[m].index + Slots!Width(numbering[m].wide) <= numbering[n].index
    BY <1>1, <1>6 DEF Slots!InOrder, Slots!End
  <2>. QED  BY <1>4, <1>5, <2>1
<1>7. \A i, j, x, y : (Reg(i) = Reg(j) => i = j) /\ Reg(i) # <<"out", j, 0>> /\ (<<"out", i, 0>> = <<"out", j, 0>> => i = j)
  BY DEF Reg
<1>. QED  BY <1>6, <1>7, ArgumentCells

LEMMA MovingPlaces ==
  ASSUME RunInv, FrameInv, ReadsItsOwnValue, PlacedInv, PlaceArgument
  PROVE  PlacedInv'
<1>. USE DEF RunInv
<1>1. /\ phase = "call" /\ Numbering!Done /\ cursor[3] < Here.num /\ Moving
      /\ UNCHANGED <<code, temps, numberingVars>>
  BY DEF PlaceArgument, Moving, Setting, placed
<1>2. PICK b, k, n : /\ cursor = <<b, k, n>> /\ IsPoint(b, k) /\ Here = InstrAt(b, k) /\ Here.op = "call"
                     /\ n \in 0..Here.num /\ \A m : Argument(m) = ArgumentOf(b, k, m).use[1]
  BY <1>1, CallFacts
<1>3. Here.num \in Nat /\ DOMAIN numbering = 1..Here.num /\ n + 1 \in DOMAIN numbering /\ n \in Nat
  BY <1>1, <1>2, MovesMade
<1>4. cursor' = <<b, k, n + 1>> /\ numbering' = numbering
  BY <1>1, <1>2 DEF PlaceArgument, numberingVars
<1>5. \A m : Argument(m)' = Argument(m)
  BY <1>1, <1>2, <1>4 DEF Argument, ArgumentOf, Call, InstrAt
<1>6. PICK slot : slot = numbering[n + 1]
  OBVIOUS
<1>7. PICK moved : /\ moved = [w \in WordsOf(slot.wide) |-> Found(temps[Argument(n + 1)], w)]
                   /\ holds' = Written(ArgumentHome(slot), moved, Regs(kScratch))
  BY <1>2, <1>6 DEF PlaceArgument
<1>8. \A m \in 1..(n + 1) : \A w \in WordsOf(numbering[m].wide) :
        Found(ArgumentHome(numbering[m]), w)' = holds'[WordCell(ArgumentHome(numbering[m]), w)]
  <2>. SUFFICES ASSUME NEW m \in 1..(n + 1), NEW w \in WordsOf(numbering[m].wide)
                PROVE  Found(ArgumentHome(numbering[m]), w)' = holds'[WordCell(ArgumentHome(numbering[m]), w)]
    OBVIOUS
  <2>1. m \in DOMAIN numbering
    BY <1>3
  <2>2. HasHome(ArgumentHome(numbering[m]))
    BY <1>1, <2>1, ArgumentCells
  <2>. QED  BY <1>4, <2>2 DEF Found
<1>9. ASSUME NEW w \in WordsOf(slot.wide) PROVE Temp(Argument(n + 1), w) \in holds'[WordCell(ArgumentHome(slot), w)]
  <2>1. Holds(Argument(n + 1))
    BY <1>1, <1>2 DEF ReadsItsOwnValue
  <2>2. w \in WordsOf(IsPair(Argument(n + 1)))
    <3>1. \E c, j : /\ cursor[1] = c /\ cursor[2] = j /\ IsPoint(c, j) /\ Here = InstrAt(c, j) /\ Here.op = "call"
                    /\ slot.wide = ArgumentOf(c, j, n + 1).wide
      BY <1>1, <1>3, <1>6, SlotFacts
    <3>2. slot.wide = ArgumentOf(b, k, n + 1).wide
      BY <1>2, <3>1
    <3>3. /\ ArgumentOf(b, k, n + 1).op = "param" /\ IsSound(code, ArgumentOf(b, k, n + 1))
          /\ IsPoint(b, k - InstrAt(b, k).num + (n + 1) - 1)
      BY <1>2, <1>3, ArgumentsAreParams
    <3>4. ArgumentOf(b, k, n + 1) \in Instrs(code)
      BY <3>3, PointFacts DEF ArgumentOf, Call
    <3>5. slot.wide => IsPair(Argument(n + 1))
      BY <1>2, <3>2, <3>3, <3>4, PassedPairs, OperandFacts
    <3>. QED  BY <3>5 DEF WordsOf
  <2>3. Temp(Argument(n + 1), w) \in moved[w]
    BY <1>7, <2>1, <2>2 DEF Holds
  <2>4. HasHome(ArgumentHome(slot)) /\ WordCell(ArgumentHome(slot), w) \in DOMAIN holds
    BY <1>1, <1>3, <1>6, ArgumentCells
  <2>5. \A v \in WordsOf(slot.wide) : WordCell(ArgumentHome(slot), v) = WordCell(ArgumentHome(slot), w) => v = w
    <3>. SUFFICES ASSUME NEW v \in WordsOf(slot.wide), WordCell(ArgumentHome(slot), v) = WordCell(ArgumentHome(slot), w)
                  PROVE  v = w
      OBVIOUS
    <3>1. slot.index + v = slot.index + w
      BY <1>1, <1>3, <1>6, ArgumentCells DEF Reg
    <3>2. slot.index \in Nat /\ v \in {0, 1} /\ w \in {0, 1}
      BY <1>1, <1>3, <1>6, SlotFacts, WordsAre
    <3>. QED  BY <3>1, <3>2
  <2>6. DOMAIN moved = WordsOf(slot.wide)
    BY <1>7
  <2>7. (CHOOSE v \in DOMAIN moved : WordCell(ArgumentHome(slot), w) = WordCell(ArgumentHome(slot), v)) = w
    BY <2>5, <2>6
  <2>8. holds'[WordCell(ArgumentHome(slot), w)] = moved[w]
    BY <1>7, <2>4, <2>6, <2>7 DEF Written
  <2>. QED  BY <2>3, <2>8
<1>10. ASSUME NEW m \in 1..n, NEW w \in WordsOf(numbering[m].wide)
       PROVE  Temp(Argument(m), w) \in holds'[WordCell(ArgumentHome(numbering[m]), w)]
  <2>1. m \in DOMAIN numbering /\ m < n + 1
    BY <1>3
  <2>2. PICK c : c = WordCell(ArgumentHome(numbering[m]), w)
    OBVIOUS
  <2>3. Temp(Argument(m), w) \in holds[c]
    <3>1. InPlace(m)
      BY <1>1, <1>2 DEF PlacedInv
    <3>2. HasHome(ArgumentHome(numbering[m]))
      BY <1>1, <2>1, ArgumentCells
    <3>. QED  BY <2>2, <3>1, <3>2 DEF InPlace, Found
  <2>4. c \in DOMAIN holds /\ c \notin Regs(kScratch)
    <3>1. \A i : Reg(i) \in Regs(kScratch) => i \in kScratch
      BY DEF Regs, Reg
    <3>2. \A i \in 0..3 : i \notin kScratch
      BY DEF kScratch
    <3>3. \A i : <<"out", i, 0>> \notin Regs(kScratch)
      BY DEF Regs, Reg
    <3>. QED  BY <1>1, <2>1, <2>2, <3>1, <3>2, <3>3, ArgumentCells
  <2>5. \A v \in DOMAIN moved : c # WordCell(ArgumentHome(slot), v)
    BY <1>1, <1>3, <1>6, <1>7, <2>1, <2>2, ArgumentsApart
  <2>6. holds'[c] = holds[c]
    BY <1>7, <2>4, <2>5, WrittenElsewhere
  <2>. QED  BY <2>2, <2>3, <2>6
<1>11. ASSUME NEW m \in 1..(n + 1), NEW w \in WordsOf(numbering[m].wide)
       PROVE  Temp(Argument(m), w) \in Found(ArgumentHome(numbering[m]), w)'
  <2>1. CASE m = n + 1
    BY <1>6, <1>8, <1>9, <2>1
  <2>2. CASE m # n + 1
    <3>1. m \in 1..n
      BY <1>3, <2>2
    <3>. QED  BY <1>8, <1>10, <3>1
  <2>. QED  BY <2>1, <2>2
<1>12. \A m \in 1..(n + 1) : InPlace(m)'
  BY <1>4, <1>5, <1>11 DEF InPlace
<1>. QED  BY <1>4, <1>12 DEF PlacedInv

LEMMA NextPlaced == RunInv /\ FrameInv /\ ReadsItsOwnValue /\ PlacedInv /\ [Next]_vars => PlacedInv'
<1>. SUFFICES ASSUME RunInv, FrameInv, ReadsItsOwnValue, PlacedInv, [Next]_vars PROVE PlacedInv'
  OBVIOUS
<1>. USE DEF RunInv
<1>1. CASE PlaceArgument
  BY <1>1, MovingPlaces
<1>2. CASE UNCHANGED vars
  BY <1>2 DEF vars, placementVars, executionVars, numberingVars, PlacedInv, InPlace, Argument, ArgumentOf, Call, InstrAt, Found,
              Numbering!Done
<1>3. ASSUME phase' # "call" PROVE PlacedInv'
  BY <1>3 DEF PlacedInv
<1>4. CASE Place
  BY <1>3, <1>4 DEF Place, PlacementNext, NumberParameter, FinishArrival, PlaceLocal, PlaceAddresses, UpdateLiveness, PlaceAliases,
         PlaceCrossing, FinishCrossing, OpenBlock, Release, Grant, CloseBlock, FinishScan, PlaceLocalField,
         PlaceTempField, FinishPlacement, EnterPhase, InScan
<1>5. CASE BeginCall
  <2>1. cursor'[3] = 0
    BY <1>5 DEF BeginCall, EnterPhase
  <2>. QED  BY <2>1 DEF PlacedInv
<1>6. CASE NumberArgument
  <2>1. phase = "call" /\ cursor' = cursor /\ Numbering!AssignOne
    BY <1>6 DEF NumberArgument
  <2>2. ~Numbering!Done
    BY <2>1 DEF Numbering!AssignOne, Numbering!AssignTail, Numbering!AssignRegister, Numbering!AssignStack,
                Numbering!Done, Numbering!i, NumberedInv, Slots!IInv, Slots!TypeOK
  <2>3. cursor'[3] = 0
    BY <2>1, <2>2, CallFacts
  <2>. QED  BY <2>3 DEF PlacedInv
<1>7. CASE Emission /\ ~(PlaceArgument \/ BeginCall \/ NumberArgument)
  BY <1>3, <1>7 DEF Emission, OpenFrame, SettleParameter, EnterBody, Pass, Compute, MoveValue, TakeAddress, LoadLocal, StoreLocal,
         Branch, MakeCall, JumpToCallee, LeaveFunction, Defines, Advance, EnterPhase
<1>. QED  BY <1>1, <1>2, <1>4, <1>5, <1>6, <1>7 DEF Next, Emission

(* leave drops the outgoing words, which a tail call does not use, and      *)
(* popm restores no argument register.                                     *)
LEMMA JumpCarriesArguments ==
  ASSUME RunInv, FrameInv, PlacedInv, JumpToCallee
  PROVE  JumpedInv'
<1>. USE DEF RunInv
<1>1. /\ phase = "call" /\ Numbering!Done /\ cursor[3] = Here.num /\ FitsInRegisters
      /\ holds' = FrameLeft(holds) /\ UNCHANGED <<code, cursor, numbering>>
  BY DEF JumpToCallee, Ready, Setting, TailCall, placed, numberingVars
<1>. SUFFICES ASSUME NEW n \in DOMAIN numbering, NEW w \in WordsOf(numbering[n].wide)
              PROVE  (Temp(Argument(n), w) \in Found(ArgumentHome(numbering[n]), w))'
  BY <1>1 DEF JumpedInv, InPlace
<1>2. n \in 1..cursor[3]
  BY <1>1, MovesMade
<1>3. PICK c : c = WordCell(ArgumentHome(numbering[n]), w)
  OBVIOUS
<1>4. HasHome(ArgumentHome(numbering[n])) /\ c \in DOMAIN holds /\ \E r \in 0..3 : c = Reg(r)
  BY <1>1, <1>3, ArgumentCells DEF FitsInRegisters
<1>5. Temp(Argument(n), w) \in holds[c]
  BY <1>1, <1>2, <1>3, <1>4 DEF PlacedInv, InPlace, Found
<1>6. holds'[c] = holds[c]
  <2>1. PICK r \in 0..3 : c = Reg(r)
    BY <1>4
  <2>2. r \notin calleeSaved
    BY <2>1 DEF HomesInv
  <2>. QED  BY <1>1, <1>4, <2>1, <2>2 DEF FrameLeft, Reg
<1>7. Found(ArgumentHome(numbering[n]), w)' = holds'[c]
  BY <1>1, <1>3, <1>4 DEF Found
<1>8. Argument(n)' = Argument(n)
  BY <1>1 DEF Argument, ArgumentOf, Call, InstrAt
<1>. QED  BY <1>5, <1>6, <1>7, <1>8

LEMMA PlacedWhenReady == RunInv /\ PlacedInv /\ Ready => \A n \in DOMAIN numbering : InPlace(n)
<1>. SUFFICES ASSUME RunInv, PlacedInv, Ready, NEW n \in DOMAIN numbering PROVE InPlace(n)
  OBVIOUS
<1>1. phase = "call" /\ Numbering!Done /\ cursor[3] = Here.num
  BY DEF Ready, Setting
<1>2. n \in 1..cursor[3]
  BY <1>1, MovesMade DEF RunInv
<1>. QED  BY <1>1, <1>2 DEF PlacedInv

LEMMA NextJumped == RunInv /\ FrameInv /\ PlacedInv /\ JumpedInv /\ [Next]_vars => JumpedInv'
<1>. SUFFICES ASSUME RunInv, FrameInv, PlacedInv, JumpedInv, [Next]_vars PROVE JumpedInv'
  OBVIOUS
<1>1. CASE JumpToCallee
  BY <1>1, JumpCarriesArguments
<1>2. CASE UNCHANGED vars
  BY <1>2 DEF vars, placementVars, executionVars, numberingVars, JumpedInv, InPlace, Argument, ArgumentOf, Call, InstrAt, Found
<1>3. ASSUME phase' # "jumped" PROVE JumpedInv'
  BY <1>3 DEF JumpedInv
<1>4. CASE Place
  BY <1>3, <1>4 DEF Place, PlacementNext, NumberParameter, FinishArrival, PlaceLocal, PlaceAddresses, UpdateLiveness, PlaceAliases,
         PlaceCrossing, FinishCrossing, OpenBlock, Release, Grant, CloseBlock, FinishScan, PlaceLocalField,
         PlaceTempField, FinishPlacement, EnterPhase, InScan
<1>5. CASE Emission /\ ~JumpToCallee
  BY <1>3, <1>5 DEF Emission, OpenFrame, SettleParameter, EnterBody, Pass, Compute, MoveValue, TakeAddress, LoadLocal, StoreLocal,
         Branch, BeginCall, NumberArgument, PlaceArgument, MakeCall, LeaveFunction, Defines, Advance, EnterPhase, Moving, Setting
<1>. QED  BY <1>1, <1>2, <1>4, <1>5 DEF Next, Emission

(* Where every value is found where it was placed, every argument of a      *)
(* call or a tail call is where the callee looks for it.                   *)
THEOREM CallFindsArguments == Spec /\ []ReadsItsOwnValue => []ArgumentsInPlace
<1>1. Init => PlacedInv /\ JumpedInv
  BY DEF Init, PlacementInit, PlacedInv, JumpedInv
<1>2. Spec => [](RunInv /\ FrameInv /\ CallerRegistersBack)
  BY RunInvariant
<1>3. RunInv /\ FrameInv /\ ReadsItsOwnValue /\ PlacedInv /\ JumpedInv /\ [Next]_vars => PlacedInv' /\ JumpedInv'
  BY NextPlaced, NextJumped
<1>4. RunInv /\ PlacedInv /\ JumpedInv => ArgumentsInPlace
  BY PlacedWhenReady DEF ArgumentsInPlace, JumpedInv, InPlace
<1>. QED  BY <1>1, <1>2, <1>3, <1>4, PTL DEF Spec

-----------------------------------------------------------------------------
(* The finished placement. *)

(* The cells of a home. *)
WordCells(p) ==
  IF p.kind \in {"register", "alias"} THEN Regs(Cells(p.index, p.pair))
  ELSE IF p.kind = "slot" THEN {<<"field", p.index, w>> : w \in {0, 1}} ELSE {}
TempCells(t)  == WordCells(temps[t])
(* The same of a local. *)
LocalCells(l) == WordCells(locals[l])

(* Everything known of a placement that is final. *)
PlaceInv ==
  /\ IInv /\ HomesInv /\ LiveInv /\ RegistersInv /\ ApartInv /\ AliasInv /\ FieldsInv
  /\ DefinitionsReachTheEnd /\ phase \in Laid

(* The scratch registers of an instruction of the function. *)
ScratchRegisters == kScratch \cup (IF UsesPairs THEN SixAndSeven ELSE {})

LEMMA RegisterIs ==
  /\ \A r, s : Reg(r) = Reg(s) <=> r = s
  /\ \A S, T : S \cap T = {} <=> Regs(S) \cap Regs(T) = {}
  /\ \A S : \A r : Reg(r) \in Regs(S) <=> r \in S
<1>1. \A r, s : Reg(r) = Reg(s) <=> r = s
  BY DEF Reg
<1>2. \A S : \A r : Reg(r) \in Regs(S) <=> r \in S
  BY <1>1 DEF Regs
<1>3. ASSUME NEW S, NEW T PROVE S \cap T = {} <=> Regs(S) \cap Regs(T) = {}
  <2>1. \A c \in Regs(S) : \E r \in S : c = Reg(r)
    BY DEF Regs
  <2>. QED  BY <1>2, <2>1
<1>. QED  BY <1>1, <1>2, <1>3

(* A register is no field. *)
LEMMA RegsAndFields ==
  ASSUME NEW S, NEW n, NEW w
  PROVE  <<"field", n, w>> \notin Regs(S)
BY DEF Regs, Reg

(* The cell of a word is one of the home's. *)
LEMMA WordIsInPlace ==
  ASSUME NEW p, HasHome(p), p.kind # "out", NEW w \in {0, 1},
         p.kind \in {"register", "alias"} => p.index \in Nat /\ (w = 1 => p.pair)
  PROVE  WordCell(p, w) \in WordCells(p)
<1>1. CASE p.kind \in {"register", "alias"}
  <2>1. p.index + w \in Cells(p.index, p.pair)
    BY <1>1 DEF Cells
  <2>. QED  BY <1>1, <2>1, RegisterIs DEF WordCell, WordCells
<1>2. CASE p.kind = "slot"
  BY <1>2 DEF WordCell, WordCells
<1>. QED  BY <1>1, <1>2 DEF HasHome

(* The two words of a home are two cells. *)
LEMMA WordsApart ==
  ASSUME NEW p, HasHome(p), p.kind \in {"register", "alias"} => p.index \in Nat,
         p.kind # "out", NEW v \in {0, 1}, NEW w \in {0, 1}, WordCell(p, v) = WordCell(p, w)
  PROVE  v = w
<1>1. CASE p.kind \in {"register", "alias"}
  BY <1>1, RegisterIs DEF WordCell
<1>2. CASE p.kind = "slot"
  BY <1>2 DEF WordCell
<1>. QED  BY <1>1, <1>2 DEF HasHome

(* Everything is in its place. *)
LEMMA LaidFacts ==
  ASSUME PlaceInv
  PROVE  /\ PastLiveness /\ phase \notin UnplacedPhases
         /\ \A l \in DOMAIN locals : LocalLaid(l) /\ locals[l].kind \in {"slot", "register", "none"}
         /\ \A t \in DOMAIN temps : /\ TempLaid(t) /\ temps[t].kind \in {"slot", "register", "alias", "virtual", "none"}
                                    /\ Referenced(t) => temps[t].kind # "none"
         /\ \A l, m \in DOMAIN locals : l # m /\ locals[l].kind = "slot" /\ locals[m].kind = "slot" => locals[l].index # locals[m].index
<1>1. phase \in Laid /\ \A n : Passed(n)
  BY DEF PlaceInv, Passed
<1>2. \A t : TempPassed(t)
  BY <1>1 DEF TempPassed, PlaceInv, Passed
<1>3. PastLiveness /\ phase \notin UnplacedPhases
  BY <1>1 DEF PastLiveness, UnplacedPhases, Laid
<1>. QED  BY <1>1, <1>2, <1>3 DEF PlaceInv, FieldsInv, LocalsLaid, TempsLaid, NoneLost, RegistersInv, LocalLaid

(* An alias is a local's register. *)
LEMMA AliasPlace ==
  ASSUME PlaceInv, NEW t \in DOMAIN temps, temps[t].kind = "alias", NEW l, AliasOf(t, l)
  PROVE  /\ l \in DOMAIN locals /\ locals[l].kind = "register" /\ TempCells(t) = LocalCells(l)
         /\ \A w : WordCell(temps[t], w) = WordCell(locals[l], w)
<1>1. l \in DOMAIN locals /\ locals[l].kind = "register" /\ temps[t].index = locals[l].index /\ temps[t].pair = locals[l].pair
  BY DEF PlaceInv, HomesInv, AliasOf, InRegister
<1>. QED  BY <1>1 DEF TempCells, LocalCells, WordCells, WordCell

(* Locals are apart. *)
LEMMA LocalsApartInPlace ==
  ASSUME PlaceInv, NEW l \in DOMAIN locals, NEW m \in DOMAIN locals, l # m
  PROVE  LocalCells(l) \cap LocalCells(m) = {}
<1>1. CASE locals[l].kind = "register" /\ locals[m].kind = "register"
  <2>1. Cells(locals[l].index, locals[l].pair) \cap Cells(locals[m].index, locals[m].pair) = {}
    BY <1>1 DEF PlaceInv, IInv, LocalsDisjoint, CellsOf
  <2>. QED  BY <1>1, <2>1, RegisterIs DEF LocalCells, WordCells
<1>2. CASE locals[l].kind = "slot" /\ locals[m].kind = "slot"
  <2>1. locals[l].index # locals[m].index
    BY <1>2, LaidFacts
  <2>. QED  BY <1>2, <2>1 DEF LocalCells, WordCells
<1>3. CASE locals[l].kind = "register" /\ locals[m].kind = "slot"
  BY <1>3, RegsAndFields DEF LocalCells, WordCells
<1>4. CASE locals[l].kind = "slot" /\ locals[m].kind = "register"
  BY <1>4, RegsAndFields DEF LocalCells, WordCells
<1>5. CASE locals[l].kind = "none" \/ locals[m].kind = "none"
  BY <1>5 DEF LocalCells, WordCells
<1>. QED  BY <1>1, <1>2, <1>3, <1>4, <1>5, LaidFacts

(* A temporary that is no alias is apart from every local. *)
LEMMA TempLocalApart ==
  ASSUME PlaceInv, NEW t \in DOMAIN temps, temps[t].kind # "alias", NEW l \in DOMAIN locals
  PROVE  TempCells(t) \cap LocalCells(l) = {}
<1>1. CASE temps[t].kind = "register" /\ locals[l].kind = "register"
  <2>1. Cells(temps[t].index, temps[t].pair) \cap Cells(locals[l].index, locals[l].pair) = {}
    BY <1>1 DEF PlaceInv, IInv, LocalsApart, TempsGiven, CellsOf
  <2>. QED  BY <1>1, <2>1, RegisterIs DEF LocalCells, TempCells, WordCells
<1>2. CASE temps[t].kind = "slot" /\ locals[l].kind = "slot"
  <2>1. temps[t].index # locals[l].index
    BY <1>2, LaidFacts DEF LocalLaid, TempLaid
  <2>. QED  BY <1>2, <2>1 DEF LocalCells, TempCells, WordCells
<1>3. CASE temps[t].kind = "register" /\ locals[l].kind = "slot"
  BY <1>3, RegsAndFields DEF LocalCells, TempCells, WordCells
<1>4. CASE temps[t].kind = "slot" /\ locals[l].kind = "register"
  BY <1>4, RegsAndFields DEF LocalCells, TempCells, WordCells
<1>5. CASE temps[t].kind \in {"virtual", "none"} \/ locals[l].kind = "none"
  BY <1>5 DEF LocalCells, TempCells, WordCells
<1>. QED  BY <1>1, <1>2, <1>3, <1>4, <1>5, LaidFacts

(* No home is a scratch register, and none is an outgoing word. *)
LEMMA HomesAreUsable ==
  ASSUME PlaceInv
  PROVE  /\ \A l \in DOMAIN locals : HomeCells(locals[l]) \subseteq Usable
         /\ \A t \in DOMAIN temps : HomeCells(temps[t]) \subseteq Usable
<1>1. \A l \in DOMAIN locals : HomeCells(locals[l]) \subseteq Usable
  BY LaidFacts DEF PlaceInv, RegistersInv, HomeCells, CellsOf
<1>2. Givable \subseteq Usable
  BY CalleeSavedUsable DEF PlaceInv, RegistersInv, Givable
<1>3. ASSUME NEW t \in DOMAIN temps PROVE HomeCells(temps[t]) \subseteq Usable
  <2>1. CASE temps[t].kind = "register"
    BY <1>2, <2>1 DEF PlaceInv, IInv, TempsGiven, HomeCells, CellsOf
  <2>2. CASE temps[t].kind = "alias"
    <3>1. PICK l : AliasOf(t, l)
      BY <2>2 DEF PlaceInv, AliasInv
    <3>2. l \in DOMAIN locals /\ HomeCells(temps[t]) = HomeCells(locals[l])
      BY <2>2, <3>1, AliasPlace DEF AliasOf, HomeCells
    <3>. QED  BY <1>1, <3>2
  <2>. QED  BY <2>1, <2>2 DEF HomeCells
<1>. QED  BY <1>1, <1>3

(* No home is lost when scratch registers are. *)
LEMMA PlacesAreNotScratch ==
  ASSUME PlaceInv
  PROVE  /\ \A l \in DOMAIN locals : LocalCells(l) \cap Regs(ScratchRegisters) = {}
         /\ \A t \in DOMAIN temps : TempCells(t) \cap Regs(ScratchRegisters) = {}
<1>1. ASSUME NEW p, HomeCells(p) \subseteq Usable PROVE WordCells(p) \cap Regs(ScratchRegisters) = {}
  <2>1. CASE p.kind \in {"register", "alias"}
    <3>1. Cells(p.index, p.pair) \cap ScratchRegisters = {}
      BY <1>1, <2>1 DEF HomeCells, Usable, ScratchRegisters
    <3>. QED  BY <2>1, <3>1, RegisterIs DEF WordCells
  <2>2. CASE p.kind = "slot"
    BY <2>2, RegsAndFields DEF WordCells
  <2>3. CASE p.kind \notin {"register", "alias", "slot"}
    BY <2>3 DEF WordCells
  <2>. QED  BY <2>1, <2>2, <2>3
<1>. QED  BY <1>1, HomesAreUsable DEF LocalCells, TempCells

LEMMA ScratchCellsAre ==
  ASSUME HomesInv, NEW b, NEW k, IsPoint(b, k), Here = InstrAt(b, k)
  PROVE  ScratchCells \subseteq Regs(ScratchRegisters) /\ Regs(kScratch) \subseteq Regs(ScratchRegisters)
<1>1. IsWideOp(Here) => UsesPairs
  BY DEF UsesPairs, Some, IsPoint
<1>. QED  BY <1>1 DEF ScratchCells, ScratchRegisters, Regs

(* What is live across the beginning of b lives across blocks. *)
EntersAcross(b) == \A t \in liveIn[b] : LivesAcross(t)

(* What is live in a block was live where it begins or has been defined. *)
LEMMA LiveInBlocks ==
  ASSUME HomesInv, LiveInv, PastLiveness, NEW b \in Blocks(code), NEW k \in Nat, NEW t \in LiveAfter(b, k)
  PROVE  t \in liveIn[b] \/ DefinedIn(b, 1, k, t)
BY LiveSinceEntry, EntryIsLiveIn

(* What an instruction defines shares no register with what is live after it. *)
LEMMA RegistersApart ==
  ASSUME PlaceInv, NEW b, NEW k, IsPoint(b, k), EntersAcross(b),
         NEW d, d = ResAt(b, k), NEW t \in LiveAfter(b, k), t # d,
         d \in DOMAIN temps, temps[d].kind = "register", temps[t].kind = "register"
  PROVE  ~Meeting(d, t)
<1>1. /\ b \in Blocks(code) /\ k \in Nat /\ k >= 1 /\ DOMAIN code.blocks[b] = 1..Len(code.blocks[b]) /\ k \in DOMAIN code.blocks[b]
      /\ PastLiveness /\ HomesInv /\ LiveInv
  BY PointFacts, LaidFacts DEF IsPoint, PlaceInv
<1>2. t \in DOMAIN temps
  BY <1>1, LiveAfterTemps
<1>3. d # NoTemp
  BY <1>1, TempsAreNumbered
<1>4. \A j \in 1..k : LET u == ResAt(b, j) IN u # NoTemp /\ LivesAcross(u) => u \in liveOut[b]
  <2>1. \A j \in 1..k : <<b, j>> \in Points
    BY <1>1, PointsAre, PointFacts DEF IsPoint
  <2>. QED  BY <1>1, <2>1 DEF PlaceInv, DefinitionsReachTheEnd, ResAt
<1>5. t \in liveIn[b] \/ \E j \in 1..(k - 1) : ResAt(b, j) = t
  <2>1. t \in liveIn[b] \/ DefinedIn(b, 1, k, t)
    BY <1>1, LiveInBlocks
  <2>2. DefinedIn(b, 1, k, t) => \E j \in 1..(k - 1) : ResAt(b, j) = t
    BY <1>1 DEF DefinedIn, ResAt
  <2>. QED  BY <2>1, <2>2
<1>6. LivesAcross(t) => b \in LiveBlocks(t)
  <2>1. t # NoTemp
    BY <1>1, <1>2, TempsAreNumbered
  <2>2. ASSUME LivesAcross(t), NEW j \in 1..(k - 1), ResAt(b, j) = t PROVE t \in liveOut[b]
    BY <1>1, <1>4, <2>1, <2>2
  <2>. QED  BY <1>1, <1>5, <2>2 DEF LiveBlocks
<1>7. LivesAcross(d) => b \in LiveBlocks(d)
  BY <1>1, <1>3, <1>4 DEF LiveBlocks
<1>8. \A u \in DOMAIN temps : temps[u].kind = "register" => (Crossing(u) <=> LivesAcross(u)) /\ (OfBlock(u) <=> ~LivesAcross(u))
  BY DEF Crossing, OfBlock
<1>9. CASE LivesAcross(d) /\ LivesAcross(t)
  <2>1. CrossingKept(d) /\ Crossing(t) /\ LiveBlocks(d) \cap LiveBlocks(t) # {}
    BY <1>2, <1>6, <1>7, <1>8, <1>9 DEF PlaceInv, ApartInv, CrossingInv
  <2>. QED  BY <1>2, <2>1 DEF CrossingKept
<1>10. CASE ~LivesAcross(d) /\ LivesAcross(t)
  <2>1. CrossingKept(t) /\ b \in LiveBlocks(t)
    BY <1>2, <1>6, <1>8, <1>10 DEF PlaceInv, ApartInv, CrossingInv
  <2>2. CellsOf(temps[t]) \subseteq reserved[b]
    BY <2>1 DEF CrossingKept
  <2>3. BlockValueKept(b, k)
    BY <1>1, <1>8, <1>10 DEF PlaceInv, ApartInv, BlockValuesInv
  <2>. QED  BY <2>2, <2>3 DEF BlockValueKept, Meeting
<1>11. CASE ~LivesAcross(t)
  <2>1. PICK j \in 1..(k - 1) : ResAt(b, j) = t
    BY <1>5, <1>11 DEF EntersAcross
  <2>2. j \in DOMAIN code.blocks[b] /\ k > j
    BY <1>1, <2>1, PointFacts
  <2>3. BlockValueKept(b, j)
    BY <1>1, <1>2, <1>8, <1>11, <2>1, <2>2 DEF PlaceInv, ApartInv, BlockValuesInv
  <2>4. CASE LivesAcross(d)
    <3>1. CrossingKept(d) /\ b \in LiveBlocks(d)
      BY <1>7, <1>8, <2>4 DEF PlaceInv, ApartInv, CrossingInv
    <3>2. CellsOf(temps[d]) \subseteq reserved[b]
      BY <3>1 DEF CrossingKept
    <3>. QED  BY <2>1, <2>3, <3>2 DEF BlockValueKept, Meeting
  <2>5. CASE ~LivesAcross(d)
    <3>1. t \notin liveOut[b]
      BY <1>1, <1>11 DEF LivesAcross
    <3>2. ReadAfter(b, k, t)
      BY <1>1, <3>1, LiveIsWanted
    <3>3. OfBlock(ResAt(b, k))
      BY <1>8, <2>5
    <3>4. ~Meeting(t, d)
      BY <1>1, <2>1, <2>2, <2>3, <3>2, <3>3 DEF BlockValueKept
    <3>. QED  BY <3>4 DEF Meeting
  <2>. QED  BY <2>4, <2>5
<1>. QED  BY <1>9, <1>10, <1>11

(* What it defines shares no field with what is live after it. *)
LEMMA SlotsApart ==
  ASSUME PlaceInv, NEW b, NEW k, IsPoint(b, k), NEW d, d = ResAt(b, k), NEW t \in LiveAfter(b, k), t # d,
         d \in DOMAIN temps, temps[d].kind = "slot", t \in DOMAIN temps, temps[t].kind = "slot"
  PROVE  temps[d].index # temps[t].index
<1>1. <<b, k>> \in Points
  BY PointsAre
<1>2. Meets(d, t)
  BY <1>1 DEF Meets, ResAt
<1>3. Interferes(d, t)
  BY <1>2 DEF Interferes
<1>4. TempLaid(d) /\ TempLaid(t) /\ FieldsApart
  BY LaidFacts DEF PlaceInv, FieldsInv
<1>. QED  BY <1>3, <1>4 DEF TempLaid, FieldsApart

(* What an instruction defines, unless it is a local's value, is apart from  *)
(* all that is live after it.                                              *)
LEMMA ResultSpares ==
  ASSUME PlaceInv, NEW b, NEW k, IsPoint(b, k), EntersAcross(b),
         NEW d, d = ResAt(b, k), NEW t \in LiveAfter(b, k), t # d, d \in DOMAIN temps, temps[d].kind # "alias"
  PROVE  TempCells(d) \cap TempCells(t) = {}
<1>1. t \in DOMAIN temps
  BY PointFacts, LiveAfterTemps DEF IsPoint, PlaceInv
<1>2. CASE temps[t].kind = "alias"
  <2>1. PICK l : AliasOf(t, l)
    BY <1>1, <1>2 DEF PlaceInv, AliasInv
  <2>2. l \in DOMAIN locals /\ TempCells(t) = LocalCells(l)
    BY <1>1, <1>2, <2>1, AliasPlace
  <2>. QED  BY <2>2, TempLocalApart
<1>3. CASE temps[d].kind = "register" /\ temps[t].kind = "register"
  <2>1. ~Meeting(d, t)
    BY <1>3, RegistersApart
  <2>2. Cells(temps[d].index, temps[d].pair) \cap Cells(temps[t].index, temps[t].pair) = {}
    BY <1>3, <2>1 DEF Meeting, CellsOf
  <2>. QED  BY <1>3, <2>2, RegisterIs DEF TempCells, WordCells
<1>4. CASE temps[d].kind = "slot" /\ temps[t].kind = "slot"
  <2>1. temps[d].index # temps[t].index
    BY <1>1, <1>4, SlotsApart
  <2>. QED  BY <1>4, <2>1 DEF TempCells, WordCells
<1>5. CASE temps[d].kind = "register" /\ temps[t].kind = "slot"
  BY <1>5, RegsAndFields DEF TempCells, WordCells
<1>6. CASE temps[d].kind = "slot" /\ temps[t].kind = "register"
  BY <1>6, RegsAndFields DEF TempCells, WordCells
<1>7. CASE temps[d].kind \in {"virtual", "none"} \/ temps[t].kind \in {"virtual", "none"}
  BY <1>7 DEF TempCells, WordCells
<1>. QED  BY <1>1, <1>2, <1>3, <1>4, <1>5, <1>6, <1>7, LaidFacts

(* A store to a local is apart from all that is live after it. *)
LEMMA StoreSpares ==
  ASSUME PlaceInv, NEW b, NEW k, IsPoint(b, k), InstrAt(b, k).op = "store",
         NEW l, l = FrameAddrLocal(InstrAt(b, k).use[1]), NEW t \in LiveAfter(b, k)
  PROVE  TempCells(t) \cap LocalCells(l) = {}
<1>1. t \in DOMAIN temps
  BY PointFacts, LiveAfterTemps DEF IsPoint, PlaceInv
<1>2. l \in DOMAIN locals
  BY AccessFacts DEF PlaceInv
<1>3. CASE temps[t].kind # "alias"
  BY <1>1, <1>2, <1>3, TempLocalApart
<1>4. CASE temps[t].kind = "alias"
  <2>1. PICK m : AliasOf(t, m)
    BY <1>1, <1>4 DEF PlaceInv, AliasInv
  <2>2. m \in DOMAIN locals /\ TempCells(t) = LocalCells(m)
    BY <1>1, <1>4, <2>1, AliasPlace
  <2>3. l # m
    <3>1. <<b, k>> \in Points
      BY PointsAre
    <3>2. InstrAt(b, k).use[1] \notin AddressesOf(m)
      BY <2>1, <3>1 DEF AliasOf, Clobbered
    <3>3. ~IsAddressOf(InstrAt(b, k).use[1], m)
      BY <3>2, AddressIsListed
    <3>4. IsAddressOf(InstrAt(b, k).use[1], l)
      BY AccessFacts DEF PlaceInv
    <3>. QED  BY <3>3, <3>4
  <2>. QED  BY <1>2, <2>2, <2>3, LocalsApartInPlace
<1>. QED  BY <1>3, <1>4

(* A temporary that is a local's value is loaded from that local, once. *)
LEMMA AliasIsLoaded ==
  ASSUME PlaceInv, NEW b, NEW k, IsPoint(b, k), NEW d, d = ResAt(b, k), d \in DOMAIN temps, temps[d].kind = "alias"
  PROVE  /\ InstrAt(b, k).op = "load" /\ AliasOf(d, FrameAddrLocal(InstrAt(b, k).use[1]))
<1>1. PICK l : AliasOf(d, l)
  BY DEF PlaceInv, AliasInv
<1>2. l \in LocalSlots(code) /\ locals[l].kind = "register" /\ IsLoadOf(d, l) /\ HomesInv
  BY <1>1 DEF AliasOf, InRegister, PlaceInv
<1>3. PICK c, m : IsPoint(c, m) /\ InstrAt(c, m).op = "load" /\ InstrAt(c, m).res = d /\ InstrAt(c, m).use[1] \in AddressesOf(l)
  BY <1>2 DEF IsLoadOf, Some, IsPoint
<1>4. InstrAt(c, m) = InstrAt(b, k)
  <2>1. DefCount(code, d) = 1
    BY <1>2, <1>3, PointFacts DEF IsSound
  <2>2. <<c, m>> \in Points /\ <<b, k>> \in Points
    BY <1>3, PointsAre
  <2>3. <<c, m>> = <<b, k>>
    BY <1>2, <1>3, <2>1, <2>2, DefinedInOnePlace DEF ResAt
  <2>. QED  BY <2>3
<1>5. PICK a : a = InstrAt(b, k).use[1]
  OBVIOUS
<1>6. FrameAddrLocal(a) = l
  <2>1. PICK q \in Points : InstrAt(q[1], q[2]).op = "frameaddr" /\ InstrAt(q[1], q[2]).num = l /\ InstrAt(q[1], q[2]).res = a
    BY <1>3, <1>4, <1>5 DEF AddressesOf
  <2>2. DefCount(code, a) = 1
    <3>1. ~Escapes(l)
      BY <1>2 DEF HomesInv, LocalHome
    <3>2. ~(DefCount(code, a) > 1)
      BY <1>3, <1>4, <1>5, <3>1 DEF Escapes
    <3>3. DefCount(code, a) \in Nat /\ DefCount(code, a) # 0
      <4>. DEFINE places == {r \in PointsOf(code) : code.blocks[r[1]][r[2]].res = a}
      <4>1. IsFiniteSet(places)
        <5>1. IsFiniteSet(PointsOf(code)) /\ places \in SUBSET PointsOf(code)
          BY <1>2 DEF HomesInv, WellFormed
        <5>. QED  BY <5>1, FS_Subset
      <4>2. places # {}
        BY <2>1 DEF Points, InstrAt
      <4>3. Cardinality(places) \in Nat /\ Cardinality(places) # 0
        <5>. HIDE DEF places
        <5>. QED  BY <4>1, <4>2, FS_CardinalityType, FS_EmptySet
      <4>. QED  BY <4>3 DEF DefCount
    <3>. QED  BY <3>2, <3>3
  <2>3. FrameAddrLocal(a) = FrameAddrLocal(InstrAt(b, k).use[1]) /\ InstrAt(b, k).op = "load"
    BY <1>3, <1>4, <1>5
  <2>4. IsAddressOf(a, FrameAddrLocal(a))
    BY <1>2, <1>5, <2>3, AccessFacts
  <2>5. PICK c2, m2 : IsPoint(c2, m2) /\ InstrAt(c2, m2).op = "frameaddr" /\ InstrAt(c2, m2).res = a /\ InstrAt(c2, m2).num = FrameAddrLocal(a)
    BY <2>4 DEF IsAddressOf, Some, IsPoint
  <2>6. <<c2, m2>> = q
    BY <1>2, <2>1, <2>2, <2>5, PointsAre, DefinedInOnePlace
  <2>. QED  BY <2>1, <2>5, <2>6
<1>. QED  BY <1>1, <1>3, <1>4, <1>5, <1>6

-----------------------------------------------------------------------------
(* The values that are somewhere. *)

(* The results a branch is fused with: never computed. *)
FusedResult(t) == \E b \in Blocks(code) : \E k \in DOMAIN code.blocks[b] : Fused(b, k) /\ t \in {ResAt(b, k - 1), ResAt(b, k - 2)}
(* A value the emitted code computes and keeps: neither the address of a     *)
(* local in a register, nor a constant that is always an immediate, nor      *)
(* what a fused branch compares.                                           *)
Tracked(t) == temps[t].kind # "virtual" /\ ~Suppressed(t) /\ ~FusedResult(t)

(* Only a load or a store reads the address of a local in a register. *)
LEMMA ReadIsNotVirtual ==
  ASSUME HomesInv, NEW b, NEW k, IsPoint(b, k), NEW n \in DOMAIN InstrAt(b, k).use,
         ~(InstrAt(b, k).op \in {"load", "store"} /\ n = 1)
  PROVE  temps[InstrAt(b, k).use[n]].kind # "virtual"
<1>1. PICK t : t = InstrAt(b, k).use[n]
  OBVIOUS
<1>2. t \in DOMAIN temps
  BY <1>1, PointFacts, OperandFacts DEF HomesInv
<1>3. ASSUME temps[t].kind = "virtual" PROVE FALSE
  <2>1. PICK l \in LocalSlots(code) : InRegister(l) /\ IsAddressOf(t, l)
    BY <1>2, <1>3 DEF HomesInv, TempHome
  <2>2. ~Escapes(l) /\ t \in AddressesOf(l)
    BY <2>1, AddressIsListed DEF HomesInv, LocalHome, InRegister
  <2>. QED  BY <1>1, <2>2 DEF Escapes, Some, IsPoint
<1>. QED  BY <1>1, <1>3

(* Only word operations read a suppressed constant, as their second operand. *)
LEMMA ReadIsNotSuppressed ==
  ASSUME NEW b, NEW k, IsPoint(b, k), NEW n \in DOMAIN InstrAt(b, k).use,
         Suppressed(InstrAt(b, k).use[n])
  PROVE  InstrAt(b, k).op \in {"binop", "cmp", "condjump"} /\ ~InstrAt(b, k).wide /\ n = 2
BY DEF Suppressed, Some, IsPoint

(* Only the branch reads what a fused branch compares. *)
LEMMA ReadIsNotFused ==
  ASSUME HomesInv, NEW b, NEW k, IsPoint(b, k), NEW n \in DOMAIN InstrAt(b, k).use,
         FusedResult(InstrAt(b, k).use[n])
  PROVE  Fused(b, k)
<1>1. PICK t : t = InstrAt(b, k).use[n]
  OBVIOUS
<1>2. PICK c, m : IsPoint(c, m) /\ Fused(c, m) /\ t \in {ResAt(c, m - 1), ResAt(c, m - 2)}
  BY <1>1 DEF FusedResult, IsPoint
<1>3. /\ InstrAt(c, m).op = "condjump" /\ UseCount(code, t) = 1
      /\ \E j \in {1, 2} : InstrAt(c, m).use[j] = t
  BY <1>2 DEF Fused, ResAt, Uses
<1>4. IsPoint(c, m) /\ DOMAIN InstrAt(c, m).use = {1, 2}
  BY <1>2, <1>3, PointFacts, OperandFacts DEF IsPoint
<1>5. PICK j \in DOMAIN InstrAt(c, m).use : InstrAt(c, m).use[j] = t
  BY <1>3, <1>4
<1>6. <<b, k>> \in Points /\ <<c, m>> \in Points
  BY <1>4, PointsAre
<1>7. <<b, k>> = <<c, m>>
  BY <1>1, <1>3, <1>5, <1>6, ReadInOnePlace
<1>. QED  BY <1>2, <1>7

(* What an instruction reads is somewhere, and is one of its operands or of  *)
(* those of the comparison it is fused with.                               *)
LEMMA ReadIsTracked ==
  ASSUME HomesInv, NEW b, NEW k, IsPoint(b, k), NEW t \in ReadBy(b, k)
  PROVE  /\ Tracked(t)
         /\ IF Fused(b, k) THEN t \in Operands(InstrAt(b, k - 2)) ELSE t \in Operands(InstrAt(b, k))
<1>1. PICK m : m = IF Fused(b, k) THEN k - 2 ELSE k
  OBVIOUS
<1>2. /\ IsPoint(b, m)
      /\ Fused(b, k) => InstrAt(b, m).op = "cmp"
      /\ ~Fused(b, m)
  <2>1. CASE Fused(b, k)
    <3>1. k \in Nat /\ k > 2 /\ m = k - 2 /\ InstrAt(b, m).op = "cmp"
      BY <1>1, <2>1, PointFacts DEF Fused
    <3>2. m \in DOMAIN code.blocks[b]
      BY <3>1, PointFacts
    <3>. QED  BY <3>1, <3>2 DEF Fused, IsPoint
  <2>2. CASE ~Fused(b, k)
    BY <1>1, <2>2
  <2>. QED  BY <2>1, <2>2
<1>3. PICK i : i = InstrAt(b, m)
  OBVIOUS
<1>4. ~EmitsNothing(b, k)
  BY DEF ReadBy
<1>5. t \in (IF i.op \in {"binop", "cmp", "condjump"} THEN {i.use[1]} \cup SecondOperand(i)
            ELSE {u \in Operands(i) : temps[u].kind # "virtual"})
  BY <1>1, <1>3, <1>4 DEF ReadBy
<1>6. \E n \in DOMAIN i.use : /\ i.use[n] = t
                              /\ i.op \in {"binop", "cmp", "condjump"} /\ n = 2 => i.wide \/ ~ImmediateFor(t)
                              /\ i.op \notin {"binop", "cmp", "condjump"} => temps[t].kind # "virtual"
  <2>1. CASE i.op \in {"binop", "cmp", "condjump"}
    <3>1. DOMAIN i.use = {1, 2}
      BY <1>2, <1>3, <2>1, PointFacts, OperandFacts
    <3>2. t \in {i.use[1]} \cup SecondOperand(i)
      BY <1>5, <2>1
    <3>3. CASE t = i.use[1]
      BY <2>1, <3>1, <3>3
    <3>4. CASE t \in SecondOperand(i)
      BY <2>1, <3>1, <3>4 DEF SecondOperand
    <3>. QED  BY <3>2, <3>3, <3>4
  <2>2. CASE i.op \notin {"binop", "cmp", "condjump"}
    BY <1>5, <2>2 DEF Operands
  <2>. QED  BY <2>1, <2>2
<1>7. PICK n \in DOMAIN i.use : /\ i.use[n] = t
                                /\ i.op \in {"binop", "cmp", "condjump"} /\ n = 2 => i.wide \/ ~ImmediateFor(t)
                                /\ i.op \notin {"binop", "cmp", "condjump"} => temps[t].kind # "virtual"
  BY <1>6
<1>8. temps[t].kind # "virtual"
  BY <1>2, <1>3, <1>7, ReadIsNotVirtual
<1>9. ~Suppressed(t)
  <2>1. Suppressed(t) => i.op \in {"binop", "cmp", "condjump"} /\ ~i.wide /\ n = 2
    BY <1>2, <1>3, <1>7, ReadIsNotSuppressed
  <2>. QED  BY <1>7, <2>1 DEF Suppressed
<1>10. ~FusedResult(t)
  BY <1>2, <1>3, <1>7, ReadIsNotFused
<1>11. t \in Operands(i)
  BY <1>2, <1>3, <1>7, PointFacts, OperandFacts
<1>. QED  BY <1>1, <1>3, <1>8, <1>9, <1>10, <1>11 DEF Tracked

(* So is what an argument passes. *)
LEMMA ParamIsTracked ==
  ASSUME HomesInv, NEW b, NEW k, IsPoint(b, k), InstrAt(b, k).op = "param"
  PROVE  1 \in DOMAIN InstrAt(b, k).use /\ Tracked(InstrAt(b, k).use[1]) /\ InstrAt(b, k).use[1] \in Operands(InstrAt(b, k))
<1>1. 1 \in DOMAIN InstrAt(b, k).use /\ InstrAt(b, k).use[1] \in Operands(InstrAt(b, k))
  BY PointFacts, OperandFacts
<1>2. ~Fused(b, k)
  BY DEF Fused
<1>. QED  BY <1>1, <1>2, ReadIsNotVirtual, ReadIsNotSuppressed, ReadIsNotFused DEF Tracked

(* What is somewhere and referenced has a home. *)
LEMMA TrackedHasHome ==
  ASSUME PlaceInv, NEW b, NEW k, IsPoint(b, k), NEW t \in DOMAIN temps, Tracked(t),
         t = ResAt(b, k) \/ t \in Operands(InstrAt(b, k))
  PROVE  HasHome(temps[t]) /\ temps[t].kind \in {"slot", "register", "alias"}
<1>1. Referenced(t)
  BY DEF Referenced, Some, IsPoint, ResAt
<1>. QED  BY <1>1, LaidFacts DEF Tracked, HasHome

-----------------------------------------------------------------------------
(* What cells hold. *)

(* The cells of the fields are there. *)
FieldCells == phase \in Underway => \A n \in DOMAIN fields : \A w \in {0, 1} : <<"field", n, w>> \in DOMAIN holds

(* Every cell of a home is there. *)
LEMMA PlacesThere ==
  ASSUME PlaceInv, FrameInv, FieldCells, phase \in Underway
  PROVE  /\ \A t \in DOMAIN temps : TempCells(t) \subseteq DOMAIN holds
         /\ \A l \in DOMAIN locals : LocalCells(l) \subseteq DOMAIN holds
<1>1. \A S \in SUBSET Usable : Regs(S) \subseteq DOMAIN holds
  BY DEF FrameInv, Usable, Regs
<1>2. ASSUME NEW p, HomeCells(p) \subseteq Usable, p.kind = "slot" => p.index \in DOMAIN fields PROVE WordCells(p) \subseteq DOMAIN holds
  <2>1. CASE p.kind \in {"register", "alias"}
    BY <1>1, <1>2, <2>1 DEF HomeCells, WordCells
  <2>2. CASE p.kind = "slot"
    BY <1>2, <2>2 DEF FieldCells, WordCells
  <2>3. CASE p.kind \notin {"register", "alias", "slot"}
    BY <2>3 DEF WordCells
  <2>. QED  BY <2>1, <2>2, <2>3
<1>. QED  BY <1>2, HomesAreUsable, LaidFacts DEF TempCells, LocalCells, TempLaid, LocalLaid

LEMMA TempWords ==
  ASSUME PlaceInv, NEW t \in DOMAIN temps, HasHome(temps[t])
  PROVE  /\ \A w \in WordsOf(IsPair(t)) : w \in {0, 1} /\ WordCell(temps[t], w) \in TempCells(t)
         /\ \A v, w \in {0, 1} : WordCell(temps[t], v) = WordCell(temps[t], w) => v = w
<1>1. /\ temps[t].kind # "out"
      /\ temps[t].kind \in {"register", "alias"} => temps[t].index \in Nat /\ (IsPair(t) => temps[t].pair)
  BY LaidFacts DEF PlaceInv, HomesInv, TempHome
<1>2. \A w \in WordsOf(IsPair(t)) : w \in {0, 1} /\ (w = 1 => IsPair(t))
  BY WordsAre
<1>. QED  BY <1>1, <1>2, WordIsInPlace, WordsApart DEF TempCells

LEMMA LocalWords ==
  ASSUME PlaceInv, NEW l \in DOMAIN locals, HasHome(locals[l])
  PROVE  /\ \A w \in WordsOf(IsWideLocal(l)) : w \in {0, 1} /\ WordCell(locals[l], w) \in LocalCells(l)
         /\ \A v, w \in {0, 1} : WordCell(locals[l], v) = WordCell(locals[l], w) => v = w
<1>1. /\ locals[l].kind \notin {"out", "alias"}
      /\ locals[l].kind = "register" => locals[l].index \in Nat /\ locals[l].pair = IsWideLocal(l)
  BY LaidFacts DEF PlaceInv, HomesInv, LocalHome
<1>2. \A w \in WordsOf(IsWideLocal(l)) : w \in {0, 1} /\ (w = 1 => IsWideLocal(l))
  BY WordsAre
<1>. QED  BY <1>1, <1>2, WordIsInPlace, WordsApart DEF LocalCells

(* A value that is somewhere stays there if its cells keep its tokens. *)
LEMMA HoldsOn ==
  ASSUME PlaceInv, NEW t \in DOMAIN temps, Holds(t), UNCHANGED <<code, temps>>,
         \A c \in TempCells(t) : \A w \in {0, 1} : Temp(t, w) \in holds[c] => Temp(t, w) \in holds'[c]
  PROVE  Holds(t)'
<1>1. HasHome(temps[t])
  BY WordsAre DEF Holds, Found
<1>2. \A w \in WordsOf(IsPair(t)) : Temp(t, w) \in holds'[WordCell(temps[t], w)]
  BY <1>1, TempWords DEF Holds, Found
<1>. QED  BY <1>1, <1>2, CodeFactsKept DEF Holds, Found, Temp, WordCell, HasHome

(* A local stays in its home if its words do. *)
LEMMA HoldsLocalOn ==
  ASSUME PlaceInv, NEW l \in DOMAIN locals, HoldsLocal(l, IsWideLocal(l)), UNCHANGED <<code, locals>>,
         \A c \in LocalCells(l) : \A w \in {0, 1} : Local(l, w) \in holds[c] => Local(l, w) \in holds'[c]
  PROVE  HoldsLocal(l, IsWideLocal(l))'
<1>1. HasHome(locals[l])
  BY WordsAre DEF HoldsLocal, Found
<1>2. \A w \in WordsOf(IsWideLocal(l)) : Local(l, w) \in holds'[WordCell(locals[l], w)]
  BY <1>1, LocalWords DEF HoldsLocal, Found
<1>. QED  BY <1>1, <1>2 DEF HoldsLocal, Found, Local, WordCell, HasHome, IsWideLocal

-----------------------------------------------------------------------------
(* What a move leaves and brings. *)

(* What is moved to a home is found there. *)
LEMMA WrittenThere ==
  ASSUME NEW home, HasHome(home), NEW moved, NEW lost, DOMAIN moved \subseteq {0, 1}, NEW w \in DOMAIN moved,
         \A u, v \in {0, 1} : WordCell(home, u) = WordCell(home, v) => u = v,
         WordCell(home, w) \in DOMAIN holds
  PROVE  Written(home, moved, lost)[WordCell(home, w)] = moved[w]
<1>1. (CHOOSE v \in DOMAIN moved : WordCell(home, w) = WordCell(home, v)) = w
  OBVIOUS
<1>. QED  BY <1>1 DEF Written

(* A renewed value leaves the others' tokens where they are not overwritten. *)
LEMMA RenewedKeeps ==
  ASSUME NEW kind, NEW id, NEW home, NEW moved, NEW lost, NEW c \in DOMAIN holds, NEW token,
         token \in Written(home, moved, lost)[c], \A w \in DOMAIN moved : token # <<kind, id, w>>
  PROVE  token \in Renewed(kind, id, home, moved, lost)[c]
<1>1. c \in DOMAIN Written(home, moved, lost)
  BY DEF Written
<1>. QED  BY <1>1 DEF Renewed

(* ... and is itself in its home. *)
LEMMA RenewedOwn ==
  ASSUME NEW kind, NEW id, NEW home, HasHome(home), NEW moved, NEW lost, NEW w \in DOMAIN moved, WordCell(home, w) \in DOMAIN holds
  PROVE  <<kind, id, w>> \in Renewed(kind, id, home, moved, lost)[WordCell(home, w)]
<1>1. WordCell(home, w) \in DOMAIN Written(home, moved, lost)
  BY DEF Written
<1>. QED  BY <1>1 DEF Renewed

(* A cell of another home keeps what it holds; so does one of a local whose  *)
(* value is renamed.                                                       *)
LEMMA SparedCell ==
  ASSUME PlaceInv, NEW d \in DOMAIN temps, NEW moved, DOMAIN moved \subseteq WordsOf(IsPair(d)), NEW lost,
         NEW c \in DOMAIN holds, c \notin lost,
         c \notin TempCells(d) \/ \A w \in DOMAIN moved : moved[w] = Found(temps[d], w)
  PROVE  Written(temps[d], moved, lost)[c] = holds[c]
<1>1. CASE HasHome(temps[d]) => \A w \in DOMAIN moved : c # WordCell(temps[d], w)
  BY <1>1, WrittenElsewhere
<1>2. CASE HasHome(temps[d]) /\ \E w \in DOMAIN moved : c = WordCell(temps[d], w)
  <2>1. PICK w \in DOMAIN moved : c = WordCell(temps[d], w)
    BY <1>2
  <2>2. c \in TempCells(d) /\ w \in {0, 1} /\ DOMAIN moved \subseteq {0, 1}
    BY <1>2, <2>1, TempWords
  <2>3. moved[w] = holds[c]
    BY <1>2, <2>1, <2>2 DEF Found
  <2>4. Written(temps[d], moved, lost)[c] = moved[w]
    BY <1>2, <2>1, <2>2, TempWords, WrittenThere
  <2>. QED  BY <2>3, <2>4
<1>. QED  BY <1>1, <1>2

(* A value defined: it is where it lives, and whatever is live past it, and  *)
(* every local, stays where it was.                                        *)
LEMMA DefineSpares ==
  ASSUME PlaceInv, FrameInv, FieldCells, phase \in Underway, NEW b, NEW k, IsPoint(b, k), EntersAcross(b),
         NEW d \in DOMAIN temps, d = ResAt(b, k), NEW moved, DOMAIN moved = WordsOf(IsPair(d)), NEW lost,
         temps[d].kind = "alias" => \A w \in DOMAIN moved : moved[w] = Found(temps[d], w),
         holds' = Renewed("temp", d, temps[d], moved, lost), UNCHANGED <<code, temps, locals>>
  PROVE  /\ \A t \in LiveAfter(b, k) : t # d /\ TempCells(t) \cap lost = {} /\ Holds(t) => Holds(t)'
         /\ \A l \in DOMAIN locals : LocalCells(l) \cap lost = {} /\ HoldsLocal(l, IsWideLocal(l)) => HoldsLocal(l, IsWideLocal(l))'
         /\ HasHome(temps[d]) => Holds(d)'
<1>1. ASSUME NEW t \in LiveAfter(b, k), t # d, TempCells(t) \cap lost = {}, Holds(t) PROVE Holds(t)'
  <2>1. t \in DOMAIN temps /\ TempCells(t) \subseteq DOMAIN holds
    BY PointFacts, LiveAfterTemps, PlacesThere DEF IsPoint, PlaceInv
  <2>2. temps[d].kind # "alias" => TempCells(d) \cap TempCells(t) = {}
    BY <1>1, ResultSpares
  <2>3. \A c \in TempCells(t) : Written(temps[d], moved, lost)[c] = holds[c]
    BY <1>1, <2>1, <2>2, SparedCell
  <2>4. \A w, v : Temp(t, w) # <<"temp", d, v>>
    BY <1>1 DEF Temp
  <2>5. \A c \in TempCells(t) : \A w \in {0, 1} : Temp(t, w) \in holds[c] => Temp(t, w) \in holds'[c]
    BY <2>1, <2>3, <2>4, RenewedKeeps
  <2>. QED  BY <1>1, <2>1, <2>5, HoldsOn
<1>2. ASSUME NEW l \in DOMAIN locals, LocalCells(l) \cap lost = {}, HoldsLocal(l, IsWideLocal(l)) PROVE HoldsLocal(l, IsWideLocal(l))'
  <2>1. LocalCells(l) \subseteq DOMAIN holds
    BY PlacesThere
  <2>2. temps[d].kind # "alias" => TempCells(d) \cap LocalCells(l) = {}
    BY TempLocalApart
  <2>3. \A c \in LocalCells(l) : Written(temps[d], moved, lost)[c] = holds[c]
    BY <1>2, <2>1, <2>2, SparedCell
  <2>4. \A w, v : Local(l, w) # <<"temp", d, v>>
    BY DEF Local
  <2>5. \A c \in LocalCells(l) : \A w \in {0, 1} : Local(l, w) \in holds[c] => Local(l, w) \in holds'[c]
    BY <2>1, <2>3, <2>4, RenewedKeeps
  <2>. QED  BY <1>2, <2>5, HoldsLocalOn
<1>3. ASSUME HasHome(temps[d]) PROVE Holds(d)'
  <2>1. \A w \in WordsOf(IsPair(d)) : WordCell(temps[d], w) \in DOMAIN holds
    BY <1>3, TempWords, PlacesThere
  <2>2. \A w \in WordsOf(IsPair(d)) : Temp(d, w) \in holds'[WordCell(temps[d], w)]
    BY <1>3, <2>1, RenewedOwn DEF Temp
  <2>. QED  BY <1>3, <2>2, CodeFactsKept DEF Holds, Found, Temp, WordCell, HasHome
<1>. QED  BY <1>1, <1>2, <1>3

-----------------------------------------------------------------------------
(* Where the emitted code has come to, everything still wanted is where it  *)
(* lives.                                                                  *)

(* What the instruction k of b and those after it may find: what is live     *)
(* before it, what a fused branch compares, and what the arguments of a call *)
(* about to be made pass.                                                  *)
Pending(b, k) ==
  {t \in DOMAIN temps :
     /\ Tracked(t)
     /\ \/ t \in LiveAfter(b, k - 1)
        \/ Fused(b, k) /\ t \in Operands(InstrAt(b, k - 2))
        \/ Fused(b, k + 1) /\ t \in Operands(InstrAt(b, k - 1))
        \/ \E j \in 1..(k - 1) : /\ \A m \in j..(k - 1) : InstrAt(b, m).op = "param"
                                 /\ t \in Operands(InstrAt(b, j))}

(* Every local with a home is in it, ... *)
LocalsHold == phase \in {"run", "call"} => \A l \in DOMAIN locals : HasHome(locals[l]) => HoldsLocal(l, IsWideLocal(l))
(* ... and so is every value an instruction may still find. *)
RunHolds   == phase = "run" => \A b, k : cursor = <<b, k>> => EntersAcross(b) /\ \A t \in Pending(b, k) : Holds(t)

LEMMA PendingKept ==
  ASSUME UNCHANGED <<code, temps, liveVars>>, NEW b, NEW k
  PROVE  /\ Pending(b, k)' = Pending(b, k) /\ EntersAcross(b)' = EntersAcross(b)
         /\ \A t : Tracked(t)' = Tracked(t)
<1>1. /\ \A t : Suppressed(t)' = Suppressed(t)
      /\ \A c, m : Fused(c, m)' = Fused(c, m)
  BY DEF Suppressed, ImmediateFor, Defs, Some, InstrAt, Fused, Uses
<1>2. \A t : FusedResult(t)' = FusedResult(t)
  BY <1>1 DEF FusedResult, ResAt, InstrAt
<1>3. \A t : Tracked(t)' = Tracked(t)
  BY <1>1, <1>2 DEF Tracked
<1>4. LiveAfter(b, k - 1)' = LiveAfter(b, k - 1)
  BY LiveAfterKept
<1>5. Pending(b, k)' = Pending(b, k)
  BY <1>1, <1>3, <1>4 DEF Pending, InstrAt
<1>6. EntersAcross(b)' = EntersAcross(b)
  BY AcrossKept DEF EntersAcross, liveVars
<1>. QED  BY <1>3, <1>5, <1>6

(* What an instruction that emits nothing defines is nowhere. *)
LEMMA SilentResult ==
  ASSUME HomesInv, NEW b, NEW k, IsPoint(b, k), EmitsNothing(b, k), ResAt(b, k) # NoTemp
  PROVE  ~Tracked(ResAt(b, k))
<1>1. k \in Nat /\ k >= 1 /\ DOMAIN code.blocks[b] = 1..Len(code.blocks[b]) /\ Len(code.blocks[b]) \in Nat
  BY PointFacts
<1>2. CASE Fused(b, k + 1)
  <2>1. k + 1 \in DOMAIN code.blocks[b] /\ b \in Blocks(code) /\ (k + 1) - 1 = k
    BY <1>1, <1>2 DEF Fused, IsPoint
  <2>2. FusedResult(ResAt(b, k))
    BY <1>2, <2>1 DEF FusedResult
  <2>. QED  BY <2>2 DEF Tracked
<1>3. CASE Fused(b, k + 2)
  <2>1. k + 2 \in DOMAIN code.blocks[b] /\ b \in Blocks(code) /\ (k + 2) - 2 = k
    BY <1>1, <1>3 DEF Fused, IsPoint
  <2>2. FusedResult(ResAt(b, k))
    BY <1>3, <2>1 DEF FusedResult
  <2>. QED  BY <2>2 DEF Tracked
<1>4. CASE InstrAt(b, k).op = "param"
  <2>1. ResAt(b, k) = NoTemp
    BY <1>4, PointFacts DEF IsSound, ResAt
  <2>. QED  BY <2>1
<1>5. CASE \/ InstrAt(b, k).op = "const" /\ ~InstrAt(b, k).wide /\ Suppressed(InstrAt(b, k).res)
           \/ InstrAt(b, k).op = "frameaddr" /\ temps[InstrAt(b, k).res].kind = "virtual"
  BY <1>5 DEF Tracked, ResAt
<1>. QED  BY <1>2, <1>3, <1>4, <1>5 DEF EmitsNothing

(* Past an instruction that emits nothing nothing new is wanted ... *)
LEMMA PendingPassed ==
  ASSUME HomesInv, NEW b, NEW k, IsPoint(b, k), EmitsNothing(b, k)
  PROVE  Pending(b, k + 1) \subseteq Pending(b, k)
<1>1. k \in Nat /\ k >= 1 /\ (k + 1) - 1 = k /\ (k + 1) - 2 = k - 1 /\ (k + 1) + 1 = k + 2
  BY PointFacts
<1>2. SUFFICES ASSUME NEW t \in Pending(b, k + 1) PROVE t \in Pending(b, k)
  OBVIOUS
<1>3. t \in DOMAIN temps /\ Tracked(t) /\ t # NoTemp
  BY TempsAreNumbered DEF Pending
<1>4. CASE t \in LiveAfter(b, k)
  <2>1. t # InstrAt(b, k).res
    BY <1>3, SilentResult DEF ResAt
  <2>2. t \in LiveAfter(b, k - 1)
    BY <1>4, <2>1, LiveBefore
  <2>. QED  BY <1>3, <2>2 DEF Pending
<1>5. CASE Fused(b, k + 1) /\ t \in Operands(InstrAt(b, k - 1))
  BY <1>3, <1>5 DEF Pending
<1>6. CASE t \in Operands(InstrAt(b, k))
  <2>1. t \in LiveAfter(b, k - 1)
    BY <1>6, LiveBefore
  <2>. QED  BY <1>3, <2>1 DEF Pending
<1>7. CASE \E j \in 1..k : (\A m \in j..k : InstrAt(b, m).op = "param") /\ t \in Operands(InstrAt(b, j))
  <2>1. PICK j \in 1..k : (\A m \in j..k : InstrAt(b, m).op = "param") /\ t \in Operands(InstrAt(b, j))
    BY <1>7
  <2>2. CASE j = k
    BY <1>6, <2>1, <2>2
  <2>3. CASE j # k
    <3>1. j \in 1..(k - 1) /\ \A m \in j..(k - 1) : InstrAt(b, m).op = "param"
      BY <1>1, <2>1, <2>3
    <3>. QED  BY <1>3, <2>1, <3>1 DEF Pending
  <2>. QED  BY <2>2, <2>3
<1>8. \/ t \in LiveAfter(b, k) \/ (Fused(b, k + 1) /\ t \in Operands(InstrAt(b, k - 1))) \/ t \in Operands(InstrAt(b, k))
      \/ \E j \in 1..k : (\A m \in j..k : InstrAt(b, m).op = "param") /\ t \in Operands(InstrAt(b, j))
  BY <1>1, <1>2 DEF Pending
<1>. QED  BY <1>4, <1>5, <1>6, <1>7, <1>8

(* ... and past any other, only what is live. *)
LEMMA PendingIsLive ==
  ASSUME HomesInv, NEW b, NEW k, IsPoint(b, k), ~EmitsNothing(b, k), NEW t \in Pending(b, k + 1)
  PROVE  /\ t \in LiveAfter(b, k) /\ t \in DOMAIN temps /\ Tracked(t)
         /\ t = ResAt(b, k) \/ t \in Pending(b, k)
<1>1. k \in Nat /\ k >= 1 /\ (k + 1) - 1 = k /\ (k + 1) - 2 = k - 1 /\ (k + 1) + 1 = k + 2
  BY PointFacts
<1>2. ~Fused(b, k + 1) /\ ~Fused(b, k + 2) /\ InstrAt(b, k).op # "param"
  BY DEF EmitsNothing
<1>3. \A j \in 1..k : ~(\A m \in j..k : InstrAt(b, m).op = "param")
  BY <1>1, <1>2
<1>4. t \in LiveAfter(b, k) /\ t \in DOMAIN temps /\ Tracked(t)
  BY <1>1, <1>2, <1>3 DEF Pending
<1>5. t = ResAt(b, k) \/ t \in LiveAfter(b, k - 1)
  BY <1>4, LiveBefore DEF ResAt
<1>. QED  BY <1>4, <1>5 DEF Pending

(* At the beginning of a block only what is live is wanted. *)
LEMMA PendingAtEntry ==
  ASSUME NEW b
  PROVE  Pending(b, 1) \subseteq LiveAfter(b, 0)
<1>1. ~Fused(b, 1) /\ ~Fused(b, 2)
  BY DEF Fused
<1>. QED  BY <1>1 DEF Pending

-----------------------------------------------------------------------------
(* The steps within a block. *)

(* What each step of the emitted code may take for granted. *)
ExecInv == PlaceInv /\ RunInv /\ FrameInv /\ FieldCells

(* Where the code stands. *)
Standing(b, k) == phase = "run" /\ cursor = <<b, k>> /\ IsPoint(b, k) /\ Here = InstrAt(b, k)

LEMMA StandsSomewhere ==
  ASSUME RunInv, phase = "run"
  PROVE  \E b, k : Standing(b, k)
BY DEF RunInv, CursorInv, Standing, Here

(* To go on it is enough that what the next instruction may find is there. *)
LEMMA RunGoesOn ==
  ASSUME NEW b, NEW k, phase' = "run" => cursor' = <<b, k>>, UNCHANGED <<code, temps, liveVars>>, EntersAcross(b),
         \A t \in Pending(b, k) : Holds(t)'
  PROVE  RunHolds'
<1>. SUFFICES ASSUME phase' = "run", NEW c, NEW m, cursor' = <<c, m>> PROVE EntersAcross(c)' /\ \A t \in Pending(c, m)' : Holds(t)'
  BY DEF RunHolds
<1>1. Pending(c, m)' = Pending(c, m) /\ EntersAcross(c)' = EntersAcross(c)
  BY PendingKept
<1>2. c = b /\ m = k
  OBVIOUS
<1>. QED  BY <1>1, <1>2

(* An instruction that emits nothing. *)
LEMMA PassHolds ==
  ASSUME ExecInv, RunHolds, LocalsHold, Pass
  PROVE  RunHolds' /\ LocalsHold'
<1>1. PICK b, k : Standing(b, k)
  BY StandsSomewhere DEF ExecInv, Pass, Running
<1>2. /\ EmitsNothing(b, k) /\ cursor' = <<b, k + 1>> /\ phase' = "run"
      /\ UNCHANGED <<code, temps, locals, liveVars, holds>>
  BY <1>1 DEF Pass, Standing, Advance, EnterPhase, placed, executionVars
<1>3. \A t : Holds(t)' = Holds(t)
  BY <1>2, CodeFactsKept DEF Holds, Found
<1>4. \A t \in Pending(b, k + 1) : Holds(t)'
  BY <1>1, <1>2, <1>3, PendingPassed DEF RunHolds, Standing, ExecInv, RunInv
<1>5. RunHolds'
  BY <1>1, <1>2, <1>4, RunGoesOn DEF RunHolds, Standing
<1>6. LocalsHold'
  BY <1>1, <1>2 DEF LocalsHold, HoldsLocal, Found, IsWideLocal, Standing
<1>. QED  BY <1>5, <1>6

LEMMA PlaceFacts ==
  ASSUME ExecInv
  PROVE  /\ PlaceInv /\ RunInv /\ FrameInv /\ FieldCells
         /\ IInv /\ HomesInv /\ LiveInv /\ NumberedInv /\ CursorInv
         /\ DOMAIN temps = Temps(code) /\ DOMAIN locals = LocalSlots(code)
BY DEF ExecInv, PlaceInv, RunInv, HomesInv

(* The words of what an instruction defines. *)
LEMMA DefinedWords ==
  ASSUME HomesInv, NEW b, NEW k, IsPoint(b, k), ResAt(b, k) # NoTemp
  PROVE  WordsOf(IsPair(ResAt(b, k))) = WordsOf(DefinesPair(InstrAt(b, k)))
<1>1. InstrAt(b, k) \in Instrs(code) /\ IsSound(code, InstrAt(b, k))
  BY PointFacts
<1>2. IsPair(ResAt(b, k)) => DefinesPair(InstrAt(b, k))
  <2>. SUFFICES ASSUME IsPair(ResAt(b, k)) PROVE DefinesPair(InstrAt(b, k))
    OBVIOUS
  <2>1. PICK j \in Instrs(code) : j.res = ResAt(b, k) /\ DefinesPair(j)
    BY DEF IsPair, Some, Instrs, InstrAt
  <2>2. IsSound(code, j)
    BY DEF HomesInv, WellFormed
  <2>. QED  BY <1>1, <2>1, <2>2 DEF IsSound, ResAt
<1>3. DefinesPair(InstrAt(b, k)) => IsPair(ResAt(b, k))
  BY DEF IsPair, Some, IsPoint, ResAt
<1>. QED  BY <1>2, <1>3 DEF WordsOf

(* A definition: its own words are in its home, the rest is spared. *)
LEMMA DefineHolds ==
  ASSUME ExecInv, RunHolds, LocalsHold, NEW b, NEW k, Standing(b, k), ~EmitsNothing(b, k),
         Here.op \notin Terminators \cup {"store", "param"},
         NEW moved, DOMAIN moved = WordsOf(DefinesPair(Here)),
         temps[Here.res].kind = "alias" => \A w \in DOMAIN moved : moved[w] = Found(temps[Here.res], w),
         Defines(moved)
  PROVE  RunHolds' /\ LocalsHold'
<1>1. /\ IsPoint(b, k) /\ Here = InstrAt(b, k) /\ phase = "run" /\ phase \in Underway
      /\ cursor' = <<b, k + 1>> /\ phase' = "run" /\ UNCHANGED <<code, temps, locals, liveVars>>
  BY DEF Standing, Defines, Advance, EnterPhase, placed, Underway
<1>2. EntersAcross(b) /\ \A t \in Pending(b, k) : Holds(t)
  BY DEF RunHolds, Standing
<1>3. PICK d : d = ResAt(b, k)
  OBVIOUS
<1>4. d = Here.res /\ d \in DOMAIN temps /\ d # NoTemp
  <2>1. Here.res \in Temps(code)
    BY <1>1, PointFacts, PlaceFacts DEF IsSound
  <2>. QED  BY <1>1, <1>3, <2>1, PlaceFacts, TempsAreNumbered DEF ResAt
<1>5. PICK lost : lost = ScratchCells
  OBVIOUS
<1>6. lost \subseteq Regs(ScratchRegisters)
  BY <1>1, <1>5, PlaceFacts, ScratchCellsAre
<1>7. /\ \A t \in DOMAIN temps : TempCells(t) \cap lost = {}
      /\ \A l \in DOMAIN locals : LocalCells(l) \cap lost = {}
  BY <1>6, PlaceFacts, PlacesAreNotScratch
<1>8. /\ holds' = Renewed("temp", d, temps[d], moved, lost)
      /\ DOMAIN moved = WordsOf(IsPair(d))
      /\ temps[d].kind = "alias" => \A w \in DOMAIN moved : moved[w] = Found(temps[d], w)
  BY <1>1, <1>3, <1>4, <1>5, PlaceFacts, DefinedWords DEF Defines
<1>9. /\ \A t \in LiveAfter(b, k) : t # d /\ TempCells(t) \cap lost = {} /\ Holds(t) => Holds(t)'
      /\ \A l \in DOMAIN locals : LocalCells(l) \cap lost = {} /\ HoldsLocal(l, IsWideLocal(l)) => HoldsLocal(l, IsWideLocal(l))'
      /\ HasHome(temps[d]) => Holds(d)'
  BY <1>1, <1>2, <1>3, <1>4, <1>8, PlaceFacts, DefineSpares
<1>10. ASSUME NEW t \in Pending(b, k + 1) PROVE Holds(t)'
  <2>1. t \in LiveAfter(b, k) /\ t \in DOMAIN temps /\ Tracked(t) /\ (t = d \/ t \in Pending(b, k))
    BY <1>1, <1>3, <1>10, PlaceFacts, PendingIsLive
  <2>2. CASE t = d
    BY <1>1, <1>3, <1>9, <2>1, <2>2, PlaceFacts, TrackedHasHome
  <2>3. CASE t # d
    BY <1>2, <1>7, <1>9, <2>1, <2>3
  <2>. QED  BY <2>2, <2>3
<1>11. RunHolds'
  BY <1>1, <1>2, <1>10, RunGoesOn
<1>12. LocalsHold'
  BY <1>1, <1>7, <1>9 DEF LocalsHold, HasHome
<1>. QED  BY <1>11, <1>12

(* The instructions that compute a value. *)
LEMMA ComputationHolds ==
  ASSUME ExecInv, RunHolds, LocalsHold, Compute \/ MoveValue \/ TakeAddress \/ LoadLocal
  PROVE  RunHolds' /\ LocalsHold'
<1>1. PICK b, k : Standing(b, k)
  BY StandsSomewhere DEF ExecInv, Compute, MoveValue, TakeAddress, LoadLocal, Fetched, Running
<1>2. ~EmitsNothing(b, k) /\ Here.op \in {"const", "binop", "cmp", "copy", "widen", "truncate", "frameaddr", "load"}
  BY <1>1 DEF Standing, Compute, MoveValue, TakeAddress, LoadLocal, Fetched
<1>3. /\ Here = InstrAt(b, k) /\ IsPoint(b, k) /\ PlaceInv /\ HomesInv /\ IsSound(code, Here) /\ Here.res \in DOMAIN temps
      /\ Here.op \notin Terminators \cup {"store", "param"} /\ Here.res = ResAt(b, k)
  <2>1. Here = InstrAt(b, k) /\ IsPoint(b, k) /\ PlaceInv /\ HomesInv
    BY <1>1, PlaceFacts DEF Standing
  <2>2. IsSound(code, Here) /\ Here.op \notin Terminators \cup {"store", "param"}
    BY <1>2, <2>1, PointFacts DEF Terminators
  <2>. QED  BY <2>1, <2>2, PlaceFacts DEF IsSound, ResAt
<1>4. temps[Here.res].kind = "alias" => Here.op = "load"
  BY <1>3, AliasIsLoaded
<1>5. CASE Compute
  <2>1. PICK moved : DOMAIN moved = WordsOf(DefinesPair(Here)) /\ Defines(moved)
    BY <1>5 DEF Compute
  <2>2. temps[Here.res].kind # "alias"
    BY <1>4, <1>5 DEF Compute, Fetched
  <2>. QED  BY <1>1, <1>2, <1>3, <2>1, <2>2, DefineHolds
<1>6. CASE MoveValue
  <2>1. PICK moved : DOMAIN moved = WordsOf(DefinesPair(Here)) /\ Defines(moved)
    BY <1>6 DEF MoveValue
  <2>2. temps[Here.res].kind # "alias"
    BY <1>4, <1>6 DEF MoveValue, Fetched
  <2>. QED  BY <1>1, <1>2, <1>3, <2>1, <2>2, DefineHolds
<1>7. CASE TakeAddress
  <2>1. PICK moved : DOMAIN moved = {0} /\ Defines(moved)
    BY <1>7 DEF TakeAddress
  <2>2. temps[Here.res].kind # "alias" /\ Here.op = "frameaddr"
    BY <1>4, <1>7 DEF TakeAddress, Fetched
  <2>3. WordsOf(DefinesPair(Here)) = {0}
    BY <1>3, <2>2 DEF IsSound, DefinesPair, WordsOf
  <2>. QED  BY <1>1, <1>2, <1>3, <2>1, <2>2, <2>3, DefineHolds
<1>8. CASE LoadLocal
  <2>1. PICK l : l = FrameAddrLocal(Here.use[1])
    OBVIOUS
  <2>2. Here.op = "load"
    BY <1>8 DEF LoadLocal, Fetched
  <2>3. PICK moved : moved = [w \in WordsOf(Here.wide) |-> Found(locals[l], w)]
    OBVIOUS
  <2>4. Defines(moved)
    BY <1>8, <2>1, <2>3 DEF LoadLocal
  <2>5. DOMAIN moved = WordsOf(DefinesPair(Here))
    BY <2>2, <2>3 DEF DefinesPair, WordsOf
  <2>6. ASSUME temps[Here.res].kind = "alias" PROVE \A w \in DOMAIN moved : moved[w] = Found(temps[Here.res], w)
    <3>1. AliasOf(Here.res, l)
      BY <1>3, <2>1, <2>6, AliasIsLoaded
    <3>2. locals[l].kind = "register" /\ \A w : WordCell(temps[Here.res], w) = WordCell(locals[l], w)
      BY <1>3, <2>6, <3>1, AliasPlace
    <3>. QED  BY <2>3, <2>6, <3>2 DEF Found, HasHome
  <2>. QED  BY <1>1, <1>2, <1>3, <2>4, <2>5, <2>6, DefineHolds
<1>. QED  BY <1>5, <1>6, <1>7, <1>8

(* A store: the local has the words stored, the rest is spared. *)
LEMMA StoreHolds ==
  ASSUME ExecInv, RunHolds, LocalsHold, StoreLocal
  PROVE  RunHolds' /\ LocalsHold'
<1>1. PICK b, k : Standing(b, k)
  BY StandsSomewhere DEF ExecInv, StoreLocal, Fetched, Running
<1>2. /\ IsPoint(b, k) /\ Here = InstrAt(b, k) /\ phase = "run" /\ phase \in Underway /\ cursor = <<b, k>>
      /\ cursor' = <<b, k + 1>> /\ phase' = "run" /\ UNCHANGED <<code, temps, locals, liveVars>>
      /\ ~EmitsNothing(b, k) /\ Here.op = "store"
  BY <1>1 DEF Standing, StoreLocal, Fetched, Advance, EnterPhase, placed, Underway
<1>3. EntersAcross(b) /\ \A t \in Pending(b, k) : Holds(t)
  BY <1>2 DEF RunHolds
<1>4. ResAt(b, k) = NoTemp
  BY <1>2, PointFacts, PlaceFacts DEF IsSound, ResAt
<1>5. PICK l : l = FrameAddrLocal(Here.use[1])
  OBVIOUS
<1>6. /\ l \in DOMAIN locals /\ IsAddressOf(Here.use[1], l) /\ (Here.wide => IsWideLocal(l))
  BY <1>2, <1>5, PlaceFacts, AccessFacts
<1>7. HasHome(locals[l])
  <2>1. LocalReferenced(l)
    BY <1>6 DEF IsAddressOf, LocalReferenced, Some
  <2>. QED  BY <1>6, <2>1, PlaceFacts, LaidFacts DEF LocalLaid, HasHome
<1>8. PICK moved, lost : /\ DOMAIN moved = WordsOf(Here.wide) /\ lost = ScratchCells
                         /\ holds' = Renewed("local", l, locals[l], moved, lost)
  BY <1>5 DEF StoreLocal
<1>9. lost \subseteq Regs(ScratchRegisters)
  BY <1>2, <1>8, PlaceFacts, ScratchCellsAre
<1>10. /\ \A t \in DOMAIN temps : TempCells(t) \cap lost = {} /\ TempCells(t) \subseteq DOMAIN holds
       /\ \A m \in DOMAIN locals : LocalCells(m) \cap lost = {} /\ LocalCells(m) \subseteq DOMAIN holds
  BY <1>2, <1>9, PlaceFacts, PlacesAreNotScratch, PlacesThere
<1>11. \A w \in DOMAIN moved : w \in {0, 1} /\ w \in WordsOf(IsWideLocal(l)) /\ WordCell(locals[l], w) \in LocalCells(l)
  <2>1. WordsOf(Here.wide) \subseteq WordsOf(IsWideLocal(l))
    BY <1>6 DEF WordsOf
  <2>. QED  BY <1>6, <1>7, <1>8, <2>1, PlaceFacts, LocalWords
<1>12. ASSUME NEW t \in Pending(b, k + 1) PROVE Holds(t)'
  <2>1. t \in LiveAfter(b, k) /\ t \in DOMAIN temps /\ (t = ResAt(b, k) \/ t \in Pending(b, k))
    BY <1>2, <1>12, PlaceFacts, PendingIsLive
  <2>2. Holds(t)
    BY <1>3, <1>4, <2>1, PlaceFacts, TempsAreNumbered
  <2>3. TempCells(t) \cap LocalCells(l) = {}
    BY <1>2, <1>5, <2>1, PlaceFacts, StoreSpares
  <2>4. \A c \in TempCells(t) : Written(locals[l], moved, lost)[c] = holds[c]
    BY <1>10, <1>11, <2>1, <2>3, WrittenElsewhere
  <2>5. \A w, v : Temp(t, w) # <<"local", l, v>>
    BY DEF Temp
  <2>6. \A c \in TempCells(t) : \A w \in {0, 1} : Temp(t, w) \in holds[c] => Temp(t, w) \in holds'[c]
    BY <1>8, <1>10, <2>1, <2>4, <2>5, RenewedKeeps
  <2>. QED  BY <1>2, <2>1, <2>2, <2>6, PlaceFacts, HoldsOn
<1>13. RunHolds'
  BY <1>2, <1>3, <1>12, RunGoesOn
<1>14. ASSUME NEW m \in DOMAIN locals, m # l, HoldsLocal(m, IsWideLocal(m)) PROVE HoldsLocal(m, IsWideLocal(m))'
  <2>1. LocalCells(m) \cap LocalCells(l) = {}
    BY <1>6, <1>14, PlaceFacts, LocalsApartInPlace
  <2>2. \A c \in LocalCells(m) : Written(locals[l], moved, lost)[c] = holds[c]
    BY <1>10, <1>11, <2>1, WrittenElsewhere
  <2>3. \A w, v : Local(m, w) # <<"local", l, v>>
    BY <1>14 DEF Local
  <2>4. \A c \in LocalCells(m) : \A w \in {0, 1} : Local(m, w) \in holds[c] => Local(m, w) \in holds'[c]
    BY <1>8, <1>10, <2>2, <2>3, RenewedKeeps
  <2>. QED  BY <1>2, <1>14, <2>4, PlaceFacts, HoldsLocalOn
<1>15. ASSUME HoldsLocal(l, IsWideLocal(l)) PROVE HoldsLocal(l, IsWideLocal(l))'
  <2>1. ASSUME NEW w \in WordsOf(IsWideLocal(l)) PROVE Local(l, w) \in holds'[WordCell(locals[l], w)]
    <3>1. WordCell(locals[l], w) \in DOMAIN holds /\ w \in {0, 1} /\ WordCell(locals[l], w) \notin lost
      BY <1>6, <1>7, <1>10, <2>1, PlaceFacts, LocalWords
    <3>2. CASE w \in DOMAIN moved
      BY <1>7, <1>8, <3>1, <3>2, RenewedOwn DEF Local
    <3>3. CASE w \notin DOMAIN moved
      <4>1. \A v \in DOMAIN moved : WordCell(locals[l], w) # WordCell(locals[l], v)
        BY <1>6, <1>7, <1>11, <3>1, <3>3, PlaceFacts, LocalWords
      <4>2. Written(locals[l], moved, lost)[WordCell(locals[l], w)] = holds[WordCell(locals[l], w)]
        BY <3>1, <4>1, WrittenElsewhere
      <4>3. Local(l, w) \in holds[WordCell(locals[l], w)]
        BY <1>7, <1>15, <2>1 DEF HoldsLocal, Found
      <4>4. \A v \in DOMAIN moved : Local(l, w) # <<"local", l, v>>
        BY <3>3 DEF Local
      <4>. QED  BY <1>8, <3>1, <4>2, <4>3, <4>4, RenewedKeeps
    <3>. QED  BY <3>2, <3>3
  <2>. QED  BY <1>2, <1>7, <2>1 DEF HoldsLocal, Found, Local, WordCell, HasHome, IsWideLocal
<1>16. LocalsHold'
  BY <1>2, <1>14, <1>15 DEF LocalsHold, HasHome
<1>. QED  BY <1>13, <1>16

(* A branch: what the block it goes to wants was live where this one ends. *)
LEMMA BranchHolds ==
  ASSUME ExecInv, RunHolds, LocalsHold, Branch
  PROVE  RunHolds' /\ LocalsHold'
<1>1. PICK b, k : Standing(b, k)
  BY StandsSomewhere DEF ExecInv, Branch, Fetched, Running
<1>2. /\ IsPoint(b, k) /\ Here = InstrAt(b, k) /\ phase = "run" /\ phase \in Underway /\ cursor = <<b, k>>
      /\ phase' = "run" /\ UNCHANGED <<code, temps, locals, liveVars>>
      /\ ~EmitsNothing(b, k) /\ Here.op \in Terminators /\ holds' = Written(Nowhere, << >>, ScratchCells)
  BY <1>1 DEF Standing, Branch, Fetched, EnterPhase, placed, Underway, Terminators
<1>3. PICK n \in DOMAIN Here.to : cursor' = <<Here.to[n], 1>>
  BY DEF Branch, EnterPhase
<1>4. PICK c : c = Here.to[n]
  OBVIOUS
<1>5. PastLiveness /\ HomesInv /\ LiveInv /\ PlaceInv
  BY PlaceFacts, LaidFacts
<1>6. c \in Blocks(code) /\ liveIn[c] \subseteq LiveAfter(b, k)
  BY <1>2, <1>4, <1>5, LiveFlows
<1>7. k \in Nat /\ k = Len(code.blocks[b]) /\ b \in Blocks(code) /\ ResAt(b, k) = NoTemp
  BY <1>2, <1>5, PointFacts DEF IsPoint, IsSound, ResAt
<1>8. EntersAcross(c)
  <2>1. liveIn[c] \subseteq liveOut[b]
    BY <1>5, <1>6, <1>7, LiveAtLast
  <2>. QED  BY <1>7, <2>1 DEF EntersAcross, LivesAcross
<1>9. \A t \in Pending(b, k) : Holds(t)
  BY <1>2 DEF RunHolds
<1>10. PICK lost : lost = ScratchCells
  OBVIOUS
<1>11. lost \subseteq Regs(ScratchRegisters)
  BY <1>2, <1>5, <1>10, ScratchCellsAre
<1>12. /\ \A t \in DOMAIN temps : TempCells(t) \cap lost = {} /\ TempCells(t) \subseteq DOMAIN holds
       /\ \A m \in DOMAIN locals : LocalCells(m) \cap lost = {} /\ LocalCells(m) \subseteq DOMAIN holds
  BY <1>2, <1>11, PlaceFacts, PlacesAreNotScratch, PlacesThere
<1>13. \A e \in DOMAIN holds : e \notin lost => holds'[e] = holds[e]
  <2>1. ~HasHome(Nowhere)
    BY DEF HasHome, Nowhere, Placement
  <2>. QED  BY <1>2, <1>10, <2>1, WrittenElsewhere
<1>14. ASSUME NEW t \in Pending(c, 1) PROVE Holds(t)'
  <2>1. t \in LiveAfter(c, 0) /\ t \in DOMAIN temps /\ Tracked(t)
    BY <1>14, PendingAtEntry DEF Pending
  <2>2. t \in LiveAfter(b, k)
    BY <1>5, <1>6, <2>1, EntryIsLiveIn
  <2>3. t \in LiveAfter(b, k - 1)
    BY <1>2, <1>5, <1>7, <2>1, <2>2, LiveBefore, TempsAreNumbered DEF ResAt
  <2>4. Holds(t)
    BY <1>9, <2>1, <2>3 DEF Pending
  <2>. QED  BY <1>2, <1>5, <1>12, <1>13, <2>1, <2>4, HoldsOn
<1>15. RunHolds'
  BY <1>2, <1>3, <1>4, <1>8, <1>14, RunGoesOn
<1>16. ASSUME NEW l \in DOMAIN locals, HoldsLocal(l, IsWideLocal(l)) PROVE HoldsLocal(l, IsWideLocal(l))'
  BY <1>2, <1>5, <1>12, <1>13, <1>16, HoldsLocalOn
<1>17. LocalsHold'
  BY <1>2, <1>16 DEF LocalsHold, HasHome
<1>. QED  BY <1>15, <1>17

-----------------------------------------------------------------------------
(* The prologue. *)

(* A parameter is in its home, or still where it arrived. *)
SettleHolds ==
  phase = "settle" =>
    \A p \in 1..code.params :
      /\ p < cursor /\ HasHome(locals[p]) => HoldsLocal(p, IsWideLocal(p))
      /\ p >= cursor /\ arrival[p].kind = "int" =>
           \A w \in WordsOf(arrival[p].wide) : Local(p, w) \in holds[Reg(arrival[p].index + w)]

LEMMA ArrivalFacts ==
  ASSUME HomesInv, NumberedInv, ParamsInv, phase # "arrival", NEW p \in 1..code.params
  PROVE  /\ p \in DOMAIN locals /\ p \in DOMAIN arrival /\ arrival[p].index \in Nat
         /\ arrival[p].wide = IsWideLocal(p)
         /\ \A w \in WordsOf(arrival[p].wide) : w \in {0, 1} /\ arrival[p].index + w \in ArrivalCells(p)
         /\ arrival[p].kind = "int" => ArrivalCells(p) \subseteq 0..3
<1>1. /\ p \in DOMAIN locals /\ p \in DOMAIN arrival /\ arrival[p].index \in Nat /\ arrival[p].wide = IsWideLocal(p)
      /\ arrival[p].kind = "int" => ArrivalCells(p) \subseteq ToSet(ArgRegisters)
  BY ParamsAreLocals DEF ParamsInv, NumberedInv
<1>2. \A w \in WordsOf(arrival[p].wide) : w \in {0, 1} /\ arrival[p].index + w \in ArrivalCells(p)
  BY <1>1, WordsAre DEF ArrivalCells, Cells
<1>. QED  BY <1>1, <1>2, ArgRegistersAre

(* The prologue leaves every parameter where it arrived. *)
LEMMA FrameOpensSettled ==
  ASSUME HomesInv, NumberedInv, ParamsInv, OpenFrame
  PROVE  SettleHolds' /\ FieldCells'
<1>1. /\ phase' = "settle" /\ cursor' = 1 /\ UNCHANGED <<code, arrival, locals, fields>> /\ phase # "arrival"
      /\ holds' = [c \in Regs(MachineRegisters) \cup ({"field"} \X (DOMAIN fields) \X {0, 1}) \cup ({"out"} \X OutgoingWords \X {0}) |->
                 IF c[1] = "reg" THEN AtEntry(c[2]) ELSE {}]
  BY DEF OpenFrame, EnterPhase
<1>2. FieldCells'
  BY <1>1 DEF FieldCells
<1>3. ASSUME NEW p \in 1..code.params, arrival[p].kind = "int", NEW w \in WordsOf(arrival[p].wide)
      PROVE  Local(p, w) \in holds'[Reg(arrival[p].index + w)]
  <2>1. PICK r : r = arrival[p].index + w
    OBVIOUS
  <2>2. /\ r \in 0..3 /\ p \in DOMAIN arrival /\ arrival[p].index \in Nat /\ w \in {0, 1} /\ r - arrival[p].index = w
    BY <1>1, <1>3, <2>1, ArrivalFacts
  <2>3. r \notin CalleeSaved /\ r \in MachineRegisters
    BY <2>2, ConventionFacts DEF MachineRegisters
  <2>4. Local(p, w) \in ArrivedIn(r)
    BY <1>3, <2>2 DEF ArrivedIn
  <2>5. Reg(r) \in Regs(MachineRegisters)
    BY <2>3 DEF Regs
  <2>6. holds'[Reg(r)] = AtEntry(r)
    BY <1>1, <2>5 DEF Reg
  <2>. QED  BY <2>1, <2>3, <2>4, <2>6 DEF AtEntry
<1>4. \A p \in 1..code.params : ~(p < 1)
  OBVIOUS
<1>5. SettleHolds'
  BY <1>1, <1>3, <1>4 DEF SettleHolds, Local, Reg
<1>. QED  BY <1>2, <1>5

(* A parameter settled leaves the others where they are. *)
LEMMA ParameterSettles ==
  ASSUME ExecInv, ParamsInv, SettleHolds, SettleParameter
  PROVE  SettleHolds'
<1>1. /\ phase = "settle" /\ phase' = "settle" /\ cursor' = cursor + 1 /\ cursor <= code.params /\ cursor \in Nat \ {0}
      /\ UNCHANGED <<code, temps, locals, arrival>> /\ phase \in Underway /\ phase # "arrival"
  BY PlaceFacts DEF SettleParameter, placed, Underway, CursorInv
<1>2. PICK q : q = cursor
  OBVIOUS
<1>3. q \in 1..code.params /\ code.params \in Nat
  BY <1>1, <1>2, PlaceFacts, ParamsAreLocals
<1>4. PICK moved, lost :
        /\ moved = [w \in WordsOf(arrival[q].wide) |->
                      IF arrival[q].kind = "stack" THEN {Local(q, w)} ELSE Found(ArgumentHome(arrival[q]), w)]
        /\ lost = Regs(kScratch) /\ holds' = Written(locals[q], moved, lost)
  BY <1>2 DEF SettleParameter
<1>5. \A p \in 1..code.params :
        /\ p \in DOMAIN locals /\ p \in DOMAIN arrival /\ arrival[p].index \in Nat
        /\ arrival[p].wide = IsWideLocal(p) /\ arrival[p].kind \in {"int", "stack"}
        /\ \A w \in WordsOf(arrival[p].wide) : w \in {0, 1} /\ arrival[p].index + w \in ArrivalCells(p)
        /\ arrival[p].kind = "int" => ArrivalCells(p) \subseteq 0..3
  BY <1>1, PlaceFacts, ArrivalFacts DEF ParamsInv
<1>6. /\ \A m \in DOMAIN locals : LocalCells(m) \cap lost = {} /\ LocalCells(m) \subseteq DOMAIN holds
  <2>1. Regs(kScratch) \subseteq Regs(ScratchRegisters)
    BY DEF ScratchRegisters, Regs
  <2>. QED  BY <1>1, <1>4, <2>1, PlaceFacts, PlacesAreNotScratch, PlacesThere
<1>7. HasHome(locals[q]) => \A w \in DOMAIN moved : w \in {0, 1} /\ WordCell(locals[q], w) \in LocalCells(q)
  BY <1>3, <1>4, <1>5, PlaceFacts, LocalWords
<1>8. ASSUME NEW p \in 1..code.params, p < q, HoldsLocal(p, IsWideLocal(p)) PROVE HoldsLocal(p, IsWideLocal(p))'
  <2>1. LocalCells(p) \cap LocalCells(q) = {}
    BY <1>3, <1>5, <1>8, PlaceFacts, LocalsApartInPlace
  <2>2. \A c \in LocalCells(p) : Written(locals[q], moved, lost)[c] = holds[c]
    BY <1>5, <1>6, <1>7, <2>1, WrittenElsewhere
  <2>. QED  BY <1>1, <1>4, <1>5, <1>8, <2>2, PlaceFacts, HoldsLocalOn
<1>9. ASSUME HasHome(locals[q]) PROVE HoldsLocal(q, IsWideLocal(q))'
  <2>1. ASSUME NEW w \in WordsOf(IsWideLocal(q)) PROVE Local(q, w) \in holds'[WordCell(locals[q], w)]
    <3>1. w \in DOMAIN moved /\ DOMAIN moved \subseteq {0, 1} /\ WordCell(locals[q], w) \in DOMAIN holds
      BY <1>3, <1>4, <1>5, <1>6, <1>7, <1>9, <2>1
    <3>2. holds'[WordCell(locals[q], w)] = moved[w]
      <4>1. \A u, v \in {0, 1} : WordCell(locals[q], u) = WordCell(locals[q], v) => u = v
        BY <1>3, <1>5, <1>9, PlaceFacts, LocalWords
      <4>2. Written(locals[q], moved, lost)[WordCell(locals[q], w)] = moved[w]
        BY <1>9, <3>1, <4>1, WrittenThere
      <4>. QED  BY <1>4, <4>2
    <3>3. Local(q, w) \in moved[w]
      <4>1. CASE arrival[q].kind = "stack"
        BY <1>4, <3>1, <4>1
      <4>2. CASE arrival[q].kind = "int"
        <5>1. Found(ArgumentHome(arrival[q]), w) = holds[Reg(arrival[q].index + w)]
          BY <4>2 DEF Found, ArgumentHome, HasHome, Placement, WordCell
        <5>2. Local(q, w) \in holds[Reg(arrival[q].index + w)]
          BY <1>1, <1>2, <1>3, <1>4, <3>1, <4>2 DEF SettleHolds
        <5>. QED  BY <1>4, <3>1, <4>2, <5>1, <5>2
      <4>. QED  BY <1>3, <1>5, <4>1, <4>2
    <3>. QED  BY <3>2, <3>3
  <2>. QED  BY <1>1, <1>9, <2>1 DEF HoldsLocal, Found, Local, WordCell, HasHome, IsWideLocal
<1>10. ASSUME NEW p \in 1..code.params, p > q, arrival[p].kind = "int", NEW w \in WordsOf(arrival[p].wide)
       PROVE  Local(p, w) \in holds'[Reg(arrival[p].index + w)]
  <2>1. PICK r : r = arrival[p].index + w
    OBVIOUS
  <2>2. r \in ArrivalCells(p) /\ r \in 0..3
    BY <1>5, <1>10, <2>1
  <2>3. Reg(r) \in DOMAIN holds /\ Reg(r) \notin lost
    <3>1. r \in MachineRegisters /\ r \notin kScratch
      BY <2>2 DEF MachineRegisters, kScratch
    <3>. QED  BY <1>1, <1>4, <3>1, PlaceFacts, RegisterIs DEF FrameInv
  <2>4. Reg(r) \notin LocalCells(q)
    <3>1. CASE locals[q].kind = "register"
      <4>1. CellsOf(locals[q]) \cap ArrivalCells(p) = {}
        <5>1. ParamHome(q) /\ (arrival[q].kind = "int" => ArrivalCells(q) \cap ArrivalCells(p) = {})
          BY <1>1, <1>3, <1>10 DEF ParamsInv
        <5>. QED  BY <1>10, <3>1, <5>1 DEF ParamHome
      <4>2. r \notin Cells(locals[q].index, locals[q].pair)
        BY <2>2, <3>1, <4>1 DEF CellsOf
      <4>. QED  BY <3>1, <4>2, RegisterIs DEF LocalCells, WordCells
    <3>2. CASE locals[q].kind # "register"
      <4>1. locals[q].kind # "alias"
        BY <1>3, <1>5, PlaceFacts, LaidFacts
      <4>. QED  BY <3>2, <4>1, RegsAndFields DEF LocalCells, WordCells, Reg
    <3>. QED  BY <3>1, <3>2
  <2>5. holds'[Reg(r)] = holds[Reg(r)]
    BY <1>4, <1>7, <2>3, <2>4, WrittenElsewhere
  <2>6. Local(p, w) \in holds[Reg(r)]
    BY <1>1, <1>2, <1>10, <2>1 DEF SettleHolds
  <2>. QED  BY <2>1, <2>5, <2>6
<1>11. \A p \in 1..code.params : (p < cursor' <=> p < q \/ p = q) /\ (p >= cursor' <=> p > q) /\ (p < cursor <=> p < q)
  BY <1>1, <1>2
<1>12. ASSUME NEW p \in 1..code.params
       PROVE  /\ p < cursor' /\ HasHome(locals[p])' => HoldsLocal(p, IsWideLocal(p))'
              /\ p >= cursor' /\ arrival'[p].kind = "int" =>
                   \A w \in WordsOf(arrival'[p].wide) : Local(p, w) \in holds'[Reg(arrival'[p].index + w)]
  <2>1. HasHome(locals[p])' = HasHome(locals[p])
    BY <1>1 DEF HasHome
  <2>2. ASSUME p < q, HasHome(locals[p]) PROVE HoldsLocal(p, IsWideLocal(p))'
    <3>1. HoldsLocal(p, IsWideLocal(p))
      BY <1>1, <1>2, <2>2 DEF SettleHolds
    <3>. QED  BY <1>8, <2>2, <3>1
  <2>3. ASSUME p = q, HasHome(locals[p]) PROVE HoldsLocal(p, IsWideLocal(p))'
    BY <1>9, <2>3
  <2>4. p < cursor' /\ HasHome(locals[p])' => HoldsLocal(p, IsWideLocal(p))'
    BY <1>11, <2>1, <2>2, <2>3
  <2>5. p >= cursor' /\ arrival'[p].kind = "int" =>
                   \A w \in WordsOf(arrival'[p].wide) : Local(p, w) \in holds'[Reg(arrival'[p].index + w)]
    BY <1>1, <1>10, <1>11
  <2>. QED  BY <2>4, <2>5
<1>. QED  BY <1>1, <1>12 DEF SettleHolds, Local, Reg, WordsOf

(* The body begins with every parameter in its home. *)
LEMMA BodyHolds ==
  ASSUME ExecInv, NothingLiveAtEntry, SettleHolds, EnterBody
  PROVE  RunHolds' /\ LocalsHold'
<1>1. /\ phase = "settle" /\ phase' = "run" /\ cursor' = <<code.order[1], 1>> /\ cursor > code.params /\ cursor \in Nat
      /\ UNCHANGED <<code, temps, locals, liveVars>> /\ phase \in Underway
  BY PlaceFacts DEF EnterBody, EnterPhase, placed, CursorInv, Underway
<1>2. /\ DOMAIN holds' = DOMAIN holds
      /\ \A c \in DOMAIN holds : holds[c] \subseteq holds'[c]
      /\ \A c \in DOMAIN holds : \A l \in LocalSlots(code) : ~IsParam(l) /\ HasHome(locals[l]) =>
           \A w \in WordsOf(IsWideLocal(l)) : c = WordCell(locals[l], w) => Local(l, w) \in holds'[c]
  BY DEF EnterBody
<1>3. code.order[1] \in Blocks(code) /\ PastLiveness /\ HomesInv /\ LiveInv
  BY PlaceFacts, OrderFacts, LaidFacts
<1>4. liveIn[code.order[1]] = {}
  BY <1>3 DEF NothingLiveAtEntry
<1>5. Pending(code.order[1], 1) = {}
  BY <1>3, <1>4, PendingAtEntry, EntryIsLiveIn
<1>6. EntersAcross(code.order[1])
  BY <1>4 DEF EntersAcross
<1>7. RunHolds'
  BY <1>1, <1>5, <1>6, RunGoesOn
<1>8. ASSUME NEW l \in DOMAIN locals, HasHome(locals[l]) PROVE HoldsLocal(l, IsWideLocal(l))'
  <2>1. LocalCells(l) \subseteq DOMAIN holds /\ \A w \in WordsOf(IsWideLocal(l)) : WordCell(locals[l], w) \in LocalCells(l)
    BY <1>1, <1>8, PlaceFacts, PlacesThere, LocalWords
  <2>2. CASE IsParam(l)
    <3>1. l \in 1..code.params /\ l < cursor
      BY <1>1, <1>3, <2>2, ParamsAreLocals, LocalNumbers DEF IsParam
    <3>2. HoldsLocal(l, IsWideLocal(l))
      BY <1>1, <1>8, <3>1 DEF SettleHolds
    <3>. QED  BY <1>1, <1>2, <2>1, <3>2, PlaceFacts, HoldsLocalOn
  <2>3. CASE ~IsParam(l)
    <3>1. \A w \in WordsOf(IsWideLocal(l)) : Local(l, w) \in holds'[WordCell(locals[l], w)]
      BY <1>2, <1>8, <2>1, <2>3, PlaceFacts
    <3>. QED  BY <1>1, <1>8, <3>1 DEF HoldsLocal, Found, Local, WordCell, HasHome, IsWideLocal
  <2>. QED  BY <2>2, <2>3
<1>9. LocalsHold'
  BY <1>1, <1>8 DEF LocalsHold, HasHome
<1>. QED  BY <1>7, <1>9

-----------------------------------------------------------------------------
(* Calls. *)

(* While arguments are moved the ones still to move are where they live, and *)
(* so is everything else the call will leave alone.                        *)
CallHolds ==
  phase = "call" =>
    \A b, k, n : cursor = <<b, k, n>> =>
      /\ EntersAcross(b)
      /\ \A m \in 1..InstrAt(b, k).num : m > n => \A t \in {ArgumentOf(b, k, m).use[1]} : Holds(t)
      /\ \A t \in LiveAfter(b, k) : t # ResAt(b, k) /\ Tracked(t) /\ HomeCells(temps[t]) \cap ClobberedByCalls = {} => Holds(t)

(* The locals of a function that calls are in registers its callees keep. *)
LEMMA LocalsOutliveCalls ==
  ASSUME PlaceInv, NEW b, NEW k, IsPoint(b, k), InstrAt(b, k).op = "call", NEW l \in DOMAIN locals
  PROVE  HasCalls /\ HomeCells(locals[l]) \subseteq CalleeSaved
<1>1. HasCalls
  BY DEF HasCalls, Some, IsPoint
<1>. QED  BY <1>1, LaidFacts DEF PlaceInv, RegistersInv, HomeCells, CellsOf

(* What is live past a call is in no register the call clobbers. *)
LEMMA LiveOverCall ==
  ASSUME PlaceInv, CallsAreSpanned, NEW b, NEW k, IsPoint(b, k), EntersAcross(b), InstrAt(b, k).op = "call",
         NEW t \in LiveAfter(b, k), t # ResAt(b, k)
  PROVE  t \in DOMAIN temps /\ HomeCells(temps[t]) \cap ClobberedByCalls = {}
<1>1. /\ b \in Blocks(code) /\ k \in Nat /\ k >= 1 /\ DOMAIN code.blocks[b] = 1..Len(code.blocks[b]) /\ k \in DOMAIN code.blocks[b]
      /\ PastLiveness /\ HomesInv /\ LiveInv
  BY PointFacts, LaidFacts DEF IsPoint, PlaceInv
<1>2. t \in DOMAIN temps
  BY <1>1, LiveAfterTemps
<1>3. CalleeSaved \cap ClobberedByCalls = {}
  BY ConventionFacts
<1>4. CASE temps[t].kind = "alias"
  <2>1. PICK l : AliasOf(t, l)
    BY <1>2, <1>4 DEF PlaceInv, AliasInv
  <2>2. l \in DOMAIN locals /\ HomeCells(temps[t]) = HomeCells(locals[l])
    BY <1>2, <1>4, <2>1, AliasPlace DEF HomeCells, AliasOf
  <2>. QED  BY <1>2, <1>3, <2>2, LocalsOutliveCalls
<1>5. CASE temps[t].kind = "register"
  <2>1. CellsOf(temps[t]) \subseteq CalleeSaved
    <3>1. CASE LivesAcross(t)
      <4>1. <<b, k>> \in Points
        BY PointsAre
      <4>2. SpansCall(t)
        BY <1>1, <3>1, <4>1 DEF CallsAreSpanned, ResAt
      <4>3. CrossingKept(t)
        BY <1>2, <1>5, <3>1 DEF PlaceInv, ApartInv, CrossingInv, Crossing
      <4>. QED  BY <4>2, <4>3 DEF CrossingKept
    <3>2. CASE ~LivesAcross(t)
      <4>1. t \notin liveIn[b] /\ t \notin liveOut[b]
        BY <1>1, <3>2 DEF EntersAcross, LivesAcross
      <4>2. PICK j \in 1..k : ResAt(b, j) = t
        BY <1>1, <4>1, LiveInBlocks DEF DefinedIn, ResAt
      <4>3. j \in DOMAIN code.blocks[b] /\ k > j
        BY <1>1, <4>2, PointFacts
      <4>4. BlockValueKept(b, j)
        BY <1>1, <1>2, <1>5, <3>2, <4>2, <4>3 DEF PlaceInv, ApartInv, BlockValuesInv, OfBlock
      <4>5. ReadAfter(b, k, t)
        BY <1>1, <4>1, LiveIsWanted
      <4>. QED  BY <1>1, <4>2, <4>3, <4>4, <4>5 DEF BlockValueKept
    <3>. QED  BY <3>1, <3>2
  <2>. QED  BY <1>2, <1>3, <1>5, <2>1 DEF HomeCells, CellsOf
<1>6. CASE temps[t].kind \notin {"register", "alias"}
  BY <1>2, <1>6 DEF HomeCells
<1>. QED  BY <1>4, <1>5, <1>6

(* A home apart from some registers has no cell among them. *)
LEMMA CellsSpared ==
  ASSUME NEW p, NEW S, HomeCells(p) \cap S = {}
  PROVE  \A c \in WordCells(p) : c \notin Regs(S) /\ c[1] # "out"
<1>1. CASE p.kind \in {"register", "alias"}
  <2>1. Regs(Cells(p.index, p.pair)) \cap Regs(S) = {}
    BY <1>1, RegisterIs DEF HomeCells
  <2>. QED  BY <1>1, <2>1 DEF WordCells, Regs, Reg
<1>2. CASE p.kind = "slot"
  BY <1>2, RegsAndFields DEF WordCells
<1>3. CASE p.kind \notin {"register", "alias", "slot"}
  BY <1>3 DEF WordCells
<1>. QED  BY <1>1, <1>2, <1>3

(* At a call nothing is passed over. *)
LEMMA CallIsEmitted ==
  ASSUME HomesInv, NEW b, NEW k, IsPoint(b, k), InstrAt(b, k).op = "call"
  PROVE  ~EmitsNothing(b, k)
<1>1. k \in Nat /\ (k + 1) - 1 = k /\ (k + 2) - 2 = k
  BY PointFacts
<1>. QED  BY <1>1 DEF EmitsNothing, Fused

LEMMA CallWaits ==
  ASSUME ExecInv, NEW b, NEW k, NEW n, phase' = "call", cursor' = <<b, k, n>>, UNCHANGED <<code, temps, liveVars>>, EntersAcross(b),
         \A m \in 1..InstrAt(b, k).num : m > n => \A t \in {ArgumentOf(b, k, m).use[1]} : Holds(t)',
         \A t \in LiveAfter(b, k) : t # ResAt(b, k) /\ Tracked(t) /\ HomeCells(temps[t]) \cap ClobberedByCalls = {} => Holds(t)'
  PROVE  CallHolds'
<1>. SUFFICES ASSUME NEW c, NEW i, NEW h, cursor' = <<c, i, h>>
              PROVE  (/\ EntersAcross(c)
                      /\ \A m \in 1..InstrAt(c, i).num : m > h => \A t \in {ArgumentOf(c, i, m).use[1]} : Holds(t)
                      /\ \A t \in LiveAfter(c, i) : t # ResAt(c, i) /\ Tracked(t) /\ HomeCells(temps[t]) \cap ClobberedByCalls = {} => Holds(t))'
  BY DEF CallHolds
<1>1. c = b /\ i = k /\ h = n
  OBVIOUS
<1>2. EntersAcross(c)' = EntersAcross(c) /\ LiveAfter(c, i)' = LiveAfter(c, i) /\ \A t : Tracked(t)' = Tracked(t)
  BY PendingKept, LiveAfterKept
<1>3. \A m : ArgumentOf(c, i, m)' = ArgumentOf(c, i, m) /\ InstrAt(c, i)' = InstrAt(c, i) /\ ResAt(c, i)' = ResAt(c, i)
  BY DEF ArgumentOf, Call, InstrAt, ResAt
<1>4. (\A m \in 1..InstrAt(c, i).num : m > h => \A t \in {ArgumentOf(c, i, m).use[1]} : Holds(t))'
  BY <1>1, <1>3
<1>5. (\A t \in LiveAfter(c, i) : t # ResAt(c, i) /\ Tracked(t) /\ HomeCells(temps[t]) \cap ClobberedByCalls = {} => Holds(t))'
  BY <1>1, <1>2, <1>3 DEF HomeCells
<1>. QED  BY <1>1, <1>2, <1>4, <1>5

(* What is live before a call is where the arguments are moved from. *)
LEMMA CallBegins ==
  ASSUME ExecInv, RunHolds, LocalsHold, BeginCall
  PROVE  CallHolds' /\ LocalsHold'
<1>1. PICK b, k : Standing(b, k)
  BY StandsSomewhere DEF ExecInv, BeginCall, Fetched, Running
<1>2. /\ IsPoint(b, k) /\ InstrAt(b, k).op = "call" /\ phase = "run" /\ cursor = <<b, k>> /\ k \in Nat
      /\ cursor' = <<b, k, 0>> /\ phase' = "call" /\ UNCHANGED <<code, temps, locals, liveVars, holds>>
  BY <1>1, PlaceFacts, PointFacts DEF Standing, BeginCall, Fetched, EnterPhase, placed, executionVars
<1>3. EntersAcross(b) /\ \A t \in Pending(b, k) : Holds(t)
  BY <1>2 DEF RunHolds
<1>4. \A t : Holds(t)' = Holds(t)
  BY <1>2, CodeFactsKept DEF Holds, Found
<1>5. ASSUME NEW m \in 1..InstrAt(b, k).num PROVE Holds(ArgumentOf(b, k, m).use[1])
  <2>1. PICK j : j = k - InstrAt(b, k).num + m - 1
    OBVIOUS
  <2>2. InstrAt(b, k).num \in Nat /\ IsPoint(b, j) /\ InstrAt(b, j).op = "param" /\ ArgumentOf(b, k, m) = InstrAt(b, j)
    BY <1>2, <1>5, <2>1, PlaceFacts, ArgumentsAreParams DEF ArgumentOf, Call
  <2>3. j \in 1..(k - 1) /\ j >= k - InstrAt(b, k).num
    BY <1>2, <1>5, <2>1, <2>2, PlaceFacts, PointFacts
  <2>4. \A i \in j..(k - 1) : InstrAt(b, i).op = "param"
    <3>1. HasItsParams(code, b, k)
      BY <1>2, PlaceFacts DEF HomesInv, WellFormed, IsPoint, InstrAt
    <3>. QED  BY <1>2, <2>2, <2>3, <3>1 DEF HasItsParams, InstrAt
  <2>5. Tracked(InstrAt(b, j).use[1]) /\ InstrAt(b, j).use[1] \in Operands(InstrAt(b, j))
    BY <2>2, PlaceFacts, ParamIsTracked
  <2>6. InstrAt(b, j).use[1] \in DOMAIN temps
    BY <2>2, <2>5, PlaceFacts, PointFacts, OperandFacts
  <2>7. InstrAt(b, j).use[1] \in Pending(b, k)
    BY <2>3, <2>4, <2>5, <2>6 DEF Pending
  <2>. QED  BY <1>3, <2>2, <2>7
<1>6. ASSUME NEW t \in LiveAfter(b, k), t # ResAt(b, k), Tracked(t) PROVE Holds(t)
  <2>1. t \in LiveAfter(b, k - 1)
    BY <1>2, <1>6, PlaceFacts, LiveBefore DEF ResAt
  <2>2. t \in DOMAIN temps
    BY <1>2, <1>6, PlaceFacts, LiveAfterTemps DEF IsPoint
  <2>. QED  BY <1>3, <1>6, <2>1, <2>2 DEF Pending
<1>7. CallHolds'
  <2>1. \A m \in 1..InstrAt(b, k).num : m > 0 => \A t \in {ArgumentOf(b, k, m).use[1]} : Holds(t)'
    BY <1>4, <1>5
  <2>. QED  BY <1>2, <1>3, <1>4, <1>6, <2>1, CallWaits
<1>8. LocalsHold'
  BY <1>2 DEF LocalsHold, HoldsLocal, Found, IsWideLocal
<1>. QED  BY <1>7, <1>8

(* Where the code stands in a call. *)
CallingAt(b, k, n) ==
  phase = "call" /\ cursor = <<b, k, n>> /\ IsPoint(b, k) /\ Here = InstrAt(b, k) /\ Here.op = "call" /\ n \in 0..Here.num /\ Here.num \in Nat

LEMMA CallsSomewhere ==
  ASSUME ExecInv, phase = "call"
  PROVE  \E b, k, n : CallingAt(b, k, n)
BY PlaceFacts, CallFacts DEF CallingAt

(* Numbering the arguments moves nothing. *)
LEMMA NumberingHolds ==
  ASSUME ExecInv, CallHolds, LocalsHold, NumberArgument
  PROVE  CallHolds' /\ LocalsHold'
<1>1. PICK b, k, n : CallingAt(b, k, n)
  BY CallsSomewhere DEF NumberArgument
<1>2. /\ phase = "call" /\ phase' = "call" /\ cursor = <<b, k, n>> /\ cursor' = <<b, k, n>>
      /\ UNCHANGED <<code, temps, locals, liveVars, holds>>
  BY <1>1 DEF CallingAt, NumberArgument, placed, executionVars
<1>3. /\ EntersAcross(b)
      /\ \A m \in 1..InstrAt(b, k).num : m > n => \A t \in {ArgumentOf(b, k, m).use[1]} : Holds(t)
      /\ \A t \in LiveAfter(b, k) : t # ResAt(b, k) /\ Tracked(t) /\ HomeCells(temps[t]) \cap ClobberedByCalls = {} => Holds(t)
  BY <1>2 DEF CallHolds
<1>4. \A t : Holds(t)' = Holds(t)
  BY <1>2, CodeFactsKept DEF Holds, Found
<1>5. CallHolds'
  BY <1>2, <1>3, <1>4, CallWaits
<1>6. LocalsHold'
  BY <1>2 DEF LocalsHold, HoldsLocal, Found, IsWideLocal
<1>. QED  BY <1>5, <1>6

(* What moving an argument leaves alone. *)
LEMMA ArgumentMoves ==
  ASSUME ExecInv, PlaceArgument
  PROVE  \A c \in DOMAIN holds : c \notin Regs(kScratch) /\ c \notin Regs(ToSet(ArgRegisters)) /\ c[1] # "out" => holds'[c] = holds[c]
<1>1. phase = "call" /\ Numbering!Done /\ cursor[3] < Here.num
  BY DEF PlaceArgument, Moving, Setting
<1>2. PICK n : n = cursor[3] + 1
  OBVIOUS
<1>3. n \in DOMAIN numbering /\ Slots!IInv
  BY <1>1, <1>2, PlaceFacts, MovesMade DEF NumberedInv
<1>4. PICK moved : /\ DOMAIN moved = WordsOf(numbering[n].wide)
                   /\ holds' = Written(ArgumentHome(numbering[n]), moved, Regs(kScratch))
  BY <1>2 DEF PlaceArgument
<1>5. ASSUME NEW w \in DOMAIN moved
      PROVE  LET c == WordCell(ArgumentHome(numbering[n]), w) IN c \in Regs(ToSet(ArgRegisters)) \/ c[1] = "out"
  <2>1. CASE numbering[n].kind = "int"
    <3>1. WordCell(ArgumentHome(numbering[n]), w) = Reg(numbering[n].index + w)
      BY <2>1 DEF WordCell, ArgumentHome, Placement
    <3>2. numbering[n].index + w \in Cells(numbering[n].index, numbering[n].wide)
      BY <1>3, <1>4, <1>5, WordsAre, SlotCells DEF Cells
    <3>3. numbering[n].index + w \in ToSet(ArgRegisters)
      BY <1>3, <2>1, <3>2, SlotCells
    <3>. QED  BY <3>1, <3>3, RegisterIs
  <2>2. CASE numbering[n].kind = "stack"
    BY <2>2 DEF WordCell, ArgumentHome, Placement
  <2>3. numbering[n].kind \in {"int", "stack"}
    BY <1>1, <1>3, PlaceFacts, SlotFacts
  <2>. QED  BY <2>1, <2>2, <2>3
<1>. QED  BY <1>4, <1>5, WrittenElsewhere

(* Moving an argument writes to no home of a value that is wanted. *)
LEMMA MovingHolds ==
  ASSUME ExecInv, CallHolds, LocalsHold, PlaceArgument
  PROVE  CallHolds' /\ LocalsHold'
<1>1. PICK b, k, n : CallingAt(b, k, n)
  BY CallsSomewhere DEF PlaceArgument, Moving, Setting
<1>2. /\ phase = "call" /\ phase' = "call" /\ cursor = <<b, k, n>> /\ cursor' = <<b, k, n + 1>> /\ n \in Nat
      /\ UNCHANGED <<code, temps, locals, liveVars>> /\ IsPoint(b, k) /\ InstrAt(b, k).op = "call" /\ phase \in Underway
  BY <1>1 DEF CallingAt, PlaceArgument, placed, Underway
<1>3. /\ EntersAcross(b)
      /\ \A m \in 1..InstrAt(b, k).num : m > n => \A t \in {ArgumentOf(b, k, m).use[1]} : Holds(t)
      /\ \A t \in LiveAfter(b, k) : t # ResAt(b, k) /\ Tracked(t) /\ HomeCells(temps[t]) \cap ClobberedByCalls = {} => Holds(t)
  BY <1>2 DEF CallHolds
<1>4. ToSet(ArgRegisters) \subseteq ClobberedByCalls /\ CalleeSaved \cap ToSet(ArgRegisters) = {}
  BY ArgRegistersAre, ConventionFacts DEF ClobberedByCalls
<1>5. Regs(kScratch) \subseteq Regs(ScratchRegisters)
  BY DEF ScratchRegisters, Regs
<1>6. ASSUME NEW t \in DOMAIN temps, HomeCells(temps[t]) \cap ToSet(ArgRegisters) = {}, Holds(t) PROVE Holds(t)'
  <2>1. \A c \in TempCells(t) : c \in DOMAIN holds /\ c \notin Regs(kScratch) /\ c \notin Regs(ToSet(ArgRegisters)) /\ c[1] # "out"
    BY <1>2, <1>5, <1>6, PlaceFacts, PlacesThere, PlacesAreNotScratch, CellsSpared DEF TempCells
  <2>2. \A c \in TempCells(t) : holds'[c] = holds[c]
    BY <2>1, ArgumentMoves
  <2>. QED  BY <1>2, <1>6, <2>2, PlaceFacts, HoldsOn
<1>7. ASSUME NEW l \in DOMAIN locals, HoldsLocal(l, IsWideLocal(l)) PROVE HoldsLocal(l, IsWideLocal(l))'
  <2>1. HomeCells(locals[l]) \cap ToSet(ArgRegisters) = {}
    BY <1>2, <1>4, PlaceFacts, LocalsOutliveCalls
  <2>2. \A c \in LocalCells(l) : c \in DOMAIN holds /\ c \notin Regs(kScratch) /\ c \notin Regs(ToSet(ArgRegisters)) /\ c[1] # "out"
    BY <1>2, <1>5, <2>1, PlaceFacts, PlacesThere, PlacesAreNotScratch, CellsSpared DEF LocalCells
  <2>3. \A c \in LocalCells(l) : holds'[c] = holds[c]
    BY <2>2, ArgumentMoves
  <2>. QED  BY <1>2, <1>7, <2>3, PlaceFacts, HoldsLocalOn
<1>8. ASSUME NEW m \in 1..InstrAt(b, k).num, m > n + 1, NEW t \in {ArgumentOf(b, k, m).use[1]} PROVE Holds(t)'
  <2>1. Holds(t)
    BY <1>2, <1>3, <1>8
  <2>2. PICK j : IsPoint(b, j) /\ InstrAt(b, j).op = "param" /\ ArgumentOf(b, k, m) = InstrAt(b, j)
    BY <1>2, <1>8, PlaceFacts, ArgumentsAreParams DEF ArgumentOf, Call
  <2>3. CallArg(t) /\ t \in DOMAIN temps
    <3>1. 1 \in DOMAIN InstrAt(b, j).use /\ InstrAt(b, j).use[1] \in Operands(InstrAt(b, j))
      BY <2>2, PlaceFacts, ParamIsTracked
    <3>2. InstrAt(b, j).use[1] \in DOMAIN temps
      BY <2>2, <3>1, PlaceFacts, PointFacts, OperandFacts
    <3>. QED  BY <1>8, <2>2, <3>2 DEF CallArg, Some, IsPoint
  <2>4. HomeCells(temps[t]) \cap ToSet(ArgRegisters) = {}
    <3>1. CASE temps[t].kind = "register"
      <4>1. ArgPool = ToSet(ArgRegisters)
        BY <1>2 DEF ArgPool, HasCalls, Some, IsPoint
      <4>. QED  BY <2>3, <3>1, <4>1, PlaceFacts DEF PlaceInv, RegistersInv, HomeCells, CellsOf
    <3>2. CASE temps[t].kind = "alias"
      <4>1. PICK l : AliasOf(t, l)
        BY <2>3, <3>2, PlaceFacts DEF PlaceInv, AliasInv
      <4>2. l \in DOMAIN locals /\ HomeCells(temps[t]) = HomeCells(locals[l])
        BY <2>3, <3>2, <4>1, PlaceFacts, AliasPlace DEF HomeCells, AliasOf
      <4>. QED  BY <1>2, <1>4, <4>2, PlaceFacts, LocalsOutliveCalls
    <3>3. CASE temps[t].kind \notin {"register", "alias"}
      BY <3>3 DEF HomeCells
    <3>. QED  BY <3>1, <3>2, <3>3
  <2>. QED  BY <1>6, <2>1, <2>3, <2>4
<1>9. ASSUME NEW t \in LiveAfter(b, k), t # ResAt(b, k), Tracked(t), HomeCells(temps[t]) \cap ClobberedByCalls = {} PROVE Holds(t)'
  <2>1. t \in DOMAIN temps
    BY <1>2, <1>9, PlaceFacts, PointFacts, LiveAfterTemps DEF IsPoint
  <2>2. HomeCells(temps[t]) \cap ToSet(ArgRegisters) = {}
    BY <1>4, <1>9
  <2>. QED  BY <1>3, <1>6, <1>9, <2>1, <2>2
<1>10. CallHolds'
  BY <1>2, <1>3, <1>8, <1>9, CallWaits
<1>11. LocalsHold'
  BY <1>2, <1>7 DEF LocalsHold, HasHome
<1>. QED  BY <1>10, <1>11

(* The callee returns: what is live past the call is where it was, the       *)
(* result where it lives.                                                  *)
LEMMA ReturningHolds ==
  ASSUME ExecInv, CallsAreSpanned, CallHolds, LocalsHold, MakeCall
  PROVE  RunHolds' /\ LocalsHold'
<1>1. PICK b, k, n : CallingAt(b, k, n)
  BY CallsSomewhere DEF MakeCall, Ready, Setting
<1>2. /\ phase = "call" /\ phase' = "run" /\ cursor = <<b, k, n>> /\ cursor' = <<b, k + 1>> /\ k \in Nat
      /\ UNCHANGED <<code, temps, locals, liveVars>> /\ IsPoint(b, k) /\ Here = InstrAt(b, k) /\ Here.op = "call"
      /\ phase \in Underway
  BY <1>1, PlaceFacts, PointFacts DEF CallingAt, MakeCall, Advance, EnterPhase, placed, Underway
<1>3. /\ EntersAcross(b)
      /\ \A t \in LiveAfter(b, k) : t # ResAt(b, k) /\ Tracked(t) /\ HomeCells(temps[t]) \cap ClobberedByCalls = {} => Holds(t)
  BY <1>2 DEF CallHolds
<1>4. PICK d : d = ResAt(b, k)
  OBVIOUS
<1>5. d = Here.res /\ d \in DOMAIN temps /\ d # NoTemp
  <2>1. Here.res \in Temps(code)
    BY <1>2, PointFacts, PlaceFacts DEF IsSound, Terminators
  <2>. QED  BY <1>2, <1>4, <2>1, PlaceFacts, TempsAreNumbered DEF ResAt
<1>6. temps[d].kind # "alias"
  BY <1>2, <1>4, <1>5, PlaceFacts, AliasIsLoaded
<1>7. PICK moved, lost :
        /\ DOMAIN moved = WordsOf(Here.wide) /\ lost = Regs(ClobberedByCalls) \cup {c \in DOMAIN holds : c[1] = "out"}
        /\ holds' = Renewed("temp", d, temps[d], moved, lost)
  BY <1>5 DEF MakeCall
<1>8. DOMAIN moved = WordsOf(IsPair(d))
  <2>1. WordsOf(Here.wide) = WordsOf(DefinesPair(Here))
    BY <1>2 DEF DefinesPair, WordsOf
  <2>. QED  BY <1>2, <1>4, <1>5, <1>7, <2>1, PlaceFacts, DefinedWords
<1>9. /\ \A t \in LiveAfter(b, k) : t # d /\ TempCells(t) \cap lost = {} /\ Holds(t) => Holds(t)'
      /\ \A l \in DOMAIN locals : LocalCells(l) \cap lost = {} /\ HoldsLocal(l, IsWideLocal(l)) => HoldsLocal(l, IsWideLocal(l))'
      /\ HasHome(temps[d]) => Holds(d)'
  <2>1. /\ PlaceInv /\ FrameInv /\ FieldCells /\ phase \in Underway /\ IsPoint(b, k) /\ EntersAcross(b)
        /\ temps[d].kind = "alias" => \A w \in DOMAIN moved : moved[w] = Found(temps[d], w)
        /\ holds' = Renewed("temp", d, temps[d], moved, lost) /\ UNCHANGED <<code, temps, locals>>
    BY <1>2, <1>3, <1>6, <1>7, PlaceFacts
  <2>. QED  BY <1>4, <1>5, <1>8, <2>1, DefineSpares
<1>10. ASSUME NEW t \in Pending(b, k + 1) PROVE Holds(t)'
  <2>1. t \in LiveAfter(b, k) /\ t \in DOMAIN temps /\ Tracked(t)
    BY <1>2, <1>10, PlaceFacts, CallIsEmitted, PendingIsLive
  <2>2. CASE t = d
    BY <1>2, <1>4, <1>9, <2>1, <2>2, PlaceFacts, TrackedHasHome
  <2>3. CASE t # d
    <3>1. HomeCells(temps[t]) \cap ClobberedByCalls = {}
      BY <1>2, <1>3, <1>4, <2>1, <2>3, PlaceFacts, LiveOverCall
    <3>2. TempCells(t) \cap lost = {}
      BY <1>7, <3>1, CellsSpared DEF TempCells
    <3>. QED  BY <1>3, <1>4, <1>9, <2>1, <2>3, <3>1, <3>2
  <2>. QED  BY <2>2, <2>3
<1>11. RunHolds'
  BY <1>2, <1>3, <1>10, RunGoesOn
<1>12. ASSUME NEW l \in DOMAIN locals PROVE LocalCells(l) \cap lost = {}
  <2>1. HomeCells(locals[l]) \cap ClobberedByCalls = {}
    BY <1>2, <1>12, PlaceFacts, LocalsOutliveCalls, ConventionFacts
  <2>. QED  BY <1>7, <2>1, CellsSpared DEF LocalCells
<1>13. LocalsHold'
  BY <1>2, <1>9, <1>12 DEF LocalsHold, HasHome
<1>. QED  BY <1>11, <1>13

-----------------------------------------------------------------------------
(* All of it together. *)

(* Every value still wanted is where it was placed, in each phase. *)
ExecHolds == SettleHolds /\ LocalsHold /\ RunHolds /\ CallHolds
(* The inductive invariant. *)
SoundInv ==
  /\ RunInv /\ FrameInv /\ LiveInv /\ RegistersInv /\ ApartInv /\ AliasInv /\ FieldsInv /\ ParamsInv
  /\ FieldCells /\ ExecHolds

(* Nothing happens, nothing is lost. *)
LEMMA ExecWaits ==
  ASSUME ExecHolds, UNCHANGED vars
  PROVE  ExecHolds'
<1>1. UNCHANGED <<code, phase, cursor, arrival, locals, temps, liveVars, holds>>
  BY DEF vars, placementVars, executionVars
<1>2. \A t : Holds(t)' = Holds(t)
  BY <1>1, CodeFactsKept DEF Holds, Found
<1>3. SettleHolds' /\ LocalsHold'
  BY <1>1 DEF ExecHolds, SettleHolds, LocalsHold, HoldsLocal, Found, IsWideLocal
<1>4. RunHolds'
  <2>. SUFFICES ASSUME phase' = "run", NEW c, NEW m, cursor' = <<c, m>> PROVE EntersAcross(c)' /\ \A t \in Pending(c, m)' : Holds(t)'
    BY DEF RunHolds
  <2>1. Pending(c, m)' = Pending(c, m) /\ EntersAcross(c)' = EntersAcross(c)
    BY <1>1, PendingKept
  <2>. QED  BY <1>1, <1>2, <2>1 DEF ExecHolds, RunHolds
<1>5. CallHolds'
  <2>. SUFFICES ASSUME phase' = "call", NEW c, NEW i, NEW h, cursor' = <<c, i, h>>
                PROVE  (/\ EntersAcross(c)
                        /\ \A m \in 1..InstrAt(c, i).num : m > h => \A t \in {ArgumentOf(c, i, m).use[1]} : Holds(t)
                        /\ \A t \in LiveAfter(c, i) : t # ResAt(c, i) /\ Tracked(t) /\ HomeCells(temps[t]) \cap ClobberedByCalls = {} => Holds(t))'
    BY DEF CallHolds
  <2>1. EntersAcross(c)' = EntersAcross(c) /\ LiveAfter(c, i)' = LiveAfter(c, i) /\ \A t : Tracked(t)' = Tracked(t)
    BY <1>1, PendingKept, LiveAfterKept
  <2>2. \A m : ArgumentOf(c, i, m)' = ArgumentOf(c, i, m) /\ InstrAt(c, i)' = InstrAt(c, i) /\ ResAt(c, i)' = ResAt(c, i)
    BY <1>1 DEF ArgumentOf, Call, InstrAt, ResAt
  <2>3. /\ EntersAcross(c)
        /\ \A m \in 1..InstrAt(c, i).num : m > h => \A t \in {ArgumentOf(c, i, m).use[1]} : Holds(t)
        /\ \A t \in LiveAfter(c, i) : t # ResAt(c, i) /\ Tracked(t) /\ HomeCells(temps[t]) \cap ClobberedByCalls = {} => Holds(t)
    BY <1>1 DEF ExecHolds, CallHolds
  <2>4. (\A m \in 1..InstrAt(c, i).num : m > h => \A t \in {ArgumentOf(c, i, m).use[1]} : Holds(t))'
    BY <1>2, <2>2, <2>3
  <2>5. (\A t \in LiveAfter(c, i) : t # ResAt(c, i) /\ Tracked(t) /\ HomeCells(temps[t]) \cap ClobberedByCalls = {} => Holds(t))'
    BY <1>1, <1>2, <2>1, <2>2, <2>3 DEF HomeCells
  <2>. QED  BY <2>1, <2>3, <2>4, <2>5
<1>. QED  BY <1>3, <1>4, <1>5 DEF ExecHolds

LEMMA EmissionCells ==
  ASSUME HomesInv, NumberedInv, ParamsInv, FieldCells, Emission
  PROVE  FieldCells'
<1>1. CASE OpenFrame
  BY <1>1, FrameOpensSettled
<1>2. CASE JumpToCallee \/ LeaveFunction
  BY <1>2 DEF JumpToCallee, LeaveFunction, FieldCells, Underway
<1>3. CASE \/ SettleParameter \/ EnterBody \/ Straight \/ Branch \/ BeginCall \/ NumberArgument \/ PlaceArgument \/ MakeCall
  <2>1. phase \in Underway /\ UNCHANGED fields
    BY <1>3 DEF SettleParameter, EnterBody, Straight, Pass, Compute, MoveValue, TakeAddress, LoadLocal, StoreLocal, Branch, BeginCall,
                NumberArgument, PlaceArgument, MakeCall, Defines, placed, Underway, Fetched, Running, Moving, Ready, Setting
  <2>2. DOMAIN holds' = DOMAIN holds
    <3>1. CASE SettleParameter \/ Branch \/ PlaceArgument
      <4>1. \E home, moved, lost : holds' = Written(home, moved, lost)
        BY <3>1 DEF SettleParameter, Branch, PlaceArgument
      <4>. QED  BY <4>1, DomainsKept
    <3>4. CASE StoreLocal \/ MakeCall \/ Compute \/ MoveValue \/ TakeAddress \/ LoadLocal
      <4>1. \E kind, id, home, moved, lost : holds' = Renewed(kind, id, home, moved, lost)
        BY <3>4 DEF StoreLocal, MakeCall, Compute, MoveValue, TakeAddress, LoadLocal, Defines
      <4>. QED  BY <4>1, DomainsKept
    <3>2. CASE EnterBody
      BY <3>2 DEF EnterBody
    <3>3. CASE Pass \/ BeginCall \/ NumberArgument
      BY <3>3 DEF Pass, BeginCall, NumberArgument, executionVars
    <3>. QED  BY <1>3, <3>1, <3>2, <3>3, <3>4 DEF Straight
  <2>. QED  BY <2>1, <2>2 DEF FieldCells
<1>. QED  BY <1>1, <1>2, <1>3 DEF Emission, Straight

(* The placement is over before the frame is opened. *)
LEMMA PlacingEmitsNothing == PlacementNext => phase' \notin Underway
<1>1. ASSUME NumberParameter PROVE phase' \notin Underway
  BY <1>1 DEF NumberParameter, Underway
<1>2. ASSUME \/ FinishArrival \/ PlaceLocal \/ PlaceAddresses \/ UpdateLiveness \/ PlaceAliases \/ PlaceCrossing \/ FinishCrossing \/ OpenBlock
             \/ Release \/ Grant \/ CloseBlock \/ FinishScan \/ PlaceLocalField \/ PlaceTempField \/ FinishPlacement
      PROVE  phase' \notin Underway
  BY <1>2 DEF FinishArrival, PlaceLocal, PlaceAddresses, UpdateLiveness, PlaceAliases, PlaceCrossing, FinishCrossing, OpenBlock,
              Release, Grant, CloseBlock, FinishScan, PlaceLocalField, PlaceTempField, FinishPlacement, EnterPhase, InScan, Underway
<1>. QED  BY <1>1, <1>2 DEF PlacementNext

(* Every step keeps every value that is wanted in its home. *)
LEMMA NextExec == SoundInv /\ ValuesFlowForward /\ [Next]_vars => FieldCells' /\ ExecHolds'
<1>. SUFFICES ASSUME SoundInv, ValuesFlowForward, [Next]_vars PROVE FieldCells' /\ ExecHolds'
  OBVIOUS
<1>1. CASE UNCHANGED vars
  <2>1. FieldCells'
    BY <1>1 DEF SoundInv, FieldCells, vars, placementVars, executionVars
  <2>. QED  BY <1>1, <2>1, ExecWaits DEF SoundInv
<1>2. CASE Place
  <2>1. phase' \notin Underway
    BY <1>2, PlacingEmitsNothing DEF Place
  <2>. QED  BY <2>1 DEF FieldCells, ExecHolds, SettleHolds, LocalsHold, RunHolds, CallHolds, Underway
<1>3. CASE Emission
  <2>1. HomesInv /\ NumberedInv /\ ParamsInv /\ SettleHolds /\ LocalsHold /\ RunHolds /\ CallHolds
    BY DEF SoundInv, RunInv, ExecHolds
  <2>2. FieldCells'
    BY <1>3, <2>1, EmissionCells DEF SoundInv
  <2>3. ExecInv
    <3>1. phase \in Laid
      BY <1>3, EmissionAfterLiveness DEF Laid
    <3>. QED  BY <3>1 DEF ExecInv, PlaceInv, SoundInv, RunInv, ValuesFlowForward
  <2>4. CASE OpenFrame
    <3>1. SettleHolds' /\ phase' = "settle"
      BY <2>1, <2>4, FrameOpensSettled DEF OpenFrame, EnterPhase
    <3>. QED  BY <2>2, <3>1 DEF ExecHolds, LocalsHold, RunHolds, CallHolds
  <2>5. CASE SettleParameter
    <3>1. SettleHolds' /\ phase' = "settle"
      BY <2>1, <2>3, <2>5, ParameterSettles DEF SettleParameter
    <3>. QED  BY <2>2, <3>1 DEF ExecHolds, LocalsHold, RunHolds, CallHolds
  <2>6. CASE \/ EnterBody \/ Straight \/ Branch \/ MakeCall
    <3>1. RunHolds' /\ LocalsHold'
      BY <2>1, <2>3, <2>6, BodyHolds, PassHolds, ComputationHolds, StoreHolds, BranchHolds, ReturningHolds DEF Straight, ValuesFlowForward
    <3>2. phase' = "run"
      BY <2>6 DEF EnterBody, Branch, MakeCall, Straight, Pass, Compute, MoveValue, TakeAddress, LoadLocal, StoreLocal, Defines, Advance, EnterPhase
    <3>. QED  BY <2>2, <3>1, <3>2 DEF ExecHolds, SettleHolds, CallHolds
  <2>7. CASE BeginCall \/ NumberArgument \/ PlaceArgument
    <3>1. CallHolds' /\ LocalsHold'
      BY <2>1, <2>3, <2>7, CallBegins, NumberingHolds, MovingHolds
    <3>2. phase' = "call"
      BY <2>7 DEF BeginCall, NumberArgument, PlaceArgument, EnterPhase, Moving, Setting
    <3>. QED  BY <2>2, <3>1, <3>2 DEF ExecHolds, SettleHolds, RunHolds
  <2>8. CASE JumpToCallee \/ LeaveFunction
    <3>1. phase' \notin Underway
      BY <2>8 DEF JumpToCallee, LeaveFunction, Underway
    <3>. QED  BY <2>2, <3>1 DEF ExecHolds, SettleHolds, LocalsHold, RunHolds, CallHolds, Underway
  <2>. QED  BY <1>3, <2>4, <2>5, <2>6, <2>7, <2>8 DEF Emission, Straight
<1>. QED  BY <1>1, <1>2, <1>3 DEF Next, Emission

(* The invariant is inductive where values flow forward. *)
LEMMA NextSoundInv == RegisterAllocation /\ SoundInv /\ ValuesFlowForward /\ [Next]_vars => SoundInv'
<1>. SUFFICES ASSUME RegisterAllocation, SoundInv, ValuesFlowForward, [Next]_vars PROVE SoundInv'
  OBVIOUS
<1>1. /\ RunInv /\ FrameInv /\ LiveInv /\ RegistersInv /\ ApartInv /\ AliasInv /\ FieldsInv /\ ParamsInv
      /\ IInv /\ HomesInv /\ NumberedInv /\ DefinitionsReachTheEnd
  BY DEF SoundInv, RunInv, ValuesFlowForward
<1>2. RunInv' /\ FrameInv'
  BY <1>1, NextRunInv, NextFrame
<1>3. LiveInv' /\ RegistersInv'
  BY <1>1, NextLive, NextRegisters
<1>4. ApartInv' /\ AliasInv'
  BY <1>1, NextApart, NextAlias
<1>5. FieldsInv' /\ ParamsInv'
  BY <1>1, NextFields, NextParams
<1>6. FieldCells' /\ ExecHolds'
  BY NextExec
<1>. QED  BY <1>2, <1>3, <1>4, <1>5, <1>6 DEF SoundInv

LEMMA InitSound == Init => SoundInv
<1>. SUFFICES ASSUME Init PROVE SoundInv
  OBVIOUS
<1>1. PlacementInit /\ phase = "arrival"
  BY DEF Init, PlacementInit
<1>2. RunInv /\ FrameInv
  BY InitRun
<1>3. LiveInv /\ RegistersInv /\ ApartInv /\ AliasInv /\ FieldsInv /\ ParamsInv
  BY <1>1, InitLive, InitRegisters, InitApart, InitAlias, InitFields, InitParams
<1>4. FieldCells /\ ExecHolds
  BY <1>1 DEF FieldCells, ExecHolds, SettleHolds, LocalsHold, RunHolds, CallHolds, Underway
<1>. QED  BY <1>2, <1>3, <1>4 DEF SoundInv

(* What an instruction reads is among what it may find. *)
LEMMA FindsItsOperands == SoundInv /\ ValuesFlowForward => ReadsItsOwnValue
<1>. SUFFICES ASSUME SoundInv, ValuesFlowForward PROVE ReadsItsOwnValue
  OBVIOUS
<1>1. phase \in {"run", "call"} => ExecInv
  <2>1. phase \in {"run", "call"} => phase \in Laid
    BY DEF Laid
  <2>. QED  BY <2>1 DEF ExecInv, PlaceInv, SoundInv, RunInv, ValuesFlowForward
<1>2. RunHolds /\ LocalsHold /\ CallHolds /\ RunInv
  BY DEF SoundInv, ExecHolds
<1>3. ASSUME phase = "run" PROVE \A t \in ReadBy(cursor[1], cursor[2]) : Holds(t)
  <2>1. PICK b, k : Standing(b, k)
    BY <1>2, <1>3, StandsSomewhere
  <2>2. cursor = <<b, k>> /\ cursor[1] = b /\ cursor[2] = k /\ IsPoint(b, k)
    BY <2>1 DEF Standing
  <2>3. \A t \in Pending(b, k) : Holds(t)
    BY <1>2, <1>3, <2>2 DEF RunHolds
  <2>4. HomesInv /\ DOMAIN temps = Temps(code)
    BY <1>1, <1>3, PlaceFacts
  <2>5. ASSUME NEW t \in ReadBy(b, k) PROVE t \in Pending(b, k)
    <3>1. Tracked(t) /\ IF Fused(b, k) THEN t \in Operands(InstrAt(b, k - 2)) ELSE t \in Operands(InstrAt(b, k))
      BY <2>2, <2>4, <2>5, ReadIsTracked
    <3>2. CASE Fused(b, k)
      <4>1. IsPoint(b, k - 2)
        BY <2>2, <2>4, <3>2, PointFacts DEF Fused, IsPoint
      <4>2. t \in DOMAIN temps
        BY <2>4, <3>1, <3>2, <4>1, PointFacts, OperandFacts
      <4>. QED  BY <3>1, <3>2, <4>2 DEF Pending
    <3>3. CASE ~Fused(b, k)
      <4>1. t \in LiveAfter(b, k - 1) /\ t \in DOMAIN temps
        BY <2>2, <2>4, <3>1, <3>3, LiveBefore, PointFacts, OperandFacts
      <4>. QED  BY <3>1, <4>1 DEF Pending
    <3>. QED  BY <3>2, <3>3
  <2>. QED  BY <2>2, <2>3, <2>5
<1>4. ASSUME phase = "run", Here.op = "load" PROVE HoldsLocal(FrameAddrLocal(Here.use[1]), Here.wide)
  <2>1. PICK b, k : Standing(b, k)
    BY <1>2, <1>4, StandsSomewhere
  <2>2. PICK l : l = FrameAddrLocal(Here.use[1])
    OBVIOUS
  <2>3. Here = InstrAt(b, k) /\ IsPoint(b, k) /\ PlaceInv /\ HomesInv
    BY <1>1, <1>4, <2>1, PlaceFacts DEF Standing
  <2>4. l \in DOMAIN locals /\ IsAddressOf(Here.use[1], l) /\ (Here.wide => IsWideLocal(l))
    BY <1>4, <2>2, <2>3, AccessFacts
  <2>5. HasHome(locals[l])
    <3>1. LocalReferenced(l)
      BY <2>4 DEF IsAddressOf, LocalReferenced, Some
    <3>. QED  BY <2>3, <2>4, <3>1, LaidFacts DEF LocalLaid, HasHome
  <2>6. HoldsLocal(l, IsWideLocal(l))
    BY <1>2, <1>4, <2>4, <2>5 DEF LocalsHold
  <2>. QED  BY <2>2, <2>4, <2>6 DEF HoldsLocal, WordsOf
<1>5. ASSUME Moving PROVE Holds(Argument(cursor[3] + 1))
  <2>1. phase = "call" /\ cursor[3] < Here.num
    BY <1>5 DEF Moving, Setting
  <2>2. PICK b, k, n : CallingAt(b, k, n)
    BY <1>1, <2>1, CallsSomewhere
  <2>3. cursor = <<b, k, n>> /\ cursor[1] = b /\ cursor[2] = k /\ cursor[3] = n /\ Here = InstrAt(b, k) /\ n + 1 \in 1..InstrAt(b, k).num /\ n + 1 > n
    BY <2>1, <2>2 DEF CallingAt
  <2>4. Holds(ArgumentOf(b, k, n + 1).use[1])
    BY <1>2, <2>1, <2>3 DEF CallHolds
  <2>. QED  BY <2>3, <2>4 DEF Argument
<1>. QED  BY <1>3, <1>4, <1>5 DEF ReadsItsOwnValue, Running

(* What is live over a call is in cells the call leaves alone. *)
LEMMA CallsSpareWhatIsLive == SoundInv /\ ValuesFlowForward => CallerSavedEndAtCalls
<1>. SUFFICES ASSUME SoundInv, ValuesFlowForward, Ready, NEW t \in LiveAfter(cursor[1], cursor[2]) \ {Here.res}
              PROVE  CellsOf(temps[t]) \cap ClobberedByCalls = {}
  BY DEF CallerSavedEndAtCalls
<1>1. phase = "call"
  BY DEF Ready, Setting
<1>2. ExecInv
  <2>1. phase \in Laid
    BY <1>1 DEF Laid
  <2>. QED  BY <2>1 DEF ExecInv, PlaceInv, SoundInv, RunInv, ValuesFlowForward
<1>3. PICK b, k, n : CallingAt(b, k, n)
  BY <1>1, <1>2, CallsSomewhere
<1>4. /\ cursor = <<b, k, n>> /\ cursor[1] = b /\ cursor[2] = k /\ IsPoint(b, k) /\ Here = InstrAt(b, k) /\ InstrAt(b, k).op = "call"
      /\ t \in LiveAfter(b, k) /\ t # ResAt(b, k)
  BY <1>3 DEF CallingAt, ResAt
<1>5. EntersAcross(b)
  BY <1>1, <1>4 DEF SoundInv, ExecHolds, CallHolds
<1>6. HomeCells(temps[t]) \cap ClobberedByCalls = {}
  BY <1>2, <1>4, <1>5, PlaceFacts, LiveOverCall DEF ValuesFlowForward
<1>. QED  BY <1>6 DEF HomeCells, CellsOf

(* The invariant holds as long as the values flow forward. *)
LEMMA SoundThroughout == RegisterAllocation /\ Spec /\ []ValuesFlowForward => [](SoundInv /\ ValuesFlowForward)
<1>. DEFINE Allocates == SoundInv /\ RegisterAllocation
<1>1. Allocates /\ ValuesFlowForward /\ [Next]_vars => Allocates'
  BY NextSoundInv
<1>2. RegisterAllocation /\ Init => Allocates
  BY InitSound
<1>3. Allocates => SoundInv
  OBVIOUS
<1>. HIDE DEF Allocates
<1>. QED  BY <1>1, <1>2, <1>3, PTL DEF Spec

(* Every instruction of the emitted code finds its operands where they were *)
(* placed, a load finds the local it reads, and an argument is still in its  *)
(* home when it is moved: no register and no frame field is given to two     *)
(* values that are wanted together, by any pass of the placement.            *)
THEOREM RegisterAllocationIsSound == RegisterAllocation /\ Spec /\ []ValuesFlowForward => []ReadsItsOwnValue
  BY SoundThroughout, FindsItsOperands, PTL

(* No value that is live after a call is in a register the call clobbers.   *)
THEOREM CallsSpareLiveValues == RegisterAllocation /\ Spec /\ []ValuesFlowForward => []CallerSavedEndAtCalls
  BY SoundThroughout, CallsSpareWhatIsLive, PTL

(* And so a function returns cleanly, and its callees find their arguments.  *)
THEOREM AllocatedCodeReturnsCleanly == RegisterAllocation /\ Spec /\ []ValuesFlowForward => []ReturnsCleanly
BY RegisterAllocationIsSound, ReturnIsClean, PTL

(* Each word of each argument is where the callee looks for it. *)
THEOREM AllocatedCallsFindArguments == RegisterAllocation /\ Spec /\ []ValuesFlowForward => []ArgumentsInPlace
BY RegisterAllocationIsSound, CallFindsArguments, PTL
=============================================================================
