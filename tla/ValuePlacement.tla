--------------------------- MODULE ValuePlacement ---------------------------
(***************************************************************************)
(* Where every value of a function lives: ValuePlacement's constructor     *)
(* (libs/codegen/src/value_placement.cpp) as a state machine, one phase    *)
(* per pass and one step per value the pass places: locals, liveness,      *)
(* aliases, values that cross blocks, values of one block, frame fields.   *)
(*                                                                         *)
(* The integer bank only: words and 64-bit pairs of words.                 *)
(***************************************************************************)
EXTENDS Ir, SequencesExt

CONSTANTS
  Compile(_),         \* the front end: from a C function to an IR function
  Programs,           \* the functions to place
  ArgRegisterCount,   \* kArgRegisterCount: r0-r3
  CallerSavedPool,    \* allocatableIntRegisters(): r6, r7, r12, in order
  CalleeSavedPool,    \* allocatableCalleeSavedIntRegisters(): r8-r11
  RegisterAllocation  \* -fregalloc

ArgRegisters == [r \in 1..ArgRegisterCount |-> r - 1]
SixAndSeven  == {6, 7}       \* x3, the second scratch pair of 64-bit code
NoRegister   == -1        \* no preference

ASSUME PoolsAssumption ==
  /\ ArgRegisterCount \in Nat /\ ArgRegisterCount % 2 = 0
  /\ CallerSavedPool \in Seq(Nat) /\ CalleeSavedPool \in Seq(Nat)
  /\ ToSet(CalleeSavedPool) \cap (ToSet(CallerSavedPool) \cup ToSet(ArgRegisters)) = {}
  /\ ToSet(CallerSavedPool) \cap ToSet(ArgRegisters) = {}
  /\ \A r \in ToSet(CalleeSavedPool) : r >= 8
  /\ RegisterAllocation \in BOOLEAN

CalleeSaved == ToSet(CalleeSavedPool)
Allocatable == CallerSavedPool \o ArgRegisters \o CalleeSavedPool
Registers   == ToSet(Allocatable)
Rank(r)     == CHOOSE n \in DOMAIN Allocatable : Allocatable[n] = r

VARIABLES
  code,                                     \* the function
  phase, cursor,                            \* the pass and where it stands
  numbered, fixedArgCount, used, numbering, \* an argument list being numbered
  arrival,                                  \* _paramArrival
  locals, temps,                            \* _locals and _temps
  freeInt, calleeFree,                      \* registers no local has taken
  calleeSaved,                              \* _calleeSavedIntMask
  liveIn, liveOut, changed,                 \* liveness, by block
  reserved,                                 \* reservedInt, by block
  pools, held,                              \* of the block being scanned
  fields                                    \* the frame: the values each field serves
numberingVars == <<numbered, fixedArgCount, used, numbering>>
liveVars      == <<liveIn, liveOut, changed>>
scanVars      == <<pools, held>>
placementVars == <<code, phase, cursor, numberingVars, arrival, locals, temps, freeInt, calleeFree,
                   calleeSaved, liveVars, reserved, scanVars, fields>>

Numbering == INSTANCE ArgSlots WITH ArgLists <- {}, args <- numbered, result <- numbering

(* A placement: a register (pair), a frame field, the address of a local    *)
(* that has a register, another name of such a local, or nothing at all.   *)
Placement(kind, index, pair) == [kind |-> kind, index |-> index, pair |-> pair]
Unplaced == Placement("slot", 0, FALSE)
Nowhere  == Placement("none", 0, FALSE)

Cells(r, pair) == IF pair THEN {r, r + 1} ELSE {r}
CellsOf(p)     == IF p.kind = "register" THEN Cells(p.index, p.pair) ELSE {}

-----------------------------------------------------------------------------
(* What the constructor first reads off the code.                          *)

Points   == PointsOf(code)
InstrAt(b, k) == code.blocks[b][k]

(* Some instruction of the function is such. *)
Some(Such(_)) == \E b \in Blocks(code) : \E k \in DOMAIN code.blocks[b] : Such(InstrAt(b, k))

IsRead(t) == Some(LAMBDA i : t \in Operands(i))
IsPair(t) == Some(LAMBDA i : i.res = t /\ DefinesPair(i))
HasCalls  == Some(LAMBDA i : i.op = "call")
UsesPairs == Some(LAMBDA i : IsWideOp(i))
IsWideLocal(l) == code.locals[l].size = 8

Referenced(t)      == Some(LAMBDA i : i.res = t \/ t \in Operands(i))
LocalReferenced(l) == Some(LAMBDA i : i.op = "frameaddr" /\ i.num = l)
CallArg(t)         == Some(LAMBDA i : i.op = "param" /\ i.use[1] = t)

(* The temporaries that hold the address of a local, and the local a        *)
(* temporary holds the address of, 0 when none.                            *)
IsAddressOf(t, l) == Some(LAMBDA i : i.op = "frameaddr" /\ i.res = t /\ i.num = l)
AddressesOf(l)    == {InstrAt(q[1], q[2]).res : q \in {p \in Points : InstrAt(p[1], p[2]).op = "frameaddr" /\ InstrAt(p[1], p[2]).num = l}}
FrameAddrLocal(t) == IF Some(LAMBDA i : i.op = "frameaddr" /\ i.res = t)
                     THEN CHOOSE l \in LocalSlots(code) : IsAddressOf(t, l) ELSE 0

(* A local escapes when its address is anything but the address of a load  *)
(* or a store of its own width, or is computed in two places.              *)
Escapes(l) ==
  LET addresses == AddressesOf(l)
  IN  \/ Some(LAMBDA i : \E n \in DOMAIN i.use :
                i.use[n] \in addresses /\ ~(i.op \in {"load", "store"} /\ n = 1 /\ i.wide = IsWideLocal(l)))
      \/ \E t \in addresses : DefCount(code, t) > 1

(* Positions in emission order. *)
Longest     == Max({Len(code.blocks[b]) : b \in Blocks(code)})
Position(q) == PositionOf(code, q[1]) * (Longest + 1) + q[2]
DefPositions(t) == {Position(q) : q \in {p \in Points : InstrAt(p[1], p[2]).res = t}}
UsePositions(t) == {Position(q) : q \in {p \in Points : t \in Operands(InstrAt(p[1], p[2]))}}
CallPositions   == {Position(q) : q \in {p \in Points : InstrAt(p[1], p[2]).op = "call"}}

-----------------------------------------------------------------------------
PlacementPhases ==
  {"arrival", "locals", "liveness", "alias", "crossing", "block", "scan", "fields", "placed"}

PlacementTypeOK ==
  /\ freeInt \subseteq Registers /\ calleeFree \subseteq CalleeSaved /\ calleeSaved \subseteq Registers
  /\ \A l \in DOMAIN locals : CellsOf(locals[l]) \subseteq Registers
  /\ \A t \in DOMAIN temps : CellsOf(temps[t]) \subseteq Registers
  /\ \A b \in DOMAIN reserved : reserved[b] \subseteq Registers
  /\ \A p \in DOMAIN pools : DOMAIN pools[p] \subseteq Registers

ParamList(f) == [p \in 1..f.params |-> [bank |-> "int", wide |-> f.locals[p].size = 8]]

PlacementInit ==
  /\ \E p \in Programs : code = Compile(p)
  /\ phase = "arrival" /\ cursor = 1
  /\ numbered = ParamList(code) /\ fixedArgCount = code.params
  /\ used = [k \in Numbering!Kind |-> 0] /\ numbering = << >>
  /\ arrival = << >>
  /\ locals = [l \in LocalSlots(code) |-> Unplaced]
  /\ temps = [t \in Temps(code) |-> Unplaced]
  /\ freeInt = (ToSet(CallerSavedPool) \cup (IF HasCalls THEN {} ELSE ToSet(ArgRegisters)))
                 \ (IF UsesPairs THEN SixAndSeven ELSE {})
  /\ calleeFree = CalleeSaved
  /\ calleeSaved = {}
  /\ liveIn = [b \in Blocks(code) |-> {}] /\ liveOut = liveIn /\ changed = FALSE
  /\ reserved = [b \in Blocks(code) |-> {}]
  /\ pools = << >> /\ held = << >>
  /\ fields = << >>

EnterPhase(next, at) == phase' = next /\ cursor' = at

NumberParameter ==
  /\ phase = "arrival"
  /\ Numbering!AssignOne
  /\ UNCHANGED <<code, phase, cursor, arrival, locals, temps, freeInt, calleeFree, calleeSaved, liveVars, reserved, scanVars, fields>>

(* Without register allocation everything goes to the frame. *)
FinishArrival ==
  /\ phase = "arrival" /\ Numbering!Done
  /\ arrival' = numbering
  /\ EnterPhase(IF RegisterAllocation THEN "locals" ELSE "fields", 1)
  /\ UNCHANGED <<code, numberingVars, locals, temps, freeInt, calleeFree, calleeSaved, liveVars, reserved, scanVars, fields>>

-----------------------------------------------------------------------------
(* Locals.  They keep their registers for the whole function.              *)

IsParam(l) == l <= code.params

Eligible(l) ==
  /\ LocalReferenced(l) /\ ~Escapes(l) /\ ~code.locals[l].volatile
  /\ ~(IsParam(l) /\ arrival[l].kind = "stack")

ArrivalReserved == UNION {Cells(arrival[p].index, arrival[p].wide) : p \in {q \in DOMAIN arrival : arrival[q].kind = "int"}}

(* A choice of a register is a set: of that register, or empty.            *)
FirstOf(regs) == {r \in regs : \A q \in regs : Rank(r) <= Rank(q)}
LastOf(regs)  == {r \in regs : \A q \in regs : Rank(q) <= Rank(r)}

(* takePair: the wanted pair, or the highest one that is not blocked. *)
TakePair(pool, wanted, blocked) ==
  LET whole == {r \in pool : r % 2 = 0 /\ r + 1 \in pool}
      open  == {r \in whole : r < 14 /\ Cells(r, TRUE) \cap blocked = {}}
  IN  IF wanted \in whole THEN {wanted} ELSE {r \in open : \A q \in open : q <= r}

(* takeRegister and takeRegisterAvoiding: the wanted register, or the first *)
(* one that is not blocked.                                                *)
TakeRegister(pool, wanted, blocked) ==
  IF wanted \in pool THEN {wanted} ELSE FirstOf(pool \ blocked)

(* A leaf's locals take caller-saved registers, a parameter its own if it   *)
(* can and never another's; a calling function's take callee-saved ones. A *)
(* pair of a leaf may fall back on those.                                  *)
RegisterFor(l) ==
  LET leafParam == ~HasCalls /\ IsParam(l)
      pool      == IF HasCalls THEN calleeFree ELSE freeInt
      wanted    == IF leafParam THEN arrival[l].index ELSE NoRegister
      blocked   == IF leafParam THEN ArrivalReserved ELSE {}
      pair      == TakePair(pool, wanted, blocked)
  IN  IF ~IsWideLocal(l) THEN TakeRegister(pool, wanted, blocked)
      ELSE IF pair = {} /\ ~HasCalls THEN TakePair(calleeFree, NoRegister, {}) ELSE pair

(* Mutant of Noted: the mask is not updated. *)
NotedNothing(cells) == calleeSaved

(* markCalleeSaved: every register from r8 up, r12 of the caller-saved pool *)
(* included.                                                               *)
Noted(cells) == calleeSaved \cup {r \in cells : r >= 8}

(* Those declared `register` are considered first. *)
LocalAt(n)     == ((n - 1) % Len(code.locals)) + 1
RequestedAt(n) == n <= Len(code.locals)

Considered(l) == code.locals[l].prefer = RequestedAt(cursor) /\ Eligible(l)

PlaceLocal ==
  /\ phase = "locals" /\ cursor <= 2 * Len(code.locals)
  /\ \E l \in {LocalAt(cursor)} : \E choice \in {IF Considered(l) THEN RegisterFor(l) ELSE {}} :
       IF choice = {} THEN UNCHANGED <<locals, freeInt, calleeFree, calleeSaved>>
       ELSE \E r \in choice :
            /\ locals' = [locals EXCEPT ![l] = Placement("register", r, IsWideLocal(l))]
            /\ freeInt' = freeInt \ Cells(r, IsWideLocal(l))
            /\ calleeFree' = calleeFree \ Cells(r, IsWideLocal(l))
            /\ calleeSaved' = IF IsWideLocal(l) \/ HasCalls THEN Noted(Cells(r, IsWideLocal(l))) ELSE calleeSaved
  /\ cursor' = cursor + 1
  /\ UNCHANGED <<code, phase, numberingVars, arrival, temps, liveVars, reserved, scanVars, fields>>

(* The addresses of the locals that have a register are never computed. *)
InRegister(l) == l # 0 /\ locals[l].kind = "register"
AddressPlacement(t) ==
  LET l == FrameAddrLocal(t) IN IF InRegister(l) THEN Placement("virtual", l, FALSE) ELSE temps[t]

PlaceAddresses ==
  /\ phase = "locals" /\ cursor > 2 * Len(code.locals)
  /\ temps' = [t \in DOMAIN temps |-> AddressPlacement(t)]
  /\ EnterPhase("liveness", Len(code.order))
  /\ UNCHANGED <<code, numberingVars, arrival, locals, freeInt, calleeFree, calleeSaved, liveVars, reserved, scanVars, fields>>

-----------------------------------------------------------------------------
(* Liveness: backwards over the blocks until nothing changes.              *)

DefinedBefore(b, k) == {InstrAt(b, j).res : j \in 1..(k - 1)}
UpwardExposed(b) == UNION {Operands(InstrAt(b, k)) \ DefinedBefore(b, k) : k \in DOMAIN code.blocks[b]}
Defined(b)       == DefinedBefore(b, Len(code.blocks[b]) + 1)
LiveAtEnd(b)        == UNION {liveIn[c] : c \in SuccessorsOf(code, b)}
LiveAtStart(b, out) == UpwardExposed(b) \cup (out \ Defined(b))

UpdateLiveness ==
  /\ phase = "liveness"
  /\ \E b \in {code.order[cursor]} : \E out \in {LiveAtEnd(b)} : \E in \in {LiveAtStart(b, out)} :
       /\ liveOut' = [liveOut EXCEPT ![b] = out]
       /\ liveIn' = [liveIn EXCEPT ![b] = in]
       /\ changed' = (cursor > 1 /\ (changed \/ out # liveOut[b] \/ in # liveIn[b]))
       /\ IF cursor > 1 THEN EnterPhase("liveness", cursor - 1)
          ELSE IF changed \/ out # liveOut[b] \/ in # liveIn[b] THEN EnterPhase("liveness", Len(code.order)) ELSE EnterPhase("alias", 1)
  /\ UNCHANGED <<code, numberingVars, arrival, locals, temps, freeInt, calleeFree, calleeSaved, reserved, scanVars, fields>>

(* What is live right after the instruction k of b. *)
LiveAfter(b, k) ==
  LET rest == (k + 1)..Len(code.blocks[b])
      Kept(t, j) == \A m \in (k + 1)..(j - 1) : InstrAt(b, m).res # t
  IN  {t \in UNION {Operands(InstrAt(b, j)) : j \in rest} : \E j \in rest : t \in Operands(InstrAt(b, j)) /\ Kept(t, j)}
        \cup {t \in liveOut[b] : Kept(t, Len(code.blocks[b]) + 1)}

-----------------------------------------------------------------------------
(* Aliases: a load of a local that has a register is that register, unless *)
(* a store to the local comes while what was loaded is still wanted.       *)

IsLoadOf(t, l) ==
  LET addresses == AddressesOf(l)
  IN  Some(LAMBDA i : i.op = "load" /\ i.res = t /\ i.use[1] \in addresses)

(* Mutant of Clobbered: stores are not looked for. *)
ClobberedNever(t, l) == FALSE

Clobbered(t, l) ==
  LET addresses == AddressesOf(l)
  IN  \E q \in Points :
        /\ InstrAt(q[1], q[2]).op = "store" /\ InstrAt(q[1], q[2]).use[1] \in addresses
        /\ t \in LiveAfter(q[1], q[2])

AliasedLocal(t) ==
  {l \in LocalSlots(code) : InRegister(l) /\ IsLoadOf(t, l)}

AliasPlacement(t) ==
  LET aliased == AliasedLocal(t)
      l       == CHOOSE l \in aliased : TRUE
  IN  IF aliased # {} /\ \A m \in aliased : ~Clobbered(t, m)
      THEN Placement("alias", locals[l].index, locals[l].pair) ELSE temps[t]

PlaceAliases ==
  /\ phase = "alias"
  /\ temps' = [t \in DOMAIN temps |-> AliasPlacement(t)]
  /\ EnterPhase("crossing", 1)
  /\ UNCHANGED <<code, numberingVars, arrival, locals, freeInt, calleeFree, calleeSaved, liveVars, reserved, scanVars, fields>>

-----------------------------------------------------------------------------
(* Values that cross blocks: a register reserved in every block where the  *)
(* value is live.                                                          *)

LiveBlocks(t) == {b \in Blocks(code) : t \in liveIn[b] \cup liveOut[b]}

CrossesBlocks(t) ==
  /\ Referenced(t)
  /\ temps[t].kind = "slot"
  /\ DefCount(code, t) # 1 \/ \E b \in Blocks(code) : t \in liveOut[b]
  /\ IsRead(t) => (DefPositions(t) # {} /\ Min(UsePositions(t)) >= Min(DefPositions(t)))

(* A call between the first definition and the last read, in emission order. *)
SpansCall(t) ==
  \E p \in CallPositions : p > Min(DefPositions(t)) /\ IsRead(t) /\ p <= Max(UsePositions(t))

(* The registers of a pool no other crossing value holds where t is live. *)
OpenFor(pool, t) ==
  {r \in pool : /\ IsPair(t) => r % 2 = 0 /\ r + 1 \in pool
                /\ \A b \in LiveBlocks(t) : Cells(r, IsPair(t)) \cap reserved[b] = {}}

(* The last one of the caller-saved pool; a pair may take callee-saved ones. *)
CrossingRegister(t) ==
  LET caller == OpenFor(freeInt, t)
      callee == OpenFor(calleeFree, t)
  IN  CASE ~CrossesBlocks(t) -> {}
        [] CrossesBlocks(t) /\ ~SpansCall(t) /\ caller # {} -> LastOf(caller)
        [] OTHER -> IF IsPair(t) THEN LastOf(callee) ELSE {}

PlaceCrossing ==
  /\ phase = "crossing" /\ cursor <= code.temps
  /\ \E choice \in {CrossingRegister(cursor)} :
       IF choice = {} THEN UNCHANGED <<temps, reserved, calleeSaved>>
       ELSE \E r \in choice : \E cells \in {Cells(r, IsPair(cursor))} :
              /\ temps' = [temps EXCEPT ![cursor] = Placement("register", r, IsPair(cursor))]
              /\ reserved' = [b \in DOMAIN reserved |-> reserved[b] \cup (IF b \in LiveBlocks(cursor) THEN cells ELSE {})]
              /\ calleeSaved' = Noted(cells)
  /\ cursor' = cursor + 1
  /\ UNCHANGED <<code, phase, numberingVars, arrival, locals, freeInt, calleeFree, liveVars, scanVars, fields>>

FinishCrossing ==
  /\ phase = "crossing" /\ cursor > code.temps
  /\ EnterPhase("block", 1)
  /\ UNCHANGED <<code, numberingVars, arrival, locals, temps, freeInt, calleeFree, calleeSaved, liveVars, reserved, scanVars, fields>>

-----------------------------------------------------------------------------
(* Values of one block: registers handed out and taken back as the block   *)
(* is walked.  cursor is <<place of the block, next instruction>>.  A pool  *)
(* is its registers and their places in the vector.                        *)

Scanned == code.order[cursor[1]]
Now     == InstrAt(Scanned, cursor[2])

Listed(regs) == [r \in regs |-> Rank(r)]

(* Mutant of OpenBlock: a leaf's argument registers are handed out too. *)
OpenBlockArguments ==
  /\ phase = "block" /\ cursor <= Len(code.order)
  /\ LET taken == reserved[code.order[cursor]]
     IN pools' = [pool   |-> Listed(freeInt \ taken),
                  args   |-> Listed(ToSet(ArgRegisters)),
                  callee |-> Listed(calleeFree \ taken)]
  /\ held' = << >>
  /\ EnterPhase("scan", <<cursor, 1>>)
  /\ UNCHANGED <<code, numberingVars, arrival, locals, temps, freeInt, calleeFree, calleeSaved, liveVars, reserved, fields>>

OpenBlock ==
  /\ phase = "block" /\ cursor <= Len(code.order)
  /\ LET taken == reserved[code.order[cursor]]
     IN pools' = [pool   |-> Listed(freeInt \ taken),
                  args   |-> Listed(IF HasCalls THEN ToSet(ArgRegisters) ELSE {}),
                  callee |-> Listed(calleeFree \ taken)]
  /\ held' = << >>
  /\ EnterPhase("scan", <<cursor, 1>>)
  /\ UNCHANGED <<code, numberingVars, arrival, locals, temps, freeInt, calleeFree, calleeSaved, liveVars, reserved, fields>>

LastUse(t) == Max({0} \cup {k \in DOMAIN code.blocks[Scanned] : t \in Operands(InstrAt(Scanned, k))})

(* What was last read before this instruction, or is read by this very one  *)
(* when it defines a pair: pair instructions read before they write.       *)
Expired(h) == LastUse(h.temp) < cursor[2] \/ (LastUse(h.temp) = cursor[2] /\ Now.res # NoTemp /\ IsPair(Now.res))

InScan == phase = "scan" /\ cursor[2] <= Len(code.blocks[Scanned])

(* push_back, of the even half of a pair first. *)
Back(pool, home) ==
  [r \in DOMAIN pool \cup CellsOf(home) |->
     IF r \in CellsOf(home) THEN Max({0} \cup {pool[q] : q \in DOMAIN pool}) + 1 + r - home.index ELSE pool[r]]

(* The registers of the value held last go back first. *)
Release ==
  /\ InScan
  /\ \E n \in DOMAIN held :
       /\ Expired(held[n])
       /\ \A m \in (n + 1)..Len(held) : ~Expired(held[m])
       /\ pools' = [pools EXCEPT ![held[n].from] = Back(@, temps[held[n].temp])]
       /\ held' = RemoveAt(held, n)
  /\ UNCHANGED <<code, phase, cursor, numberingVars, arrival, locals, temps, freeInt, calleeFree, calleeSaved, liveVars, reserved, fields>>

CallInRange(t) == \E k \in (cursor[2] + 1)..LastUse(t) : InstrAt(Scanned, k).op = "call"

(* The pools a value may take its register from, best first. *)
PoolsFor(t) ==
  LET spans == CallInRange(t)
  IN  (IF spans THEN << >> ELSE <<"pool">>)
        \o (IF spans \/ CallArg(t) THEN << >> ELSE <<"args">>)
        \o (IF IsPair(t) THEN <<"callee">> ELSE << >>)

(* A word takes the last register of a pool, a pair the highest one.       *)
Offered(t, pool) ==
  IF IsPair(t) THEN TakePair(DOMAIN pool, NoRegister, {})
  ELSE {r \in DOMAIN pool : \A q \in DOMAIN pool : pool[q] <= pool[r]}

WantsRegister(t) ==
  /\ t \in DOMAIN temps /\ temps[t].kind = "slot"
  /\ DefCount(code, t) = 1 /\ t \notin liveOut[Scanned] /\ LastUse(t) # 0

(* The first of its pools that can gives t a register. *)
Offers(t) ==
  LET from     == PoolsFor(t)
      Giving(n) == Offered(t, pools[from[n]])
  IN  IF ~WantsRegister(t) THEN {}
      ELSE UNION {{from[n]} \X Giving(n) : n \in {m \in DOMAIN from : \A k \in 1..(m - 1) : Giving(k) = {}}}

Grant ==
  /\ InScan
  /\ \A n \in DOMAIN held : ~Expired(held[n])
  /\ \E t \in {Now.res} : \E offers \in {Offers(t)} :
       IF offers = {} THEN UNCHANGED <<temps, scanVars, calleeSaved>>
       ELSE \E o \in offers : \E p \in {o[1]} : \E r \in {o[2]} :
              /\ temps' = [temps EXCEPT ![t] = Placement("register", r, IsPair(t))]
              /\ pools' = [pools EXCEPT ![p] = [q \in DOMAIN @ \ Cells(r, IsPair(t)) |-> @[q]]]
              /\ held' = Append(held, [temp |-> t, from |-> p])
              /\ calleeSaved' = IF IsPair(t) THEN Noted(Cells(r, TRUE)) ELSE calleeSaved
  /\ cursor' = <<cursor[1], cursor[2] + 1>>
  /\ UNCHANGED <<code, phase, numberingVars, arrival, locals, freeInt, calleeFree, liveVars, reserved, fields>>

CloseBlock ==
  /\ phase = "scan" /\ cursor[2] > Len(code.blocks[Scanned])
  /\ EnterPhase("block", cursor[1] + 1)
  /\ UNCHANGED <<code, numberingVars, arrival, locals, temps, freeInt, calleeFree, calleeSaved, liveVars, reserved, scanVars, fields>>

FinishScan ==
  /\ phase = "block" /\ cursor > Len(code.order)
  /\ EnterPhase("fields", 1)
  /\ UNCHANGED <<code, numberingVars, arrival, locals, temps, freeInt, calleeFree, calleeSaved, liveVars, reserved, scanVars, fields>>

-----------------------------------------------------------------------------
(* Frame fields for everything left: first one for each local, then one    *)
(* for each temporary, shared with others it never meets.                  *)

Field(pair, temporaries) == [pair |-> pair, temps |-> temporaries]

PlaceLocalField ==
  /\ phase = "fields" /\ cursor <= Len(code.locals)
  /\ LET l == cursor
     IN IF locals[l].kind = "register" THEN UNCHANGED <<locals, fields>>
        ELSE IF ~LocalReferenced(l) THEN locals' = [locals EXCEPT ![l] = Nowhere] /\ UNCHANGED fields
        ELSE /\ locals' = [locals EXCEPT ![l] = Placement("slot", Len(fields) + 1, IsWideLocal(l))]
             /\ fields' = Append(fields, Field(IsWideLocal(l), {}))
  /\ cursor' = cursor + 1
  /\ UNCHANGED <<code, phase, numberingVars, arrival, temps, freeInt, calleeFree, calleeSaved, liveVars, reserved, scanVars>>

(* Two values meet where one is defined while the other is live, or read    *)
(* while the other is live or read too.                                    *)
Meets(a, c) ==
  \E q \in Points :
    LET i == InstrAt(q[1], q[2]) after == LiveAfter(q[1], q[2])
    IN  (i.res = a /\ c \in after) \/ (a \in Operands(i) /\ c \in (after \ {i.res}) \cup Operands(i))
Interferes(a, c) == a # c /\ (Meets(a, c) \/ Meets(c, a))

SharedField(t) ==
  {n \in DOMAIN fields : /\ fields[n].temps # {} /\ fields[n].pair = IsPair(t)
                         /\ RegisterAllocation
                         /\ \A other \in fields[n].temps : ~Interferes(t, other)}

PlaceTempField ==
  /\ phase = "fields" /\ cursor > Len(code.locals) /\ cursor <= Len(code.locals) + code.temps
  /\ \E t \in {cursor - Len(code.locals)} :
       IF ~Referenced(t) THEN temps' = [temps EXCEPT ![t] = Nowhere] /\ UNCHANGED fields
       ELSE IF temps[t].kind # "slot" THEN UNCHANGED <<temps, fields>>
       ELSE \E n \in {Min(SharedField(t) \cup {Len(fields) + 1})} :
              /\ temps' = [temps EXCEPT ![t] = Placement("slot", n, IsPair(t))]
              /\ fields' = IF n <= Len(fields) THEN [fields EXCEPT ![n].temps = @ \cup {t}]
                           ELSE Append(fields, Field(IsPair(t), {t}))
  /\ cursor' = cursor + 1
  /\ UNCHANGED <<code, phase, numberingVars, arrival, locals, freeInt, calleeFree, calleeSaved, liveVars, reserved, scanVars>>

FinishPlacement ==
  /\ phase = "fields" /\ cursor > Len(code.locals) + code.temps
  /\ EnterPhase("placed", 1)
  /\ UNCHANGED <<code, numberingVars, arrival, locals, temps, freeInt, calleeFree, calleeSaved, liveVars, reserved, scanVars, fields>>

PlacementNext ==
  \/ NumberParameter \/ FinishArrival
  \/ PlaceLocal \/ PlaceAddresses
  \/ UpdateLiveness \/ PlaceAliases
  \/ PlaceCrossing \/ FinishCrossing
  \/ OpenBlock \/ Release \/ Grant \/ CloseBlock \/ FinishScan
  \/ PlaceLocalField \/ PlaceTempField \/ FinishPlacement

-----------------------------------------------------------------------------
(* Properties.                                                             *)

(* A local that has a register has it to itself for the whole function: no *)
(* other local and no temporary is ever given any part of it, whatever the *)
(* order the passes hand registers out in.                                 *)
LocalsKeepTheirRegisters ==
  LET ofTemporaries == UNION {CellsOf(temps[t]) : t \in DOMAIN temps}
  IN  \A l \in DOMAIN locals : locals[l].kind = "register" =>
        /\ CellsOf(locals[l]) \cap ofTemporaries = {}
        /\ \A m \in DOMAIN locals : m # l => CellsOf(locals[l]) \cap CellsOf(locals[m]) = {}

(* Every callee-saved register the function was given is one its prologue   *)
(* saves.                                                                  *)
CalleeSavedNoted ==
  /\ \A l \in DOMAIN locals : CellsOf(locals[l]) \cap CalleeSaved \subseteq calleeSaved
  /\ \A t \in DOMAIN temps : CellsOf(temps[t]) \cap CalleeSaved \subseteq calleeSaved
=============================================================================
