------------------------ MODULE ValuePlacementProofs ------------------------
(***************************************************************************)
(* The placement, proved for every function, whatever its locals,           *)
(* temporaries and blocks, and every choice of the two register pools: the  *)
(* registers handed out are apart from the locals', the prologue saves      *)
(* them, the liveness pass solves its equations, aliases stay true and no   *)
(* field of the frame serves two values that meet.  The last of it rests on  *)
(* ConventionAssumption and CodeAssumption, which say what a compiled        *)
(* function looks like.  PlacedCodeProofs goes on to the emitted code.       *)
(***************************************************************************)
EXTENDS PlacedCode, SequenceTheorems, FiniteSetTheorems, WellFoundedInduction, TLAPS

(* The pools of a block: free registers, argument registers, callee-saved ones. *)
PoolNames == {"pool", "args", "callee"}

(* Argument registers that temporaries may use, and all they may use. *)
ArgPool == IF HasCalls THEN ToSet(ArgRegisters) ELSE {}
Givable   == freeInt \cup calleeFree \cup ArgPool

(* What the pool of that name is a part of. *)
Base(p) == CASE p = "pool" -> freeInt [] p = "args" -> ArgPool [] OTHER -> calleeFree

(* Until these are over no temporary has a register of its own. *)
UnplacedPhases == {"arrival", "locals", "liveness", "alias"}

(* What a local has can be given to no one else, ... *)
LocalsApart == \A l \in DOMAIN locals : CellsOf(locals[l]) \cap Givable = {}

(* ... nor to another local. *)
LocalsDisjoint ==
  \A l \in DOMAIN locals : \A m \in DOMAIN locals : l # m => CellsOf(locals[l]) \cap CellsOf(locals[m]) = {}

(* What temporaries have was given to them, and after the locals. *)
TempsGiven ==
  /\ \A t \in DOMAIN temps : CellsOf(temps[t]) \subseteq Givable
  /\ phase \in UnplacedPhases => \A t \in DOMAIN temps : CellsOf(temps[t]) = {}

(* The argument registers are no part of what is free, nor are those a call *)
(* keeps part of what it clobbers.                                         *)
FreeApart ==
  /\ (freeInt \cup calleeFree) \cap ArgPool = {}
  /\ (freeInt \cup ArgPool) \cap CalleeSaved = {}

(* The pools of the block being scanned are parts of what there is, ... *)
PoolsFree ==
  phase = "scan" =>
    /\ DOMAIN pools = PoolNames
    /\ \A p \in PoolNames : DOMAIN pools[p] \subseteq Base(p)

(* ... and what a value holds is of the pool it goes back to. *)
HeldFromPools ==
  phase = "scan" =>
    /\ held \in Seq([temp : DOMAIN temps, from : PoolNames])
    /\ \A n \in DOMAIN held : /\ temps[held[n].temp].kind = "register"
                              /\ CellsOf(temps[held[n].temp]) \subseteq Base(held[n].from)

(* The inductive invariant of the registers handed out. *)
IInv ==
  /\ FreeApart /\ LocalsApart /\ LocalsDisjoint
  /\ TempsGiven /\ PoolsFree /\ HeldFromPools

-----------------------------------------------------------------------------
(* What the choices of a register give. *)

(* Both halves of a pair come out of the pool it was asked of (takePair). *)
LEMMA PairIsWhole ==
  ASSUME NEW pool, NEW wanted, NEW blocked, NEW r \in TakePair(pool, wanted, blocked)
  PROVE  Cells(r, TRUE) \subseteq pool
<1>1. r \in {q \in pool : q % 2 = 0 /\ q + 1 \in pool}
  BY DEF TakePair
<1>. QED  BY <1>1 DEF Cells

(* A single register comes out of the pool it was asked of (takeRegister). *)
LEMMA RegisterIsFree ==
  ASSUME NEW pool, NEW wanted, NEW blocked, NEW r \in TakeRegister(pool, wanted, blocked)
  PROVE  r \in pool
BY DEF TakeRegister, FirstOf

(* The register given to a local was free. *)
LEMMA LocalTakesFree ==
  ASSUME NEW l, NEW r \in RegisterFor(l)
  PROVE  Cells(r, IsWideLocal(l)) \subseteq freeInt \cup calleeFree
<1>1. CASE IsWideLocal(l) = TRUE
  <2>. DEFINE pool == IF HasCalls THEN calleeFree ELSE freeInt
  <2>1. PICK w, b : r \in TakePair(pool, w, b) \/ r \in TakePair(calleeFree, NoRegister, {})
    BY <1>1 DEF RegisterFor
  <2>2. Cells(r, TRUE) \subseteq pool \/ Cells(r, TRUE) \subseteq calleeFree
    BY <2>1, PairIsWhole
  <2>. QED  BY <1>1, <2>2
<1>2. CASE IsWideLocal(l) = FALSE
  <2>. DEFINE pool == IF HasCalls THEN calleeFree ELSE freeInt
  <2>1. PICK w, b : r \in TakeRegister(pool, w, b)
    BY <1>2 DEF RegisterFor
  <2>2. r \in pool
    BY <2>1, RegisterIsFree
  <2>. QED  BY <1>2, <2>2 DEF Cells
<1>. QED  BY <1>1, <1>2 DEF IsWideLocal

(* The register given to a value that crosses blocks is no local's. *)
LEMMA CrossingTakesFree ==
  ASSUME NEW t, NEW r \in CrossingRegister(t)
  PROVE  Cells(r, IsPair(t)) \subseteq freeInt \cup calleeFree
<1>1. r \in OpenFor(freeInt, t) \/ r \in OpenFor(calleeFree, t)
  BY DEF CrossingRegister, LastOf
<1>2. \E pool \in {freeInt, calleeFree} : r \in pool /\ (IsPair(t) => r + 1 \in pool)
  BY <1>1 DEF OpenFor
<1>. QED  BY <1>2 DEF Cells

(* The pools asked are the three there are; a word does without the last. *)
LEMMA PoolsForNames ==
  ASSUME NEW t, NEW n \in DOMAIN PoolsFor(t)
  PROVE  PoolsFor(t)[n] \in PoolNames /\ (~IsPair(t) => PoolsFor(t)[n] # "callee")
<1>. DEFINE first  == IF CallInRange(t) THEN << >> ELSE <<"pool">>
            second == IF CallInRange(t) \/ CallArg(t) THEN << >> ELSE <<"args">>
            third  == IF IsPair(t) THEN <<"callee">> ELSE << >>
            names  == {p \in PoolNames : ~IsPair(t) => p # "callee"}
<1>1. first \in Seq(names) /\ second \in Seq(names) /\ third \in Seq(names)
  <2>1. "pool" \in names /\ "args" \in names /\ (IsPair(t) => "callee" \in names)
    BY DEF PoolNames
  <2>. HIDE DEF names
  <2>2. << >> \in Seq(names) /\ <<"pool">> \in Seq(names) /\ <<"args">> \in Seq(names)
    BY <2>1
  <2>3. IsPair(t) => <<"callee">> \in Seq(names)
    BY <2>1
  <2>. QED  BY <2>2, <2>3
<1>2. PoolsFor(t) = first \o second \o third
  BY DEF PoolsFor
<1>. HIDE DEF names, first, second, third
<1>3. PoolsFor(t) \in Seq(names)
  BY <1>1, <1>2
<1>4. PoolsFor(t)[n] \in names
  BY <1>3
<1>. QED  BY <1>4 DEF names

(* What is offered for a temporary of a block is part of one of the pools. *)
LEMMA OfferIsInPool ==
  ASSUME NEW t, NEW o \in Offers(t)
  PROVE  /\ t \in DOMAIN temps /\ temps[t].kind = "slot"
         /\ o[1] \in PoolNames /\ (~IsPair(t) => o[1] # "callee")
         /\ Cells(o[2], IsPair(t)) \subseteq DOMAIN pools[o[1]]
<1>1. WantsRegister(t)
  BY DEF Offers
<1>2. PICK n \in DOMAIN PoolsFor(t) : o \in {PoolsFor(t)[n]} \X Offered(t, pools[PoolsFor(t)[n]])
  BY <1>1 DEF Offers
<1>3. o[1] = PoolsFor(t)[n] /\ o[2] \in Offered(t, pools[o[1]])
  BY <1>2
<1>4. CASE IsPair(t)
  <2>1. o[2] \in TakePair(DOMAIN pools[o[1]], NoRegister, {})
    BY <1>3, <1>4 DEF Offered
  <2>2. Cells(o[2], TRUE) \subseteq DOMAIN pools[o[1]]
    BY <2>1, PairIsWhole
  <2>. QED  BY <1>1, <1>3, <1>4, <2>2, PoolsForNames DEF WantsRegister, Cells
<1>5. CASE ~IsPair(t)
  <2>1. o[2] \in DOMAIN pools[o[1]]
    BY <1>3, <1>5 DEF Offered
  <2>. QED  BY <1>1, <1>3, <1>5, <2>1, PoolsForNames DEF WantsRegister, Cells
<1>. QED  BY <1>4, <1>5

(* Taking one element out of a sequence leaves elements of it. *)
LEMMA RemovedFrom ==
  ASSUME NEW S, NEW s \in Seq(S), NEW n \in DOMAIN s
  PROVE  /\ RemoveAt(s, n) \in Seq(S)
         /\ \A k \in DOMAIN RemoveAt(s, n) : \E m \in DOMAIN s : RemoveAt(s, n)[k] = s[m]
<1>. DEFINE front == SubSeq(s, 1, n - 1)
            rest  == SubSeq(s, n + 1, Len(s))
<1>1. /\ front \in Seq(S) /\ Len(front) = n - 1
      /\ \A k \in 1..(n - 1) : front[k] = s[k]
  OBVIOUS
<1>2. /\ rest \in Seq(S) /\ Len(rest) = Len(s) - n
      /\ \A k \in 1..(Len(s) - n) : rest[k] = s[n + k]
  OBVIOUS
<1>3. RemoveAt(s, n) = front \o rest
  BY DEF RemoveAt
<1>. HIDE DEF front, rest
<1>4. /\ RemoveAt(s, n) \in Seq(S)
      /\ DOMAIN RemoveAt(s, n) = 1..(Len(s) - 1)
  BY <1>1, <1>2, <1>3
<1>5. ASSUME NEW k \in 1..(Len(s) - 1)
      PROVE  \E m \in DOMAIN s : RemoveAt(s, n)[k] = s[m]
  <2>1. CASE k < n
    <3>1. RemoveAt(s, n)[k] = s[k]
      BY <1>1, <1>2, <1>3, <2>1
    <3>. QED  BY <3>1
  <2>2. CASE k >= n
    <3>1. k - (n - 1) \in 1..(Len(s) - n)
      BY <2>2
    <3>2. (front \o rest)[k] = rest[k - (n - 1)]
      <4>1. Len(front) = n - 1 /\ Len(rest) = Len(s) - n
        BY <1>1, <1>2
      <4>2. \A i \in 1..(Len(front) + Len(rest)) :
              (front \o rest)[i] = IF i <= Len(front) THEN front[i] ELSE rest[i - Len(front)]
        BY <1>1, <1>2, ConcatProperties
      <4>. QED  BY <4>1, <4>2, <2>2
    <3>3. rest[k - (n - 1)] = s[n + (k - (n - 1))]
      BY <1>2, <3>1
    <3>4. n + (k - (n - 1)) = k + 1 /\ k + 1 \in DOMAIN s
      BY <2>2
    <3>5. RemoveAt(s, n)[k] = s[k + 1]
      BY <1>3, <3>2, <3>3, <3>4
    <3>. QED  BY <3>4, <3>5
  <2>. QED  BY <2>1, <2>2
<1>. QED  BY <1>4, <1>5

-----------------------------------------------------------------------------
(* What each step leaves of the invariant. *)

(* Which registers serve arguments depends on the code alone. *)
LEMMA ArgPoolKept == code' = code => ArgPool' = ArgPool
BY DEF ArgPool, HasCalls, Some, InstrAt, Blocks

(* A step that gives out nothing, outside the scan of a block. *)
LEMMA NothingGiven ==
  ASSUME IInv, UNCHANGED <<code, locals, temps, freeInt, calleeFree>>,
         phase' # "scan", phase' \in UnplacedPhases => phase \in UnplacedPhases
  PROVE  IInv'
<1>1. ArgPool' = ArgPool /\ Givable' = Givable
  BY ArgPoolKept DEF Givable
<1>2. FreeApart' /\ LocalsApart' /\ LocalsDisjoint'
  BY <1>1 DEF IInv, FreeApart, LocalsApart, LocalsDisjoint
<1>3. TempsGiven'
  BY <1>1 DEF IInv, TempsGiven
<1>4. PoolsFree' /\ HeldFromPools'
  BY DEF PoolsFree, HeldFromPools
<1>. QED  BY <1>2, <1>3, <1>4 DEF IInv

(* Temporaries get no register: they only change names (PlaceAddresses,     *)
(* PlaceAliases, PlaceTempField), or locals move to the frame.             *)
LEMMA NoRegisterGiven ==
  ASSUME IInv, UNCHANGED <<code, freeInt, calleeFree>>,
         DOMAIN locals' = DOMAIN locals, DOMAIN temps' = DOMAIN temps,
         \A l \in DOMAIN locals : CellsOf(locals'[l]) \subseteq CellsOf(locals[l]),
         \A t \in DOMAIN temps : CellsOf(temps'[t]) \subseteq CellsOf(temps[t]),
         phase' # "scan", phase' \in UnplacedPhases => phase \in UnplacedPhases
  PROVE  IInv'
<1>1. ArgPool' = ArgPool /\ Givable' = Givable
  BY ArgPoolKept DEF Givable
<1>2. FreeApart' /\ LocalsApart' /\ LocalsDisjoint'
  <2>1. FreeApart'
    BY <1>1 DEF IInv, FreeApart
  <2>2. LocalsApart'
    BY <1>1 DEF IInv, LocalsApart, CellsOf
  <2>3. LocalsDisjoint'
    BY DEF IInv, LocalsDisjoint, CellsOf
  <2>. QED  BY <2>1, <2>2, <2>3
<1>3. TempsGiven'
  BY <1>1 DEF IInv, TempsGiven, CellsOf
<1>4. PoolsFree' /\ HeldFromPools'
  BY DEF PoolsFree, HeldFromPools
<1>. QED  BY <1>2, <1>3, <1>4 DEF IInv

-----------------------------------------------------------------------------
(* Nothing has a register at first, and the argument registers are not      *)
(* among the free ones of a function that calls.                           *)
LEMMA InitIInv == PlacementInit => IInv
<1>. SUFFICES ASSUME PlacementInit PROVE IInv
  OBVIOUS
<1>1. \A l \in DOMAIN locals : CellsOf(locals[l]) = {}
  BY DEF PlacementInit, CellsOf, Unplaced, Placement
<1>2. \A t \in DOMAIN temps : CellsOf(temps[t]) = {}
  BY DEF PlacementInit, CellsOf, Unplaced, Placement
<1>3. FreeApart
  <2>1. freeInt \subseteq ToSet(CallerSavedPool) \cup (IF HasCalls THEN {} ELSE ToSet(ArgRegisters))
    BY DEF PlacementInit
  <2>2. calleeFree = ToSet(CalleeSavedPool)
    BY DEF PlacementInit, CalleeSaved
  <2>. QED  BY <2>1, <2>2, PoolsAssumption DEF FreeApart, ArgPool, CalleeSaved
<1>. QED  BY <1>1, <1>2, <1>3 DEF IInv, LocalsApart, LocalsDisjoint, TempsGiven, PoolsFree, HeldFromPools, PlacementInit

(* A local takes its registers out of the free ones (PlaceLocal). *)
LEMMA PlaceLocalIInv == IInv /\ PlaceLocal => IInv'
<1>. SUFFICES ASSUME IInv, PlaceLocal PROVE IInv'
  OBVIOUS
<1>1. ArgPool' = ArgPool
  BY ArgPoolKept DEF PlaceLocal
<1>2. phase = "locals" /\ phase' = "locals" /\ UNCHANGED temps
  BY DEF PlaceLocal
<1>3. CASE UNCHANGED <<locals, freeInt, calleeFree, calleeSaved>>
  BY <1>2, <1>3, NothingGiven DEF PlaceLocal, UnplacedPhases
<1>4. CASE \E l : \E r \in RegisterFor(l) :
             /\ locals' = [locals EXCEPT ![l] = Placement("register", r, IsWideLocal(l))]
             /\ freeInt' = freeInt \ Cells(r, IsWideLocal(l))
             /\ calleeFree' = calleeFree \ Cells(r, IsWideLocal(l))
  <2>1. PICK l : \E r \in RegisterFor(l) :
             /\ locals' = [locals EXCEPT ![l] = Placement("register", r, IsWideLocal(l))]
             /\ freeInt' = freeInt \ Cells(r, IsWideLocal(l))
             /\ calleeFree' = calleeFree \ Cells(r, IsWideLocal(l))
    BY <1>4
  <2>2. PICK r \in RegisterFor(l) :
             /\ locals' = [locals EXCEPT ![l] = Placement("register", r, IsWideLocal(l))]
             /\ freeInt' = freeInt \ Cells(r, IsWideLocal(l))
             /\ calleeFree' = calleeFree \ Cells(r, IsWideLocal(l))
    BY <2>1
  <2>. DEFINE given == Cells(r, IsWideLocal(l))
  <2>3. given \subseteq freeInt \cup calleeFree
    BY LocalTakesFree
  <2>4. DOMAIN locals' = DOMAIN locals
    BY <2>2
  <2>5. \A m \in DOMAIN locals : CellsOf(locals[m])' = IF m = l THEN given ELSE CellsOf(locals[m])
    BY <2>2 DEF CellsOf, Placement
  <2>. HIDE DEF given
  <2>6. freeInt' = freeInt \ given /\ calleeFree' = calleeFree \ given
    BY <2>2 DEF given
  <2>7. FreeApart'
    BY <1>1, <2>6 DEF IInv, FreeApart
  <2>8. given \cap Givable' = {}
    BY <1>1, <2>3, <2>6 DEF IInv, FreeApart, Givable
  <2>9. LocalsApart'
    BY <1>1, <2>4, <2>5, <2>6, <2>8 DEF IInv, LocalsApart, Givable
  <2>10. LocalsDisjoint'
    BY <2>3, <2>4, <2>5 DEF IInv, LocalsDisjoint, LocalsApart, Givable
  <2>11. TempsGiven'
    BY <1>2 DEF IInv, TempsGiven, UnplacedPhases
  <2>12. PoolsFree' /\ HeldFromPools'
    BY <1>2 DEF PoolsFree, HeldFromPools
  <2>. QED  BY <2>7, <2>9, <2>10, <2>11, <2>12 DEF IInv
<1>. QED  BY <1>3, <1>4 DEF PlaceLocal

(* A crossing value takes registers no local has (PlaceCrossing). *)
LEMMA PlaceCrossingIInv == IInv /\ PlaceCrossing => IInv'
<1>. SUFFICES ASSUME IInv, PlaceCrossing PROVE IInv'
  OBVIOUS
<1>1. /\ phase = "crossing" /\ phase' = "crossing"
      /\ UNCHANGED <<code, locals, freeInt, calleeFree>>
  BY DEF PlaceCrossing
<1>2. ArgPool' = ArgPool /\ Givable' = Givable
  BY <1>1, ArgPoolKept DEF Givable
<1>3. CASE UNCHANGED temps
  BY <1>1, <1>3, NothingGiven DEF UnplacedPhases
<1>4. CASE \E r \in CrossingRegister(cursor) : temps' = [temps EXCEPT ![cursor] = Placement("register", r, IsPair(cursor))]
  <2>1. PICK r \in CrossingRegister(cursor) : temps' = [temps EXCEPT ![cursor] = Placement("register", r, IsPair(cursor))]
    BY <1>4
  <2>2. Cells(r, IsPair(cursor)) \subseteq Givable
    BY CrossingTakesFree DEF Givable
  <2>3. /\ DOMAIN temps' = DOMAIN temps
        /\ \A t \in DOMAIN temps : CellsOf(temps[t])' = IF t = cursor THEN Cells(r, IsPair(cursor)) ELSE CellsOf(temps[t])
    BY <2>1 DEF CellsOf, Placement
  <2>4. TempsGiven'
    BY <1>1, <1>2, <2>2, <2>3 DEF IInv, TempsGiven, UnplacedPhases
  <2>5. FreeApart' /\ LocalsApart' /\ LocalsDisjoint'
    BY <1>1, <1>2 DEF IInv, FreeApart, LocalsApart, LocalsDisjoint
  <2>6. PoolsFree' /\ HeldFromPools'
    BY <1>1 DEF PoolsFree, HeldFromPools
  <2>. QED  BY <2>4, <2>5, <2>6 DEF IInv
<1>. QED  BY <1>3, <1>4 DEF PlaceCrossing

(* The pools of a block are what the locals left (OpenBlock). *)
LEMMA OpenBlockIInv == IInv /\ OpenBlock => IInv'
<1>. SUFFICES ASSUME IInv, OpenBlock PROVE IInv'
  OBVIOUS
<1>1. /\ phase = "block" /\ phase' = "scan" /\ held' = << >>
      /\ UNCHANGED <<code, locals, temps, freeInt, calleeFree>>
  BY DEF OpenBlock, EnterPhase
<1>2. ArgPool' = ArgPool /\ Givable' = Givable
  BY <1>1, ArgPoolKept DEF Givable
<1>3. PICK taken : pools' = [pool   |-> Listed(freeInt \ taken),
                             args   |-> Listed(IF HasCalls THEN ToSet(ArgRegisters) ELSE {}),
                             callee |-> Listed(calleeFree \ taken)]
  BY DEF OpenBlock
<1>4. /\ DOMAIN pools' = PoolNames
      /\ DOMAIN pools'["pool"] = freeInt \ taken
      /\ DOMAIN pools'["args"] = ArgPool
      /\ DOMAIN pools'["callee"] = calleeFree \ taken
  BY <1>3 DEF Listed, PoolNames, ArgPool
<1>5. PoolsFree'
  BY <1>1, <1>2, <1>4 DEF PoolsFree, PoolNames, Base
<1>6. HeldFromPools'
  BY <1>1 DEF HeldFromPools
<1>7. FreeApart' /\ LocalsApart' /\ LocalsDisjoint' /\ TempsGiven'
  BY <1>1, <1>2 DEF IInv, FreeApart, LocalsApart, LocalsDisjoint, TempsGiven, UnplacedPhases
<1>. QED  BY <1>5, <1>6, <1>7 DEF IInv

(* What a value gives back came from the pool it goes to (Release). *)
LEMMA ReleaseIInv == IInv /\ Release => IInv'
<1>. SUFFICES ASSUME IInv, Release PROVE IInv'
  OBVIOUS
<1>1. /\ phase = "scan" /\ phase' = "scan"
      /\ UNCHANGED <<code, locals, temps, freeInt, calleeFree>>
  BY DEF Release, InScan
<1>2. ArgPool' = ArgPool /\ Givable' = Givable /\ \A p : Base(p)' = Base(p)
  BY <1>1, ArgPoolKept DEF Givable, Base
<1>3. PICK n \in DOMAIN held : /\ pools' = [pools EXCEPT ![held[n].from] = Back(@, temps[held[n].temp])]
                               /\ held' = RemoveAt(held, n)
  BY DEF Release
<1>. DEFINE from == held[n].from
            home == temps[held[n].temp]
<1>4. from \in PoolNames /\ CellsOf(home) \subseteq Base(from)
  <2>. DEFINE Held == [temp : DOMAIN temps, from : PoolNames]
  <2>1. held \in Seq(Held) /\ CellsOf(temps[held[n].temp]) \subseteq Base(held[n].from)
    BY <1>1 DEF IInv, HeldFromPools
  <2>2. held[n] \in Held
    <3>1. DOMAIN held = 1..Len(held)
      BY <2>1
    <3>. QED  BY <2>1, <3>1, ElementOfSeq
  <2>3. held[n].from \in PoolNames
    BY <2>2
  <2>. QED  BY <2>1, <2>3 DEF from, home
<1>. HIDE DEF from, home
<1>5. DOMAIN Back(pools[from], home) = DOMAIN pools[from] \cup CellsOf(home)
  BY DEF Back
<1>6. /\ DOMAIN pools' = PoolNames
      /\ \A p \in PoolNames : DOMAIN pools'[p] \subseteq Base(p)
  <2>1. DOMAIN pools = PoolNames /\ \A p \in PoolNames : DOMAIN pools[p] \subseteq Base(p)
    BY <1>1 DEF IInv, PoolsFree
  <2>2. pools' = [pools EXCEPT ![from] = Back(pools[from], home)]
    BY <1>3 DEF from, home
  <2>. QED  BY <1>4, <1>5, <2>1, <2>2
<1>7. PoolsFree'
  BY <1>2, <1>6 DEF PoolsFree
<1>8. HeldFromPools'
  <2>. DEFINE Held == [temp : DOMAIN temps, from : PoolNames]
  <2>1. held \in Seq(Held)
    BY <1>1 DEF IInv, HeldFromPools
  <2>2. held' \in Seq(Held) /\ \A k \in DOMAIN held' : \E m \in DOMAIN held : held'[k] = held[m]
    BY <1>3, <2>1, RemovedFrom
  <2>3. \A m \in DOMAIN held : /\ temps[held[m].temp].kind = "register"
                               /\ CellsOf(temps[held[m].temp]) \subseteq Base(held[m].from)
    BY <1>1 DEF IInv, HeldFromPools
  <2>4. \A k \in DOMAIN held' : /\ temps[held'[k].temp].kind = "register"
                                /\ CellsOf(temps[held'[k].temp]) \subseteq Base(held'[k].from)
    BY <2>2, <2>3
  <2>. QED  BY <1>1, <1>2, <2>2, <2>4 DEF HeldFromPools, CellsOf
<1>9. FreeApart' /\ LocalsApart' /\ LocalsDisjoint' /\ TempsGiven'
  BY <1>1, <1>2 DEF IInv, FreeApart, LocalsApart, LocalsDisjoint, TempsGiven
<1>. QED  BY <1>7, <1>8, <1>9 DEF IInv

(* A value takes its registers out of a pool (Grant). *)
LEMMA GrantIInv == IInv /\ Grant => IInv'
<1>. SUFFICES ASSUME IInv, Grant PROVE IInv'
  OBVIOUS
<1>1. /\ phase = "scan" /\ phase' = "scan"
      /\ UNCHANGED <<code, locals, freeInt, calleeFree>>
  BY DEF Grant, InScan
<1>2. ArgPool' = ArgPool /\ Givable' = Givable /\ \A p : Base(p)' = Base(p)
  BY <1>1, ArgPoolKept DEF Givable, Base
<1>3. FreeApart' /\ LocalsApart' /\ LocalsDisjoint'
  BY <1>1, <1>2 DEF IInv, FreeApart, LocalsApart, LocalsDisjoint
<1>4. CASE UNCHANGED <<temps, scanVars>>
  <2>1. UNCHANGED <<temps, pools, held>>
    BY <1>4 DEF scanVars
  <2>. QED  BY <1>1, <1>2, <1>3, <2>1 DEF IInv, TempsGiven, PoolsFree, HeldFromPools, CellsOf
<1>5. CASE \E t : \E o \in Offers(t) :
             /\ temps' = [temps EXCEPT ![t] = Placement("register", o[2], IsPair(t))]
             /\ pools' = [pools EXCEPT ![o[1]] = [q \in DOMAIN @ \ Cells(o[2], IsPair(t)) |-> @[q]]]
             /\ held' = Append(held, [temp |-> t, from |-> o[1]])
  <2>1. PICK t : \E o \in Offers(t) :
             /\ temps' = [temps EXCEPT ![t] = Placement("register", o[2], IsPair(t))]
             /\ pools' = [pools EXCEPT ![o[1]] = [q \in DOMAIN @ \ Cells(o[2], IsPair(t)) |-> @[q]]]
             /\ held' = Append(held, [temp |-> t, from |-> o[1]])
    BY <1>5
  <2>2. PICK o \in Offers(t) :
             /\ temps' = [temps EXCEPT ![t] = Placement("register", o[2], IsPair(t))]
             /\ pools' = [pools EXCEPT ![o[1]] = [q \in DOMAIN @ \ Cells(o[2], IsPair(t)) |-> @[q]]]
             /\ held' = Append(held, [temp |-> t, from |-> o[1]])
    BY <2>1
  <2>. DEFINE from == o[1]
              given == Cells(o[2], IsPair(t))
  <2>3. /\ t \in DOMAIN temps /\ temps[t].kind = "slot"
        /\ from \in PoolNames /\ given \subseteq DOMAIN pools[from]
    BY OfferIsInPool
  <2>4. /\ DOMAIN temps' = DOMAIN temps
        /\ temps'[t].kind = "register" /\ CellsOf(temps[t])' = given
        /\ \A u \in DOMAIN temps : u # t => temps'[u] = temps[u]
    BY <2>2, <2>3 DEF CellsOf, Placement
  <2>. HIDE DEF from, given
  <2>5. DOMAIN pools = PoolNames /\ \A p \in PoolNames : DOMAIN pools[p] \subseteq Base(p)
    BY <1>1 DEF IInv, PoolsFree
  <2>6. pools' = [pools EXCEPT ![from] = [q \in DOMAIN pools[from] \ given |-> pools[from][q]]]
    BY <2>2 DEF from, given
  <2>7. DOMAIN pools' = PoolNames /\ \A p \in PoolNames : DOMAIN pools'[p] \subseteq DOMAIN pools[p]
    BY <2>3, <2>5, <2>6
  <2>8. PoolsFree'
    BY <1>2, <2>5, <2>7 DEF PoolsFree
  <2>9. given \subseteq Base(from)
    BY <2>3, <2>5
  <2>10. TempsGiven'
    <3>1. Base(from) \subseteq Givable
      BY <2>3 DEF Base, Givable, PoolNames
    <3>2. \A u \in DOMAIN temps : CellsOf(temps[u])' \subseteq Givable
      BY <2>4, <2>9, <3>1 DEF IInv, TempsGiven, CellsOf
    <3>. QED  BY <1>1, <1>2, <2>4, <3>2 DEF TempsGiven, UnplacedPhases
  <2>11. HeldFromPools'
    <3>. DEFINE Held == [temp : DOMAIN temps, from : PoolNames]
                new  == [temp |-> t, from |-> from]
    <3>1. held \in Seq(Held) /\ new \in Held
      <4>1. held \in Seq(Held)
        BY <1>1 DEF IInv, HeldFromPools
      <4>2. new \in Held
        BY <2>3
      <4>. QED  BY <4>1, <4>2
    <3>2. held' = Append(held, new)
      BY <2>2 DEF from
    <3>3. held' \in Seq(Held) /\ \A k \in DOMAIN held' : held'[k] = new \/ (k \in DOMAIN held /\ held'[k] = held[k])
      BY <3>1, <3>2
    <3>4. \A k \in DOMAIN held : /\ held[k].temp \in DOMAIN temps /\ held[k].temp # t
                                 /\ temps[held[k].temp].kind = "register"
                                 /\ CellsOf(temps[held[k].temp]) \subseteq Base(held[k].from)
      <4>1. \A k \in DOMAIN held : held[k] \in Held
        <5>1. DOMAIN held = 1..Len(held)
          BY <3>1
        <5>. QED  BY <3>1, <5>1, ElementOfSeq
      <4>2. \A k \in DOMAIN held : held[k].temp \in DOMAIN temps
        BY <4>1
      <4>3. \A k \in DOMAIN held : /\ temps[held[k].temp].kind = "register"
                                   /\ CellsOf(temps[held[k].temp]) \subseteq Base(held[k].from)
        BY <1>1 DEF IInv, HeldFromPools
      <4>4. "slot" # "register"
        OBVIOUS
      <4>. QED  BY <2>3, <4>2, <4>3, <4>4
    <3>5. ASSUME NEW k \in DOMAIN held'
          PROVE  /\ temps'[held'[k].temp].kind = "register"
                 /\ CellsOf(temps[held[k].temp])' \subseteq Base(held'[k].from)
      <4>1. CASE held'[k] = new
        BY <2>4, <2>9, <4>1 DEF CellsOf
      <4>2. CASE k \in DOMAIN held /\ held'[k] = held[k]
        <5>1. temps'[held'[k].temp] = temps[held[k].temp]
          BY <2>4, <3>4, <4>2
        <5>. QED  BY <3>4, <4>2, <5>1 DEF CellsOf
      <4>. QED  BY <3>3, <4>1, <4>2
    <3>. QED  BY <1>2, <2>4, <3>3, <3>5 DEF HeldFromPools
  <2>. QED  BY <1>3, <2>8, <2>10, <2>11 DEF IInv
<1>6. PICK t, offers : /\ offers = Offers(t)
                       /\ IF offers = {} THEN UNCHANGED <<temps, scanVars, calleeSaved>>
                          ELSE \E o \in offers : \E p \in {o[1]} : \E r \in {o[2]} :
                                 /\ temps' = [temps EXCEPT ![t] = Placement("register", r, IsPair(t))]
                                 /\ pools' = [pools EXCEPT ![p] = [q \in DOMAIN @ \ Cells(r, IsPair(t)) |-> @[q]]]
                                 /\ held' = Append(held, [temp |-> t, from |-> p])
  <2>1. PICK t \in {Now.res} : \E offers \in {Offers(t)} :
          IF offers = {} THEN UNCHANGED <<temps, scanVars, calleeSaved>>
          ELSE \E o \in offers : \E p \in {o[1]} : \E r \in {o[2]} :
                 /\ temps' = [temps EXCEPT ![t] = Placement("register", r, IsPair(t))]
                 /\ pools' = [pools EXCEPT ![p] = [q \in DOMAIN @ \ Cells(r, IsPair(t)) |-> @[q]]]
                 /\ held' = Append(held, [temp |-> t, from |-> p])
    BY DEF Grant
  <2>. QED  BY <2>1
<1>7. CASE offers = {}
  BY <1>4, <1>6, <1>7
<1>8. CASE offers # {}
  <2>1. PICK o \in Offers(t) : \E p \in {o[1]} : \E r \in {o[2]} :
          /\ temps' = [temps EXCEPT ![t] = Placement("register", r, IsPair(t))]
          /\ pools' = [pools EXCEPT ![p] = [q \in DOMAIN @ \ Cells(r, IsPair(t)) |-> @[q]]]
          /\ held' = Append(held, [temp |-> t, from |-> p])
    BY <1>6, <1>8
  <2>2. /\ temps' = [temps EXCEPT ![t] = Placement("register", o[2], IsPair(t))]
        /\ pools' = [pools EXCEPT ![o[1]] = [q \in DOMAIN @ \ Cells(o[2], IsPair(t)) |-> @[q]]]
        /\ held' = Append(held, [temp |-> t, from |-> o[1]])
    BY <2>1
  <2>. QED  BY <1>5, <2>2
<1>. QED  BY <1>7, <1>8

(* The addresses of locals with a register become names (PlaceAddresses). *)
LEMMA PlaceAddressesIInv == IInv /\ PlaceAddresses => IInv'
<1>. SUFFICES ASSUME IInv, PlaceAddresses PROVE IInv'
  OBVIOUS
<1>1. /\ phase = "locals" /\ phase' = "liveness"
      /\ UNCHANGED <<code, locals, freeInt, calleeFree>>
      /\ temps' = [t \in DOMAIN temps |-> AddressPlacement(t)]
  BY DEF PlaceAddresses, EnterPhase
<1>2. \A t : CellsOf(AddressPlacement(t)) \subseteq CellsOf(temps[t])
  BY DEF AddressPlacement, CellsOf, Placement
<1>3. DOMAIN temps' = DOMAIN temps /\ \A t \in DOMAIN temps : CellsOf(temps'[t]) \subseteq CellsOf(temps[t])
  BY <1>1, <1>2
<1>. QED  BY <1>1, <1>3, NoRegisterGiven DEF UnplacedPhases

(* Loads of such locals too (PlaceAliases). *)
LEMMA PlaceAliasesIInv == IInv /\ PlaceAliases => IInv'
<1>. SUFFICES ASSUME IInv, PlaceAliases PROVE IInv'
  OBVIOUS
<1>1. /\ phase = "alias" /\ phase' = "crossing"
      /\ UNCHANGED <<code, locals, freeInt, calleeFree>>
      /\ temps' = [t \in DOMAIN temps |-> AliasPlacement(t)]
  BY DEF PlaceAliases, EnterPhase
<1>2. \A t : CellsOf(AliasPlacement(t)) \subseteq CellsOf(temps[t])
  BY DEF AliasPlacement, CellsOf, Placement
<1>3. DOMAIN temps' = DOMAIN temps /\ \A t \in DOMAIN temps : CellsOf(temps'[t]) \subseteq CellsOf(temps[t])
  BY <1>1, <1>2
<1>. QED  BY <1>1, <1>3, NoRegisterGiven DEF UnplacedPhases

(* What has no register gets a frame field (PlaceLocalField). *)
LEMMA PlaceLocalFieldIInv == IInv /\ PlaceLocalField => IInv'
<1>. SUFFICES ASSUME IInv, PlaceLocalField PROVE IInv'
  OBVIOUS
<1>1. /\ phase = "fields" /\ phase' = "fields"
      /\ UNCHANGED <<code, temps, freeInt, calleeFree>>
  BY DEF PlaceLocalField
<1>2. \/ UNCHANGED locals
      \/ locals' = [locals EXCEPT ![cursor] = Nowhere]
      \/ locals' = [locals EXCEPT ![cursor] = Placement("slot", Len(fields) + 1, IsWideLocal(cursor))]
  BY DEF PlaceLocalField
<1>3. /\ DOMAIN locals' = DOMAIN locals
      /\ \A l \in DOMAIN locals : CellsOf(locals'[l]) \subseteq CellsOf(locals[l])
  BY <1>2 DEF CellsOf, Placement, Nowhere
<1>. QED  BY <1>1, <1>3, NoRegisterGiven DEF UnplacedPhases

LEMMA PlaceTempFieldIInv == IInv /\ PlaceTempField => IInv'
<1>. SUFFICES ASSUME IInv, PlaceTempField PROVE IInv'
  OBVIOUS
<1>1. /\ phase = "fields" /\ phase' = "fields"
      /\ UNCHANGED <<code, locals, freeInt, calleeFree>>
  BY DEF PlaceTempField
<1>2. \/ UNCHANGED temps
      \/ \E t : temps' = [temps EXCEPT ![t] = Nowhere]
      \/ \E t, n : temps' = [temps EXCEPT ![t] = Placement("slot", n, IsPair(t))]
  BY DEF PlaceTempField
<1>3. /\ DOMAIN temps' = DOMAIN temps
      /\ \A t \in DOMAIN temps : CellsOf(temps'[t]) \subseteq CellsOf(temps[t])
  BY <1>2 DEF CellsOf, Placement, Nowhere
<1>. QED  BY <1>1, <1>3, NoRegisterGiven DEF UnplacedPhases

LEMMA PlacementIInv == IInv /\ PlacementNext => IInv'
<1>. SUFFICES ASSUME IInv, PlacementNext PROVE IInv'
  OBVIOUS
<1>1. CASE NumberParameter \/ FinishArrival
  BY <1>1, NothingGiven DEF NumberParameter, FinishArrival, EnterPhase, UnplacedPhases
<1>2. CASE UpdateLiveness
  BY <1>2, NothingGiven DEF UpdateLiveness, EnterPhase, UnplacedPhases
<1>3. CASE FinishCrossing \/ CloseBlock \/ FinishScan \/ FinishPlacement
  BY <1>3, NothingGiven DEF FinishCrossing, CloseBlock, FinishScan, FinishPlacement, EnterPhase, UnplacedPhases
<1>4. CASE PlaceLocal \/ PlaceAddresses \/ PlaceAliases \/ PlaceCrossing
  BY <1>4, PlaceLocalIInv, PlaceAddressesIInv, PlaceAliasesIInv, PlaceCrossingIInv
<1>5. CASE OpenBlock \/ Release \/ Grant
  BY <1>5, OpenBlockIInv, ReleaseIInv, GrantIInv
<1>6. CASE PlaceLocalField \/ PlaceTempField
  BY <1>6, PlaceLocalFieldIInv, PlaceTempFieldIInv
<1>. QED  BY <1>1, <1>2, <1>3, <1>4, <1>5, <1>6 DEF PlacementNext

(* The emitted code runs on a finished placement. *)
Emission ==
  \/ OpenFrame \/ SettleParameter \/ EnterBody
  \/ Pass \/ Compute \/ MoveValue \/ TakeAddress \/ LoadLocal \/ StoreLocal \/ Branch
  \/ BeginCall \/ NumberArgument \/ PlaceArgument \/ MakeCall \/ JumpToCallee
  \/ LeaveFunction

(* Emitting code moves nothing from its home. *)
LEMMA EmissionKeepsPlacement ==
  Emission => /\ UNCHANGED <<code, locals, temps, freeInt, calleeFree, calleeSaved>>
              /\ phase' \in {"settle", "run", "call", "jumped", "returned"}
<1>. SUFFICES ASSUME Emission
              PROVE  /\ UNCHANGED <<code, locals, temps, freeInt, calleeFree, calleeSaved>>
                     /\ phase' \in {"settle", "run", "call", "jumped", "returned"}
  OBVIOUS
<1>1. CASE OpenFrame \/ SettleParameter \/ EnterBody
  BY <1>1 DEF OpenFrame, SettleParameter, EnterBody, EnterPhase, placed
<1>2. CASE Pass \/ StoreLocal \/ Branch
  BY <1>2 DEF Pass, StoreLocal, Branch, Advance, EnterPhase, placed
<1>3. CASE Compute \/ MoveValue \/ TakeAddress \/ LoadLocal
  BY <1>3 DEF Compute, MoveValue, TakeAddress, LoadLocal, Defines, Advance, EnterPhase, placed
<1>4. CASE BeginCall \/ NumberArgument \/ PlaceArgument \/ MakeCall
  BY <1>4 DEF BeginCall, NumberArgument, PlaceArgument, MakeCall, Moving, Setting, Advance, EnterPhase, placed
<1>5. CASE JumpToCallee \/ LeaveFunction
  BY <1>5 DEF JumpToCallee, LeaveFunction, placed
<1>. QED  BY <1>1, <1>2, <1>3, <1>4, <1>5 DEF Emission

(* Every step keeps the invariant. *)
LEMMA NextIInv == IInv /\ [Next]_vars => IInv'
<1>. SUFFICES ASSUME IInv, [Next]_vars PROVE IInv'
  OBVIOUS
<1>1. CASE Place
  BY <1>1, PlacementIInv DEF Place
<1>2. CASE Emission
  BY <1>2, EmissionKeepsPlacement, NothingGiven DEF UnplacedPhases
<1>3. CASE UNCHANGED vars
  <2>1. UNCHANGED <<code, phase, locals, temps, freeInt, calleeFree, pools, held>>
    BY <1>3 DEF vars, placementVars, scanVars
  <2>2. ArgPool' = ArgPool /\ Givable' = Givable /\ \A p : Base(p)' = Base(p)
    BY <2>1, ArgPoolKept DEF Givable, Base
  <2>. QED  BY <2>1, <2>2 DEF IInv, FreeApart, LocalsApart, LocalsDisjoint, TempsGiven, PoolsFree, HeldFromPools, CellsOf
<1>. QED  BY <1>1, <1>2, <1>3 DEF Next, Emission

(* The inductive invariant. *)
THEOREM PlacementIInvHolds == Spec => []IInv
<1>1. Init => IInv
  BY InitIInv DEF Init
<1>2. IInv /\ [Next]_vars => IInv'
  BY NextIInv
<1>. QED  BY <1>1, <1>2, PTL DEF Spec

(* A local that has a register has it to itself for the whole function. *)
THEOREM PlacementKeepsLocals == Spec => []LocalsKeepTheirRegisters
<1>1. IInv => LocalsKeepTheirRegisters
  <2>. SUFFICES ASSUME IInv PROVE LocalsKeepTheirRegisters
    OBVIOUS
  <2>1. UNION {CellsOf(temps[t]) : t \in DOMAIN temps} \subseteq Givable
    BY DEF IInv, TempsGiven
  <2>. QED  BY <2>1 DEF IInv, LocalsApart, LocalsDisjoint, LocalsKeepTheirRegisters
<1>. QED  BY <1>1, PlacementIInvHolds, PTL

-----------------------------------------------------------------------------
(* The registers the prologue saves. *)

(* A step that gives `cells` out says so, if it has to, and no more. *)
NotesCells(cells) ==
  /\ calleeSaved \subseteq calleeSaved' /\ calleeSaved' \subseteq Noted(cells)
  /\ cells \cap CalleeSaved \subseteq calleeSaved'

LEMMA NotedNotes ==
  ASSUME NEW cells, calleeSaved' = Noted(cells)
  PROVE  NotesCells(cells)
<1>1. \A r \in CalleeSaved : r >= 8
  BY PoolsAssumption DEF PoolsAssumption, CalleeSaved
<1>. QED  BY <1>1 DEF Noted, NotesCells

(* What is no register a call keeps need not be noted. *)
LEMMA NothingToNote ==
  ASSUME NEW cells, cells \cap CalleeSaved = {}, calleeSaved' = calleeSaved
  PROVE  NotesCells(cells)
BY DEF Noted, NotesCells

(* A word of a function without calls is in a register no call keeps. *)
LEMMA LocalNotes ==
  ASSUME IInv, PlaceLocal, ~UNCHANGED <<locals, calleeSaved>>
  PROVE  \E l \in {LocalAt(cursor)} : \E r \in RegisterFor(l) :
           /\ Considered(l)
           /\ locals' = [locals EXCEPT ![l] = Placement("register", r, IsWideLocal(l))]
           /\ NotesCells(Cells(r, IsWideLocal(l)))
<1>1. PICK l \in {LocalAt(cursor)} : \E r \in RegisterFor(l) :
        /\ Considered(l)
        /\ locals' = [locals EXCEPT ![l] = Placement("register", r, IsWideLocal(l))]
        /\ calleeSaved' = IF IsWideLocal(l) \/ HasCalls THEN Noted(Cells(r, IsWideLocal(l))) ELSE calleeSaved
  BY DEF PlaceLocal
<1>2. PICK r \in RegisterFor(l) :
        /\ Considered(l)
        /\ locals' = [locals EXCEPT ![l] = Placement("register", r, IsWideLocal(l))]
        /\ calleeSaved' = IF IsWideLocal(l) \/ HasCalls THEN Noted(Cells(r, IsWideLocal(l))) ELSE calleeSaved
  BY <1>1
<1>3. CASE IsWideLocal(l) \/ HasCalls
  BY <1>2, <1>3, NotedNotes
<1>4. CASE ~(IsWideLocal(l) \/ HasCalls)
  <2>1. \E w, b : r \in TakeRegister(freeInt, w, b)
    BY <1>4 DEF RegisterFor
  <2>2. r \in freeInt
    BY <2>1, RegisterIsFree
  <2>3. Cells(r, IsWideLocal(l)) \cap CalleeSaved = {}
    BY <1>4, <2>2 DEF IInv, FreeApart, Cells
  <2>. QED  BY <1>2, <1>4, <2>3, NothingToNote
<1>. QED  BY <1>3, <1>4

(* Nor does a word of one block get one. *)
LEMMA GrantNotes ==
  ASSUME IInv, Grant, ~UNCHANGED <<temps, calleeSaved>>
  PROVE  \E t : \E o \in Offers(t) :
           /\ temps' = [temps EXCEPT ![t] = Placement("register", o[2], IsPair(t))]
           /\ NotesCells(Cells(o[2], IsPair(t)))
<1>1. PICK t : \E o \in Offers(t) :
        /\ temps' = [temps EXCEPT ![t] = Placement("register", o[2], IsPair(t))]
        /\ calleeSaved' = IF IsPair(t) THEN Noted(Cells(o[2], TRUE)) ELSE calleeSaved
  BY DEF Grant
<1>2. PICK o \in Offers(t) :
        /\ temps' = [temps EXCEPT ![t] = Placement("register", o[2], IsPair(t))]
        /\ calleeSaved' = IF IsPair(t) THEN Noted(Cells(o[2], TRUE)) ELSE calleeSaved
  BY <1>1
<1>3. CASE IsPair(t)
  <2>1. IsPair(t) = TRUE
    BY <1>3 DEF IsPair
  <2>. QED  BY <1>2, <2>1, NotedNotes
<1>4. CASE ~IsPair(t)
  <2>1. phase = "scan"
    BY DEF Grant, InScan
  <2>2. Cells(o[2], IsPair(t)) \subseteq Base(o[1]) /\ o[1] \in {"pool", "args"}
    BY <1>4, <2>1, OfferIsInPool DEF IInv, PoolsFree, PoolNames
  <2>3. Cells(o[2], IsPair(t)) \cap CalleeSaved = {}
    BY <2>2 DEF IInv, FreeApart, Base
  <2>. QED  BY <1>2, <1>4, <2>3, NothingToNote
<1>. QED  BY <1>3, <1>4

(* A value that crosses blocks may be in any. *)
LEMMA CrossingNotes ==
  ASSUME PlaceCrossing, ~UNCHANGED <<temps, calleeSaved>>
  PROVE  \E r \in CrossingRegister(cursor) :
           /\ temps' = [temps EXCEPT ![cursor] = Placement("register", r, IsPair(cursor))]
           /\ NotesCells(Cells(r, IsPair(cursor)))
<1>1. PICK r \in CrossingRegister(cursor) :
        /\ temps' = [temps EXCEPT ![cursor] = Placement("register", r, IsPair(cursor))]
        /\ calleeSaved' = Noted(Cells(r, IsPair(cursor)))
  BY DEF PlaceCrossing
<1>. QED  BY <1>1, NotedNotes

(* A step after which no local or temporary has a register it had not. *)
LEMMA NoneTaken ==
  ASSUME CalleeSavedNoted, calleeSaved \subseteq calleeSaved',
         DOMAIN locals' = DOMAIN locals, DOMAIN temps' = DOMAIN temps,
         \A l \in DOMAIN locals : CellsOf(locals'[l]) \cap CalleeSaved \subseteq CellsOf(locals[l]) \cup calleeSaved',
         \A t \in DOMAIN temps : CellsOf(temps'[t]) \cap CalleeSaved \subseteq CellsOf(temps[t]) \cup calleeSaved'
  PROVE  CalleeSavedNoted'
BY DEF CalleeSavedNoted, CellsOf

LEMMA PlacementNotes == IInv /\ CalleeSavedNoted /\ PlacementNext => CalleeSavedNoted'
<1>. SUFFICES ASSUME IInv, CalleeSavedNoted, PlacementNext PROVE CalleeSavedNoted'
  OBVIOUS
<1>1. CASE UNCHANGED <<locals, temps, calleeSaved>>
  BY <1>1 DEF CalleeSavedNoted, CellsOf
<1>2. CASE PlaceLocal
  <2>. SUFFICES ASSUME ~UNCHANGED <<locals, calleeSaved>> PROVE CalleeSavedNoted'
    BY <1>1, <1>2 DEF PlaceLocal
  <2>1. PICK l, r : /\ locals' = [locals EXCEPT ![l] = Placement("register", r, IsWideLocal(l))]
                    /\ NotesCells(Cells(r, IsWideLocal(l)))
    BY <1>2, LocalNotes
  <2>2. calleeSaved \subseteq calleeSaved' /\ Cells(r, IsWideLocal(l)) \cap CalleeSaved \subseteq calleeSaved'
    BY <2>1 DEF NotesCells
  <2>3. /\ DOMAIN locals' = DOMAIN locals
        /\ \A m \in DOMAIN locals : CellsOf(locals'[m]) = IF m = l THEN Cells(r, IsWideLocal(l)) ELSE CellsOf(locals[m])
    BY <2>1 DEF CellsOf, Placement
  <2>4. UNCHANGED temps
    BY <1>2 DEF PlaceLocal
  <2>. QED  BY <2>1, <2>2, <2>3, <2>4, NoneTaken
<1>3. CASE PlaceAddresses
  <2>1. /\ UNCHANGED <<locals, calleeSaved>>
        /\ temps' = [t \in DOMAIN temps |-> AddressPlacement(t)]
    BY <1>3 DEF PlaceAddresses
  <2>2. \A t : CellsOf(AddressPlacement(t)) \subseteq CellsOf(temps[t])
    BY DEF AddressPlacement, CellsOf, Placement
  <2>. QED  BY <2>1, <2>2, NoneTaken
<1>4. CASE PlaceAliases
  <2>1. /\ UNCHANGED <<locals, calleeSaved>>
        /\ temps' = [t \in DOMAIN temps |-> AliasPlacement(t)]
    BY <1>4 DEF PlaceAliases
  <2>2. \A t : CellsOf(AliasPlacement(t)) \subseteq CellsOf(temps[t])
    BY DEF AliasPlacement, CellsOf, Placement
  <2>. QED  BY <2>1, <2>2, NoneTaken
<1>5. CASE PlaceCrossing \/ Grant
  <2>1. UNCHANGED locals
    BY <1>5 DEF PlaceCrossing, Grant
  <2>. SUFFICES ASSUME ~UNCHANGED <<temps, calleeSaved>> PROVE CalleeSavedNoted'
    BY <1>1, <2>1
  <2>2. PICK t, r : /\ temps' = [temps EXCEPT ![t] = Placement("register", r, IsPair(t))]
                    /\ NotesCells(Cells(r, IsPair(t)))
    BY <1>5, CrossingNotes, GrantNotes
  <2>3. calleeSaved \subseteq calleeSaved' /\ Cells(r, IsPair(t)) \cap CalleeSaved \subseteq calleeSaved'
    BY <2>2 DEF NotesCells
  <2>4. /\ DOMAIN temps' = DOMAIN temps
        /\ \A u \in DOMAIN temps : CellsOf(temps'[u]) = IF u = t THEN Cells(r, IsPair(t)) ELSE CellsOf(temps[u])
    BY <2>2 DEF CellsOf, Placement
  <2>. QED  BY <2>1, <2>2, <2>3, <2>4, NoneTaken
<1>6. CASE PlaceLocalField
  <2>1. /\ UNCHANGED <<temps, calleeSaved>>
        /\ \/ UNCHANGED locals
           \/ locals' = [locals EXCEPT ![cursor] = Nowhere]
           \/ locals' = [locals EXCEPT ![cursor] = Placement("slot", Len(fields) + 1, IsWideLocal(cursor))]
    BY <1>6 DEF PlaceLocalField
  <2>2. /\ DOMAIN locals' = DOMAIN locals
        /\ \A l \in DOMAIN locals : CellsOf(locals'[l]) \subseteq CellsOf(locals[l])
    BY <2>1 DEF CellsOf, Placement, Nowhere
  <2>. QED  BY <2>1, <2>2, NoneTaken
<1>7. CASE PlaceTempField
  <2>1. /\ UNCHANGED <<locals, calleeSaved>>
        /\ \/ UNCHANGED temps
           \/ \E t : temps' = [temps EXCEPT ![t] = Nowhere]
           \/ \E t, n : temps' = [temps EXCEPT ![t] = Placement("slot", n, IsPair(t))]
    BY <1>7 DEF PlaceTempField
  <2>2. /\ DOMAIN temps' = DOMAIN temps
        /\ \A t \in DOMAIN temps : CellsOf(temps'[t]) \subseteq CellsOf(temps[t])
    BY <2>1 DEF CellsOf, Placement, Nowhere
  <2>. QED  BY <2>1, <2>2, NoneTaken
<1>8. CASE \/ NumberParameter \/ FinishArrival \/ UpdateLiveness \/ FinishCrossing \/ OpenBlock
           \/ Release \/ CloseBlock \/ FinishScan \/ FinishPlacement
  BY <1>1, <1>8 DEF NumberParameter, FinishArrival, UpdateLiveness, FinishCrossing, OpenBlock, Release,
                    CloseBlock, FinishScan, FinishPlacement
<1>. QED  BY <1>2, <1>3, <1>4, <1>5, <1>6, <1>7, <1>8 DEF PlacementNext

(* Every callee-saved register given to a local or a temporary is saved by  *)
(* the prologue.                                                           *)
THEOREM PlacementNotesCalleeSaved == Spec => []CalleeSavedNoted
<1>1. Init => CalleeSavedNoted
  BY DEF Init, PlacementInit, CalleeSavedNoted, CellsOf, Unplaced, Placement
<1>2. IInv /\ CalleeSavedNoted /\ [Next]_vars => CalleeSavedNoted'
  <2>. SUFFICES ASSUME IInv, CalleeSavedNoted, [Next]_vars PROVE CalleeSavedNoted'
    OBVIOUS
  <2>1. CASE UNCHANGED <<locals, temps, calleeSaved>>
    BY <2>1 DEF CalleeSavedNoted, CellsOf
  <2>2. CASE Place
    BY <2>2, PlacementNotes DEF Place
  <2>3. CASE Emission
    BY <2>1, <2>3, EmissionKeepsPlacement
  <2>4. CASE UNCHANGED vars
    BY <2>1, <2>4 DEF vars, placementVars
  <2>. QED  BY <2>2, <2>3, <2>4 DEF Next, Emission
<1>. QED  BY <1>1, <1>2, PlacementIInvHolds, PTL DEF Spec

-----------------------------------------------------------------------------
(* Homes: what the placement of every local and temporary amounts to.       *)

Slots == INSTANCE ArgSlotsProofs
           WITH ArgLists <- Seq([bank : {"int", "float"}, wide : BOOLEAN]), args <- numbered, result <- numbering

(* The registers a home is made of, under whichever name, and whether the   *)
(* prologue saves those that have to be.                                   *)
HomeCells(p) == IF p.kind \in {"register", "alias"} THEN Cells(p.index, p.pair) ELSE {}
Saves(p)     == HomeCells(p) \cap CalleeSaved \subseteq calleeSaved

(* A local fits its home; one in a register never escapes. *)
LocalHome(l) ==
  /\ locals[l].kind # "alias"
  /\ locals[l].kind = "register" => /\ locals[l].index \in Nat /\ locals[l].pair = IsWideLocal(l)
                                    /\ ~Escapes(l)
  /\ Saves(locals[l])

(* A temporary fits its home; a virtual one is a register's address. *)
TempHome(t) ==
  /\ temps[t].kind \in {"register", "alias"} => temps[t].index \in Nat /\ (IsPair(t) => temps[t].pair)
  /\ temps[t].kind = "virtual" => \E l \in LocalSlots(code) : InRegister(l) /\ IsAddressOf(t, l)
  /\ Saves(temps[t])

(* Every home fits, and the prologue saves its registers. *)
HomesInv ==
  /\ WellFormed(code)
  /\ DOMAIN locals = LocalSlots(code) /\ DOMAIN temps = Temps(code)
  /\ calleeSaved \subseteq {r \in Nat : r >= 8} /\ freeInt \cup calleeFree \subseteq Nat
  /\ \A l \in DOMAIN locals : LocalHome(l)
  /\ \A t \in DOMAIN temps : TempHome(t)

(* Every instruction has the operands of its operation. *)
LEMMA OperandFacts ==
  ASSUME HomesInv, NEW i \in Instrs(code)
  PROVE  /\ Operands(i) \subseteq Temps(code)
         /\ \A n \in DOMAIN i.use : i.use[n] \in Temps(code) /\ i.use[n] \in Operands(i)
         /\ i.op \in {"binop", "cmp", "condjump", "store"} => DOMAIN i.use = {1, 2}
         /\ i.op \in {"copy", "widen", "truncate", "load", "param", "tablejump"} => DOMAIN i.use = {1}
         /\ i.op \in {"const", "frameaddr", "call", "jump"} => DOMAIN i.use = {}
         /\ i.op = "return" => DOMAIN i.use \subseteq {1} /\ (i.use # << >> => DOMAIN i.use = {1})
<1>1. i.use \in [OperandPlaces(i.op) -> Temps(code)] \/ (i.op = "return" /\ i.use = << >>)
  BY DEF HomesInv, WellFormed, IsSound
<1>2. NoTemp \notin Temps(code)
  BY DEF HomesInv, WellFormed, Temps, NoTemp
<1>3. i.use = << >> => DOMAIN i.use = {}
  OBVIOUS
<1>4. \A n \in DOMAIN i.use : i.use[n] \in Temps(code) /\ i.use[n] \in Operands(i)
  BY <1>1, <1>2, <1>3 DEF Operands
<1>5. DOMAIN i.use = OperandPlaces(i.op) \/ (i.op = "return" /\ i.use = << >> /\ DOMAIN i.use = {})
  BY <1>1, <1>3
<1>. QED  BY <1>4, <1>5 DEF Operands, OperandPlaces

-----------------------------------------------------------------------------
(* What is read off the code stays what it is. *)

LEMMA EscapesKept ==
  ASSUME code' = code, NEW l
  PROVE  Escapes(l)' = Escapes(l)
BY DEF Escapes, AddressesOf, Some, Points, PointsOf, InstrAt, Blocks, IsWideLocal, DefCount

LEMMA CodeKept ==
  ASSUME code' = code, NEW x
  PROVE  /\ IsPair(x)' = IsPair(x) /\ IsWideLocal(x)' = IsWideLocal(x)
         /\ LocalSlots(code)' = LocalSlots(code) /\ Temps(code)' = Temps(code)
         /\ \A l : IsAddressOf(x, l)' = IsAddressOf(x, l)
         /\ WellFormed(code)' = WellFormed(code)
<1>1. IsPair(x)' = IsPair(x) /\ IsWideLocal(x)' = IsWideLocal(x) /\ \A l : IsAddressOf(x, l)' = IsAddressOf(x, l)
  BY DEF IsPair, IsAddressOf, Some, InstrAt, Blocks, IsWideLocal
<1>. QED  BY <1>1

(* A step after which every local that had a register still has it, and the *)
(* homes that are new are fit.                                             *)
LEMMA HomesStep ==
  ASSUME HomesInv, code' = code, calleeSaved \subseteq calleeSaved', calleeSaved' \subseteq {r \in Nat : r >= 8},
         freeInt' \subseteq freeInt, calleeFree' \subseteq calleeFree,
         DOMAIN locals' = DOMAIN locals, DOMAIN temps' = DOMAIN temps,
         \A l \in DOMAIN locals : \/ locals'[l] = locals[l]
                                  \/ (locals[l].kind = "register" => locals'[l].kind = "register") /\ LocalHome(l)',
         \A t \in DOMAIN temps : temps'[t] = temps[t] \/ TempHome(t)'
  PROVE  HomesInv'
<1>1. \A x : /\ IsPair(x)' = IsPair(x) /\ IsWideLocal(x)' = IsWideLocal(x) /\ Escapes(x)' = Escapes(x)
             /\ \A l : IsAddressOf(x, l)' = IsAddressOf(x, l)
  BY CodeKept, EscapesKept
<1>2. /\ WellFormed(code') /\ LocalSlots(code') = LocalSlots(code) /\ Temps(code') = Temps(code)
  BY DEF HomesInv
<1>3. \A l \in DOMAIN locals' : LocalHome(l)'
  <2>. SUFFICES ASSUME NEW l \in DOMAIN locals, locals'[l] = locals[l] PROVE LocalHome(l)'
    OBVIOUS
  <2>1. LocalHome(l)
    BY DEF HomesInv
  <2>. QED  BY <1>1, <2>1 DEF LocalHome, Saves
<1>4. \A l : InRegister(l) /\ l \in DOMAIN locals => InRegister(l)'
  BY DEF InRegister
<1>5. \A t \in DOMAIN temps' : TempHome(t)'
  <2>. SUFFICES ASSUME NEW t \in DOMAIN temps, temps'[t] = temps[t] PROVE TempHome(t)'
    OBVIOUS
  <2>1. TempHome(t) /\ DOMAIN locals = LocalSlots(code)
    BY DEF HomesInv
  <2>. QED  BY <1>1, <1>2, <1>4, <2>1 DEF TempHome, Saves
<1>6. freeInt' \cup calleeFree' \subseteq Nat
  BY DEF HomesInv
<1>. QED  BY <1>2, <1>3, <1>5, <1>6 DEF HomesInv

LEMMA InitHomes == PlacementInit => HomesInv
<1>. SUFFICES ASSUME PlacementInit PROVE HomesInv
  OBVIOUS
<1>1. WellFormed(code)
  BY CodeAssumption DEF PlacementInit
<1>2. /\ locals = [l \in LocalSlots(code) |-> Unplaced] /\ temps = [t \in Temps(code) |-> Unplaced]
      /\ calleeSaved = {}
  BY DEF PlacementInit
<1>3. \A l \in DOMAIN locals : LocalHome(l)
  BY <1>2 DEF LocalHome, Saves, HomeCells, Unplaced, Placement
<1>4. \A t \in DOMAIN temps : TempHome(t)
  BY <1>2 DEF TempHome, Saves, HomeCells, Unplaced, Placement
<1>5. freeInt \cup calleeFree \subseteq Nat
  <2>1. ToSet(CallerSavedPool) \subseteq Nat /\ CalleeSaved \subseteq Nat
    BY PoolsAssumption DEF PoolsAssumption, CalleeSaved, ToSet
  <2>2. ToSet(ArgRegisters) \subseteq Nat
    BY PoolsAssumption DEF PoolsAssumption, ArgRegisters, ToSet
  <2>. QED  BY <2>1, <2>2 DEF PlacementInit
<1>. QED  BY <1>1, <1>2, <1>3, <1>4, <1>5 DEF HomesInv

(* Only registers from r8 up are noted. *)
LEMMA NotesHigh ==
  ASSUME HomesInv, NEW cells \in SUBSET Nat, NotesCells(cells)
  PROVE  calleeSaved \subseteq calleeSaved' /\ calleeSaved' \subseteq {r \in Nat : r >= 8}
BY DEF HomesInv, NotesCells, Noted

LEMMA PlaceLocalHomes ==
  ASSUME IInv, HomesInv, PlaceLocal
  PROVE  HomesInv'
<1>. USE DEF PlaceLocal
<1>1. freeInt' \subseteq freeInt /\ calleeFree' \subseteq calleeFree
  OBVIOUS
<1>2. CASE UNCHANGED <<locals, calleeSaved>>
  BY <1>2, <1>1, HomesStep DEF HomesInv
<1>3. CASE ~UNCHANGED <<locals, calleeSaved>>
  <2>1. PICK l \in {LocalAt(cursor)} : \E r \in RegisterFor(l) : /\ Considered(l)
          /\ locals' = [locals EXCEPT ![l] = Placement("register", r, IsWideLocal(l))]
          /\ NotesCells(Cells(r, IsWideLocal(l)))
    BY <1>3, LocalNotes
  <2>2. PICK r \in RegisterFor(l) :
          /\ locals' = [locals EXCEPT ![l] = Placement("register", r, IsWideLocal(l))]
          /\ NotesCells(Cells(r, IsWideLocal(l)))
    BY <2>1
  <2>3. ~Escapes(l) /\ r \in Nat /\ Cells(r, IsWideLocal(l)) \subseteq Nat
    <3>1. ~Escapes(l)
      BY <2>1 DEF Considered, Eligible
    <3>2. Cells(r, IsWideLocal(l)) \subseteq Nat
      BY LocalTakesFree DEF HomesInv
    <3>. QED  BY <3>1, <3>2 DEF Cells
  <2>4. Escapes(l)' = Escapes(l) /\ IsWideLocal(l)' = IsWideLocal(l)
    BY EscapesKept, CodeKept
  <2>5. l \in DOMAIN locals => LocalHome(l)'
    BY <2>2, <2>3, <2>4 DEF LocalHome, Saves, HomeCells, Placement, NotesCells
  <2>6. \A m \in DOMAIN locals : m = l \/ locals'[m] = locals[m]
    BY <2>2
  <2>7. DOMAIN locals' = DOMAIN locals /\ (l \in DOMAIN locals => locals'[l].kind = "register")
    BY <2>2 DEF Placement
  <2>8. calleeSaved \subseteq calleeSaved' /\ calleeSaved' \subseteq {q \in Nat : q >= 8}
    BY <2>2, <2>3, NotesHigh
  <2>. QED  BY <2>5, <2>6, <2>7, <2>8, <1>1, HomesStep
<1>. QED  BY <1>2, <1>3

(* The address of a local that has a register is no longer a value. *)
LEMMA PlaceAddressesHomes ==
  ASSUME HomesInv, PlaceAddresses
  PROVE  HomesInv'
<1>1. /\ code' = code /\ locals' = locals /\ calleeSaved' = calleeSaved
      /\ temps' = [t \in DOMAIN temps |-> AddressPlacement(t)]
      /\ UNCHANGED <<freeInt, calleeFree>>
  BY DEF PlaceAddresses
<1>2. ASSUME NEW t \in DOMAIN temps, temps'[t] # temps[t]
      PROVE  TempHome(t)'
  <2>. PICK l : l = FrameAddrLocal(t)
    OBVIOUS
  <2>1. InRegister(l) /\ temps'[t] = Placement("virtual", l, FALSE)
    BY <1>1, <1>2 DEF AddressPlacement
  <2>2. \E k \in LocalSlots(code) : IsAddressOf(t, k)
    <3>0. PICK b \in Blocks(code) : \E k \in DOMAIN code.blocks[b] : InstrAt(b, k).op = "frameaddr" /\ InstrAt(b, k).res = t
      BY <2>1 DEF FrameAddrLocal, InRegister, Some
    <3>1. PICK k \in DOMAIN code.blocks[b] : InstrAt(b, k).op = "frameaddr" /\ InstrAt(b, k).res = t
      BY <3>0
    <3>2. InstrAt(b, k) \in Instrs(code)
      BY DEF Instrs, InstrAt
    <3>3. InstrAt(b, k).num \in LocalSlots(code)
      BY <3>1, <3>2 DEF HomesInv, WellFormed, IsSound
    <3>4. IsAddressOf(t, InstrAt(b, k).num)
      BY <3>1 DEF IsAddressOf, Some
    <3>. QED  BY <3>3, <3>4
  <2>3. l \in LocalSlots(code) /\ IsAddressOf(t, l)
    BY <2>1, <2>2 DEF FrameAddrLocal, InRegister
  <2>4. IsAddressOf(t, l)' /\ InRegister(l)' /\ l \in LocalSlots(code)'
    BY <1>1, <2>1, <2>3, CodeKept DEF InRegister
  <2>5. temps'[t].kind = "virtual"
    BY <2>1 DEF Placement
  <2>. QED  BY <2>4, <2>5 DEF TempHome, Saves, HomeCells
<1>. QED  BY <1>1, <1>2, HomesStep DEF HomesInv

(* A load of a local that has a register moves all of it or none: were it   *)
(* of another width the local would be in memory.                          *)
LEMMA AliasIsWhole ==
  ASSUME HomesInv, NEW t, NEW l \in AliasedLocal(t)
  PROVE  locals[l].kind = "register" /\ (IsPair(t) /\ t # NoTemp => locals[l].pair)
<1>1. l \in LocalSlots(code) /\ InRegister(l) /\ IsLoadOf(t, l)
  BY DEF AliasedLocal
<1>2. LocalHome(l) /\ locals[l].kind = "register"
  BY <1>1 DEF HomesInv, InRegister
<1>3. locals[l].pair = IsWideLocal(l) /\ ~Escapes(l)
  BY <1>2 DEF LocalHome
<1>. DEFINE Loads(i) == i.op = "load" /\ i.res = t /\ i.use[1] \in AddressesOf(l)
<1>4. PICK b \in Blocks(code) : \E k \in DOMAIN code.blocks[b] : Loads(InstrAt(b, k))
  BY <1>1 DEF IsLoadOf, Some
<1>5. PICK k \in DOMAIN code.blocks[b] : Loads(InstrAt(b, k))
  BY <1>4
<1>6. InstrAt(b, k).wide = IsWideLocal(l)
  <2>1. InstrAt(b, k) \in Instrs(code)
    BY DEF Instrs, InstrAt
  <2>2. 1 \in DOMAIN InstrAt(b, k).use
    BY <1>5, <2>1, OperandFacts
  <2>. QED  BY <1>3, <1>5, <2>2 DEF Escapes, Some
<1>7. ASSUME IsPair(t), t # NoTemp PROVE InstrAt(b, k).wide
  <2>0. PICK c \in Blocks(code) : \E m \in DOMAIN code.blocks[c] : InstrAt(c, m).res = t /\ DefinesPair(InstrAt(c, m))
    BY <1>7 DEF IsPair, Some
  <2>1. PICK m \in DOMAIN code.blocks[c] : InstrAt(c, m).res = t /\ DefinesPair(InstrAt(c, m))
    BY <2>0
  <2>2. InstrAt(c, m) \in Instrs(code) /\ InstrAt(b, k) \in Instrs(code)
    BY DEF Instrs, InstrAt
  <2>3. DefinesPair(InstrAt(b, k))
    BY <1>5, <1>7, <2>1, <2>2 DEF HomesInv, WellFormed, IsSound
  <2>. QED  BY <2>3 DEF DefinesPair
<1>. QED  BY <1>2, <1>3, <1>6, <1>7

LEMMA TempsAreNumbered ==
  ASSUME HomesInv
  PROVE  NoTemp \notin DOMAIN temps
BY DEF HomesInv, WellFormed, Temps, NoTemp

LEMMA PlaceAliasesHomes ==
  ASSUME HomesInv, PlaceAliases
  PROVE  HomesInv'
<1>1. /\ code' = code /\ locals' = locals /\ calleeSaved' = calleeSaved
      /\ temps' = [t \in DOMAIN temps |-> AliasPlacement(t)]
      /\ UNCHANGED <<freeInt, calleeFree>>
  BY DEF PlaceAliases
<1>2. ASSUME NEW t \in DOMAIN temps, temps'[t] # temps[t]
      PROVE  TempHome(t)'
  <2>1. PICK l \in AliasedLocal(t) : temps'[t] = Placement("alias", locals[l].index, locals[l].pair)
    BY <1>1, <1>2 DEF AliasPlacement
  <2>2. locals[l].kind = "register" /\ (IsPair(t) => locals[l].pair)
    BY <2>1, AliasIsWhole, TempsAreNumbered
  <2>3. l \in DOMAIN locals /\ LocalHome(l)
    BY DEF AliasedLocal, HomesInv
  <2>4. HomeCells(temps'[t]) = HomeCells(locals[l]) /\ temps'[t].kind = "alias"
       /\ temps'[t].pair = locals[l].pair /\ temps'[t].index = locals[l].index
    BY <2>1, <2>2 DEF HomeCells, Placement
  <2>5. IsPair(t)' = IsPair(t)
    BY <1>1, CodeKept
  <2>. QED  BY <1>1, <2>2, <2>3, <2>4, <2>5 DEF TempHome, LocalHome, Saves, HomeCells
<1>. QED  BY <1>1, <1>2, HomesStep DEF HomesInv

(* A temporary that is given a register is given all of it. *)
LEMMA PlaceTempHomes ==
  ASSUME IInv, HomesInv, PlaceCrossing \/ Grant
  PROVE  HomesInv'
<1>1. code' = code /\ locals' = locals /\ UNCHANGED <<freeInt, calleeFree>>
  BY DEF PlaceCrossing, Grant
<1>2. CASE UNCHANGED <<temps, calleeSaved>>
  BY <1>1, <1>2, HomesStep DEF HomesInv
<1>3. CASE \E t : \E r \in Nat :
                     /\ temps' = [temps EXCEPT ![t] = Placement("register", r, IsPair(t))]
                     /\ NotesCells(Cells(r, IsPair(t)))
  <2>1. PICK t : \E r \in Nat : /\ temps' = [temps EXCEPT ![t] = Placement("register", r, IsPair(t))]
                                 /\ NotesCells(Cells(r, IsPair(t)))
    BY <1>3
  <2>0. PICK r \in Nat : /\ temps' = [temps EXCEPT ![t] = Placement("register", r, IsPair(t))]
                         /\ NotesCells(Cells(r, IsPair(t)))
    BY <2>1
  <2>2. DOMAIN temps' = DOMAIN temps /\ \A u \in DOMAIN temps : u = t \/ temps'[u] = temps[u]
    BY <2>0
  <2>3. calleeSaved \subseteq calleeSaved' /\ calleeSaved' \subseteq {q \in Nat : q >= 8}
    <3>1. Cells(r, IsPair(t)) \in SUBSET Nat
      BY DEF Cells
    <3>. QED  BY <2>0, <3>1, NotesHigh
  <2>4. ASSUME t \in DOMAIN temps PROVE TempHome(t)'
    <3>1. temps'[t] = Placement("register", r, IsPair(t)) /\ IsPair(t)' = IsPair(t)
      BY <1>1, <2>0, <2>4, CodeKept
    <3>2. HomeCells(temps'[t]) = Cells(r, IsPair(t)) /\ temps'[t].kind = "register" /\ temps'[t].pair = IsPair(t) /\ temps'[t].index = r
      BY <3>1 DEF HomeCells, Placement
    <3>. QED  BY <2>0, <3>1, <3>2 DEF TempHome, Saves, NotesCells
  <2>. QED  BY <1>1, <2>2, <2>3, <2>4, HomesStep
<1>4. CASE PlaceCrossing /\ ~UNCHANGED <<temps, calleeSaved>>
  <2>1. PICK r \in CrossingRegister(cursor) :
          /\ temps' = [temps EXCEPT ![cursor] = Placement("register", r, IsPair(cursor))]
          /\ NotesCells(Cells(r, IsPair(cursor)))
    BY <1>4, CrossingNotes
  <2>2. Cells(r, IsPair(cursor)) \subseteq Nat
    BY CrossingTakesFree DEF HomesInv
  <2>3. r \in Nat
    BY <2>2 DEF Cells
  <2>. QED  BY <1>3, <2>1, <2>3
<1>5. CASE Grant /\ ~UNCHANGED <<temps, calleeSaved>>
  <2>0. PICK t : \E o \in Offers(t) : /\ temps' = [temps EXCEPT ![t] = Placement("register", o[2], IsPair(t))]
                                       /\ NotesCells(Cells(o[2], IsPair(t)))
    BY <1>5, GrantNotes
  <2>1. PICK o \in Offers(t) : /\ temps' = [temps EXCEPT ![t] = Placement("register", o[2], IsPair(t))]
                               /\ NotesCells(Cells(o[2], IsPair(t)))
    BY <2>0
  <2>2. o[1] \in PoolNames /\ Cells(o[2], IsPair(t)) \subseteq DOMAIN pools[o[1]]
    BY OfferIsInPool
  <2>3. phase = "scan"
    BY <1>5 DEF Grant, InScan
  <2>4. DOMAIN pools[o[1]] \subseteq Base(o[1])
    BY <2>2, <2>3 DEF IInv, PoolsFree
  <2>5. ArgPool \subseteq Nat
    BY PoolsAssumption DEF PoolsAssumption, ArgRegisters, ToSet, ArgPool
  <2>6. Base(o[1]) \subseteq Nat
    BY <2>5 DEF Base, HomesInv
  <2>7. o[2] \in Nat
    BY <2>2, <2>4, <2>6 DEF Cells
  <2>. QED  BY <1>3, <2>1, <2>7
<1>. QED  BY <1>2, <1>4, <1>5

LEMMA PlaceFieldHomes ==
  ASSUME HomesInv, PlaceLocalField \/ PlaceTempField
  PROVE  HomesInv'
<1>1. UNCHANGED <<code, calleeSaved, freeInt, calleeFree>>
  BY DEF PlaceLocalField, PlaceTempField
<1>2. CASE PlaceLocalField
  <2>1. UNCHANGED temps /\ (UNCHANGED locals \/ locals[cursor].kind # "register")
    BY <1>2 DEF PlaceLocalField
  <2>2. \/ UNCHANGED locals
        \/ locals' = [locals EXCEPT ![cursor] = Nowhere]
        \/ locals' = [locals EXCEPT ![cursor] = Placement("slot", Len(fields) + 1, IsWideLocal(cursor))]
    BY <1>2 DEF PlaceLocalField
  <2>3. /\ DOMAIN locals' = DOMAIN locals
        /\ \A l \in DOMAIN locals : \/ locals'[l] = locals[l]
                                    \/ locals[l].kind # "register" /\ locals'[l].kind \in {"none", "slot"}
    BY <2>1, <2>2 DEF Nowhere, Placement
  <2>4. \A l \in DOMAIN locals : locals'[l].kind \in {"none", "slot"} => LocalHome(l)'
    BY DEF LocalHome, Saves, HomeCells
  <2>. QED  BY <1>1, <2>1, <2>3, <2>4, HomesStep DEF HomesInv
<1>3. CASE PlaceTempField
  <2>1. /\ UNCHANGED locals
        /\ \/ UNCHANGED temps
           \/ \E t : temps' = [temps EXCEPT ![t] = Nowhere]
           \/ \E t, n : temps' = [temps EXCEPT ![t] = Placement("slot", n, IsPair(t))]
    BY <1>3 DEF PlaceTempField
  <2>2. /\ DOMAIN temps' = DOMAIN temps
        /\ \A t \in DOMAIN temps : temps'[t] = temps[t] \/ temps'[t].kind \in {"none", "slot"}
    BY <2>1 DEF Nowhere, Placement
  <2>3. \A t \in DOMAIN temps : temps'[t].kind \in {"none", "slot"} => TempHome(t)'
    BY DEF TempHome, Saves, HomeCells
  <2>. QED  BY <1>1, <2>1, <2>2, <2>3, HomesStep DEF HomesInv
<1>. QED  BY <1>2, <1>3

LEMMA HomesUntouched ==
  ASSUME HomesInv, UNCHANGED <<code, locals, temps, calleeSaved, freeInt, calleeFree>>
  PROVE  HomesInv'
BY HomesStep DEF HomesInv

(* Every step keeps the homes fitting. *)
LEMMA NextHomes == IInv /\ HomesInv /\ [Next]_vars => HomesInv'
<1>. SUFFICES ASSUME IInv, HomesInv, [Next]_vars PROVE HomesInv'
  OBVIOUS
<1>1. CASE Place
  <2>1. CASE \/ NumberParameter \/ FinishArrival \/ UpdateLiveness \/ FinishCrossing \/ OpenBlock
             \/ Release \/ CloseBlock \/ FinishScan \/ FinishPlacement
    BY <2>1, HomesUntouched DEF NumberParameter, FinishArrival, UpdateLiveness, FinishCrossing, OpenBlock,
                                Release, CloseBlock, FinishScan, FinishPlacement
  <2>2. CASE \/ PlaceLocal \/ PlaceAddresses \/ PlaceAliases \/ PlaceCrossing \/ Grant
             \/ PlaceLocalField \/ PlaceTempField
    BY <2>2, PlaceLocalHomes, PlaceAddressesHomes, PlaceAliasesHomes, PlaceTempHomes, PlaceFieldHomes
  <2>. QED  BY <1>1, <2>1, <2>2 DEF Place, PlacementNext
<1>2. CASE Emission
  BY <1>2, EmissionKeepsPlacement, HomesUntouched
<1>3. CASE UNCHANGED vars
  BY <1>3, HomesUntouched DEF vars, placementVars
<1>. QED  BY <1>1, <1>2, <1>3 DEF Next, Emission

-----------------------------------------------------------------------------
(* The numbering of arguments, as in ArgSlots.                             *)

SlotArg == [bank : {"int", "float"}, wide : BOOLEAN]

LEMMA SlotsAssumption == Slots!ArgSlotsAssumption
BY PoolsAssumption DEF PoolsAssumption, Slots!ArgSlotsAssumption, Slots!Arg, Slots!Bank

LEMMA SlotsInit == Slots!Init' => Slots!IInv'
<1>1. Slots!Init => Slots!IInv
  BY SlotsAssumption, Slots!InitIInv
<1>. QED  BY <1>1, PTL

(* The numbering starts with nothing numbered ... *)
LEMMA SlotsStart ==
  ASSUME numbered' \in Seq(SlotArg), fixedArgCount' = Len(numbered'),
         used' = [k \in Numbering!Kind |-> 0], numbering' = << >>
  PROVE  Slots!IInv'
<1>1. Slots!Init'
  <2>1. Len(numbered') \in Nat
    OBVIOUS
  <2>2. fixedArgCount' \in 0..Len(numbered')
    BY <2>1
  <2>. QED  BY <2>2 DEF SlotArg, Slots!Init, Slots!Kind, Slots!Bank, Numbering!Kind, Numbering!Bank
<1>. QED  BY <1>1, SlotsInit

(* ... and goes on argument by argument. *)
LEMMA SlotsGoOn ==
  ASSUME Slots!IInv, Numbering!AssignOne
  PROVE  Slots!IInv'
<1>1. Slots!AssignOne
  BY DEF Numbering!AssignOne, Numbering!AssignTail, Numbering!AssignRegister, Numbering!AssignStack,
         Numbering!i, Numbering!Emit, Numbering!FitsRegisters, Numbering!StartRegister, Numbering!Width,
         Slots!AssignOne, Slots!AssignTail, Slots!AssignRegister, Slots!AssignStack,
         Slots!i, Slots!Emit, Slots!FitsRegisters, Slots!StartRegister, Slots!Width
<1>2. PICK slot \in Slots!ArgSlot : Slots!Places(slot)
  BY <1>1, SlotsAssumption, Slots!AssignOnePlaces
<1>. QED  BY <1>2, SlotsAssumption, Slots!PlacesKeepsIInv

LEMMA SlotsStay ==
  ASSUME Slots!IInv, UNCHANGED numberingVars
  PROVE  Slots!IInv'
<1>1. UNCHANGED Slots!vars
  BY DEF numberingVars, Slots!vars
<1>. QED  BY <1>1, SlotsAssumption, Slots!StutterKeepsIInv

(* An argument takes one outgoing word or two. *)
OutgoingBound == used["stack"] <= 2 * Len(numbering)

LEMMA OutgoingGoesOn ==
  ASSUME Slots!IInv, OutgoingBound, Numbering!AssignOne
  PROVE  OutgoingBound'
<1>1. /\ Len(numbering) \in Nat /\ used \in [Slots!Kind -> Nat] /\ numbering \in Seq(Slots!ArgSlot)
  BY DEF Slots!IInv, Slots!TypeOK
<1>2. \A s : Len(Append(numbering, s)) = Len(numbering) + 1
  BY <1>1
<1>3. \A w : Numbering!Width(w) \in {1, 2}
  BY DEF Numbering!Width
<1>4. "stack" \in Slots!Kind /\ used["stack"] \in Nat
  BY <1>1 DEF Slots!Kind, Slots!Bank
<1>5. CASE Numbering!AssignTail \/ Numbering!AssignStack
  <2>. DEFINE a == numbered[Numbering!i]
  <2>0. a.bank # "stack"
    <3>1. Numbering!i \in DOMAIN numbered /\ numbered \in Seq(Slots!Arg)
      BY <1>5 DEF Numbering!AssignTail, Numbering!AssignStack, Slots!IInv, Slots!TypeOK
    <3>2. a \in Slots!Arg
      BY <3>1
    <3>. QED  BY <3>2 DEF Slots!Arg, Slots!Bank
  <2>1. used'["stack"] = used["stack"] + Numbering!Width(a.wide)
    BY <1>1, <1>4, <1>5, <2>0 DEF Numbering!AssignTail, Numbering!AssignStack
  <2>2. Len(numbering') = Len(numbering) + 1
    BY <1>2, <1>5 DEF Numbering!AssignTail, Numbering!AssignStack, Numbering!Emit
  <2>3. Numbering!Width(a.wide) \in {1, 2}
    BY <1>3
  <2>. HIDE DEF a
  <2>. QED  BY <1>1, <1>4, <2>1, <2>2, <2>3 DEF OutgoingBound
<1>6. CASE Numbering!AssignRegister
  <2>1. Numbering!i \in DOMAIN numbered /\ numbered \in Seq(Slots!Arg)
    BY <1>6 DEF Numbering!AssignRegister, Slots!IInv, Slots!TypeOK
  <2>2. numbered[Numbering!i].bank # "stack"
    <3>1. numbered[Numbering!i] \in Slots!Arg
      BY <2>1
    <3>. QED  BY <3>1 DEF Slots!Arg, Slots!Bank
  <2>3. used'["stack"] = used["stack"]
    BY <1>1, <1>4, <1>6, <2>2 DEF Numbering!AssignRegister
  <2>4. Len(numbering') = Len(numbering) + 1
    BY <1>2, <1>6 DEF Numbering!AssignRegister, Numbering!Emit
  <2>. QED  BY <1>1, <1>4, <2>3, <2>4 DEF OutgoingBound
<1>. QED  BY <1>5, <1>6 DEF Numbering!AssignOne

-----------------------------------------------------------------------------
(* Where the emitted code is.                                              *)

(* There is an instruction there. *)
IsPoint(b, k) == b \in Blocks(code) /\ k \in DOMAIN code.blocks[b]

(* Where the emitted code is: at an instruction of the function. *)
CursorInv ==
  /\ phase = "settle" => cursor \in Nat \ {0}
  /\ phase = "run" => \E b, k : cursor = <<b, k>> /\ IsPoint(b, k)
  /\ phase = "call" => \E b, k, n : /\ cursor = <<b, k, n>> /\ IsPoint(b, k) /\ InstrAt(b, k).op = "call"
                                    /\ n \in 0..InstrAt(b, k).num /\ (n > 0 => Numbering!Done)
                                    /\ numbered = ArgumentList(b, k)

(* The numbering at hand is an execution of ArgSlots. *)
NumberedInv ==
  /\ phase = "arrival" => numbered = ParamList(code) /\ Slots!IInv
  /\ phase # "arrival" => \A p \in 1..code.params : arrival[p].wide = IsWideLocal(p)
  /\ phase = "call" => Slots!IInv /\ OutgoingBound

LEMMA PointFacts ==
  ASSUME HomesInv, NEW b, NEW k, IsPoint(b, k)
  PROVE  /\ InstrAt(b, k) \in Instrs(code) /\ IsSound(code, InstrAt(b, k))
         /\ k \in Nat /\ k >= 1 /\ k <= Len(code.blocks[b]) /\ Len(code.blocks[b]) \in Nat
         /\ DOMAIN code.blocks[b] = 1..Len(code.blocks[b])
         /\ InstrAt(b, k).op \in Terminators <=> k = Len(code.blocks[b])
<1>1. InstrAt(b, k) \in Instrs(code)
  BY DEF IsPoint, Instrs, InstrAt
<1>2. EndsOnce(code, b)
  BY DEF IsPoint, HomesInv, WellFormed
<1>3. /\ code.blocks[b] \in Seq(Instrs(code))
      /\ \A m \in DOMAIN code.blocks[b] : code.blocks[b][m].op \in Terminators <=> m = Len(code.blocks[b])
  BY <1>2 DEF EndsOnce
<1>4. DOMAIN code.blocks[b] = 1..Len(code.blocks[b]) /\ Len(code.blocks[b]) \in Nat
  BY <1>3
<1>5. IsSound(code, InstrAt(b, k))
  BY <1>1 DEF HomesInv, WellFormed
<1>. QED  BY <1>1, <1>3, <1>4, <1>5 DEF IsPoint, InstrAt

(* Nothing ends a block but its last instruction. *)
LEMMA NextPoint ==
  ASSUME HomesInv, NEW b, NEW k, IsPoint(b, k), InstrAt(b, k).op \notin Terminators
  PROVE  IsPoint(b, k + 1)
<1>1. k \in Nat /\ k < Len(code.blocks[b]) /\ Len(code.blocks[b]) \in Nat /\ DOMAIN code.blocks[b] = 1..Len(code.blocks[b])
  BY PointFacts
<1>. QED  BY <1>1 DEF IsPoint

LEMMA BlockBegins ==
  ASSUME HomesInv, NEW b \in Blocks(code)
  PROVE  IsPoint(b, 1)
<1>1. code.blocks[b] \in Seq(Instrs(code)) \ {<< >>}
  BY DEF HomesInv, WellFormed, EndsOnce
<1>. QED  BY <1>1 DEF IsPoint

LEMMA PassesOn ==
  ASSUME HomesInv, NEW b, NEW k, IsPoint(b, k), EmitsNothing(b, k)
  PROVE  IsPoint(b, k + 1)
<1>1. k \in Nat /\ DOMAIN code.blocks[b] = 1..Len(code.blocks[b]) /\ Len(code.blocks[b]) \in Nat
  BY PointFacts
<1>2. CASE Fused(b, k + 1) \/ Fused(b, k + 2)
  <2>1. k + 1 <= Len(code.blocks[b])
    BY <1>1, <1>2 DEF Fused
  <2>. QED  BY <1>1, <2>1 DEF IsPoint
<1>3. CASE ~(Fused(b, k + 1) \/ Fused(b, k + 2))
  <2>1. InstrAt(b, k).op \in {"param", "const", "frameaddr"}
    BY <1>3 DEF EmitsNothing
  <2>2. InstrAt(b, k).op \notin Terminators
    BY <2>1 DEF Terminators
  <2>. QED  BY <2>2, NextPoint
<1>. QED  BY <1>2, <1>3

(* The arguments of a call are what the instructions before it pass. *)
LEMMA ArgumentsAreParams ==
  ASSUME HomesInv, NEW b, NEW k, IsPoint(b, k), InstrAt(b, k).op = "call",
         NEW n \in 1..InstrAt(b, k).num
  PROVE  /\ InstrAt(b, k).num \in Nat
         /\ IsPoint(b, k - InstrAt(b, k).num + n - 1) /\ ArgumentOf(b, k, n).op = "param"
         /\ IsSound(code, ArgumentOf(b, k, n))
<1>1. HasItsParams(code, b, k) /\ b \in Blocks(code)
  BY DEF IsPoint, HomesInv, WellFormed, InstrAt
<1>2. k \in Nat /\ DOMAIN code.blocks[b] = 1..Len(code.blocks[b]) /\ Len(code.blocks[b]) \in Nat /\ k <= Len(code.blocks[b])
  BY PointFacts
<1>3. /\ InstrAt(b, k).num \in 0..(k - 1)
      /\ \A j \in (k - InstrAt(b, k).num)..(k - 1) : InstrAt(b, j).op = "param"
  BY <1>1 DEF HasItsParams, InstrAt
<1>. DEFINE j == k - InstrAt(b, k).num + n - 1
<1>4. j \in (k - InstrAt(b, k).num)..(k - 1) /\ j \in 1..Len(code.blocks[b])
  BY <1>2, <1>3
<1>5. IsPoint(b, j)
  BY <1>1, <1>2, <1>4 DEF IsPoint
<1>6. ArgumentOf(b, k, n) = InstrAt(b, j)
  BY DEF ArgumentOf, Call
<1>7. IsSound(code, InstrAt(b, j))
  BY <1>5, PointFacts
<1>. QED  BY <1>3, <1>4, <1>5, <1>6, <1>7

LEMMA CallList ==
  ASSUME HomesInv, NEW b, NEW k, IsPoint(b, k), InstrAt(b, k).op = "call"
  PROVE  /\ InstrAt(b, k).num \in Nat
         /\ ArgumentList(b, k) \in Seq(SlotArg) /\ Len(ArgumentList(b, k)) = InstrAt(b, k).num
<1>1. HasItsParams(code, b, k)
  BY DEF IsPoint, HomesInv, WellFormed, InstrAt
<1>2. k \in Nat
  BY PointFacts
<1>3. InstrAt(b, k).num \in Nat
  BY <1>1, <1>2 DEF HasItsParams, InstrAt
<1>4. \A n \in 1..InstrAt(b, k).num : ArgumentOf(b, k, n).wide \in BOOLEAN
  BY ArgumentsAreParams DEF IsSound
<1>5. ArgumentList(b, k) = [n \in 1..InstrAt(b, k).num |-> [bank |-> "int", wide |-> ArgumentOf(b, k, n).wide]]
  BY DEF ArgumentList, Call
<1>6. ArgumentList(b, k) \in [1..InstrAt(b, k).num -> SlotArg]
  BY <1>4, <1>5 DEF SlotArg
<1>. QED  BY <1>3, <1>6

LEMMA ParamsAreLocals ==
  ASSUME HomesInv
  PROVE  /\ code.params \in Nat /\ ParamList(code) \in Seq(SlotArg) /\ Len(ParamList(code)) = code.params
         /\ \A p \in 1..code.params : p \in DOMAIN locals /\ ParamList(code)[p].wide = IsWideLocal(p)
<1>1. code.params \in Nat /\ 1..code.params \subseteq LocalSlots(code) /\ DOMAIN locals = LocalSlots(code)
  BY DEF HomesInv, WellFormed
<1>2. ParamList(code) = [p \in 1..code.params |-> [bank |-> "int", wide |-> IsWideLocal(p)]]
  BY DEF ParamList, IsWideLocal
<1>3. ParamList(code) \in [1..code.params -> SlotArg]
  BY <1>2 DEF SlotArg, IsWideLocal
<1>. QED  BY <1>1, <1>2, <1>3

LEMMA PointsAre == \A b, k : IsPoint(b, k) => <<b, k>> \in Points
BY DEF IsPoint, Points, PointsOf

(* What the calling convention says of the callee-saved registers. *)
LEMMA ConventionFacts ==
  /\ CalleeSaved \subseteq MachineRegisters
  /\ \A r \in CalleeSaved : r \notin kScratch \cup SixAndSeven \cup ClobberedByCalls \cup {0, 1, 2, 3}
  /\ \A r, s : Reg(r) = Reg(s) => r = s
<1>1. /\ CalleeSaved \subseteq MachineRegisters
      /\ \A r \in CalleeSaved : r \notin kScratch \cup SixAndSeven \cup ClobberedByCalls \cup {0, 1, 2, 3}
  BY ConventionAssumption DEF ConventionAssumption, ClobberedByCalls, kScratch, SixAndSeven
<1>. QED  BY <1>1 DEF Reg

-----------------------------------------------------------------------------
(* Least and greatest numbers. *)

(* A set of naturals that is not empty has a least element. *)
LEMMA LeastNumber ==
  ASSUME NEW S \in SUBSET Nat, S # {}
  PROVE  Min(S) \in S /\ \A y \in S : Min(S) <= y
<1>. DEFINE R == OpToRel(<, Nat)
<1>1. IsWellFoundedOn(R, Nat)
  BY NatLessThanWellFounded
<1>2. R = {ss \in Nat \X Nat : ss[1] < ss[2]}
  BY DEF OpToRel
<1>. HIDE DEF R
<1>3. PICK m \in S : \A y \in S : ~(<<y, m>> \in R)
  BY <1>1, WFMin
<1>4. ASSUME NEW y \in S PROVE m <= y
  <2>1. <<y, m>> \in Nat \X Nat /\ <<y, m>>[1] = y /\ <<y, m>>[2] = m
    OBVIOUS
  <2>2. ~(y < m)
    BY <1>2, <1>3, <2>1
  <2>. QED  BY <2>2
<1>. QED  BY <1>4 DEF Min

(* A bounded set of naturals that is not empty has a greatest element. *)
LEMMA GreatestNumber ==
  ASSUME NEW n \in Nat, NEW S \in SUBSET (0..n), S # {}
  PROVE  Max(S) \in S /\ \A y \in S : Max(S) >= y
<1>. DEFINE bounds == {u \in Nat : \A y \in S : y <= u}
<1>1. bounds \in SUBSET Nat /\ n \in bounds
  OBVIOUS
<1>. HIDE DEF bounds
<1>2. Min(bounds) \in bounds /\ \A u \in bounds : Min(bounds) <= u
  BY <1>1, LeastNumber
<1>3. PICK u : u = Min(bounds)
  OBVIOUS
<1>4. u \in Nat /\ \A y \in S : y <= u
  BY <1>2, <1>3 DEF bounds
<1>5. u \in S
  <2>. SUFFICES ASSUME u \notin S PROVE FALSE
    OBVIOUS
  <2>1. \A y \in S : y <= u - 1
    BY <1>4
  <2>2. u - 1 \in Nat
    <3>1. PICK y \in S : TRUE
      OBVIOUS
    <3>. QED  BY <1>4, <2>1, <3>1
  <2>3. u - 1 \in bounds
    BY <2>1, <2>2 DEF bounds
  <2>. QED  BY <1>2, <1>3, <1>4, <2>3
<1>. QED  BY <1>4, <1>5 DEF Max

-----------------------------------------------------------------------------
(* A count of one. *)

(* What is defined once is defined in one place. *)
LEMMA DefinedInOnePlace ==
  ASSUME HomesInv, NEW t, DefCount(code, t) = 1,
         NEW p \in Points, NEW q \in Points, InstrAt(p[1], p[2]).res = t, InstrAt(q[1], q[2]).res = t
  PROVE  p = q
<1>. DEFINE places == {r \in PointsOf(code) : code.blocks[r[1]][r[2]].res = t}
<1>1. IsFiniteSet(places)
  <2>1. IsFiniteSet(PointsOf(code)) /\ places \in SUBSET PointsOf(code)
    BY DEF HomesInv, WellFormed
  <2>. QED  BY <2>1, FS_Subset
<1>2. Cardinality(places) = 1
  BY DEF DefCount
<1>3. PICK x : places = {x}
  <2>. HIDE DEF places
  <2>. QED  BY <1>1, <1>2, FS_Singleton
<1>4. p \in places /\ q \in places
  BY DEF Points, InstrAt
<1>. QED  BY <1>3, <1>4

(* What is read once is read in one place, as one operand. *)
LEMMA ReadInOnePlace ==
  ASSUME HomesInv, NEW t, UseCount(code, t) = 1,
         NEW p \in Points, NEW q \in Points,
         NEW m \in DOMAIN InstrAt(p[1], p[2]).use, NEW n \in DOMAIN InstrAt(q[1], q[2]).use,
         InstrAt(p[1], p[2]).use[m] = t, InstrAt(q[1], q[2]).use[n] = t
  PROVE  p = q /\ m = n
<1>. DEFINE Of(r) == {<<r[1], r[2], u>> : u \in {v \in DOMAIN code.blocks[r[1]][r[2]].use : code.blocks[r[1]][r[2]].use[v] = t}}
            places == UNION {Of(r) : r \in PointsOf(code)}
<1>1. IsFiniteSet(places)
  <2>1. IsFiniteSet(PointsOf(code) \X (1..2))
    <3>1. IsFiniteSet(PointsOf(code))
      BY DEF HomesInv, WellFormed
    <3>2. IsFiniteSet(1..2)
      <4>1. 1 \in Int /\ 2 \in Int
        OBVIOUS
      <4>. QED  BY <4>1, FS_Interval
    <3>. QED  BY <3>1, <3>2, FS_Product
  <2>. DEFINE Named(c) == <<c[1][1], c[1][2], c[2]>>
              names == {Named(c) : c \in PointsOf(code) \X (1..2)}
  <2>2. IsFiniteSet(names)
    <3>. DEFINE name == [c \in PointsOf(code) \X (1..2) |-> Named(c)]
    <3>1. name \in Surjection(PointsOf(code) \X (1..2), names)
      BY DEF Surjection
    <3>. HIDE DEF name, names
    <3>. QED  BY <2>1, <3>1, FS_Surjection
  <2>3. ASSUME NEW c \in places PROVE c \in names
    <3>1. PICK r \in PointsOf(code) : c \in Of(r)
      OBVIOUS
    <3>2. PICK u \in DOMAIN code.blocks[r[1]][r[2]].use : c = <<r[1], r[2], u>>
      BY <3>1
    <3>3. r[1] \in Blocks(code) /\ r[2] \in DOMAIN code.blocks[r[1]]
      BY DEF PointsOf
    <3>4. code.blocks[r[1]][r[2]] \in Instrs(code)
      BY <3>3 DEF Instrs
    <3>5. u \in 1..2
      <4>1. code.blocks[r[1]][r[2]].use \in [OperandPlaces(code.blocks[r[1]][r[2]].op) -> Temps(code)]
              \/ code.blocks[r[1]][r[2]].use = << >>
        BY <3>4 DEF HomesInv, WellFormed, IsSound
      <4>2. OperandPlaces(code.blocks[r[1]][r[2]].op) \subseteq {1, 2}
        BY DEF OperandPlaces
      <4>3. code.blocks[r[1]][r[2]].use = << >> => DOMAIN code.blocks[r[1]][r[2]].use = {}
        OBVIOUS
      <4>. QED  BY <4>1, <4>2, <4>3
    <3>6. <<r, u>> \in PointsOf(code) \X (1..2) /\ Named(<<r, u>>) = c
      BY <3>2, <3>5
    <3>. QED  BY <3>6
  <2>4. places \in SUBSET names
    BY <2>3
  <2>. HIDE DEF places, names
  <2>. QED  BY <2>2, <2>4, FS_Subset
<1>2. Cardinality(places) = 1
  BY DEF UseCount
<1>3. PICK x : places = {x}
  <2>. HIDE DEF places
  <2>. QED  BY <1>1, <1>2, FS_Singleton
<1>4. <<p[1], p[2], m>> \in Of(p) /\ <<q[1], q[2], n>> \in Of(q)
  BY DEF InstrAt
<1>5. <<p[1], p[2], m>> \in places /\ <<q[1], q[2], n>> \in places
  BY <1>4 DEF Points
<1>6. p[1] = q[1] /\ p[2] = q[2] /\ m = n
  <2>1. <<p[1], p[2], m>> = <<q[1], q[2], n>>
    <3>. HIDE DEF places
    <3>. QED  BY <1>3, <1>5
  <2>. QED  BY <2>1
<1>7. p = <<p[1], p[2]>> /\ q = <<q[1], q[2]>>
  BY DEF Points, PointsOf
<1>. QED  BY <1>6, <1>7

(* The points are the pairs of a block and a place in it. *)
LEMMA PointParts ==
  ASSUME NEW q \in Points
  PROVE  q = <<q[1], q[2]>> /\ IsPoint(q[1], q[2])
BY DEF Points, PointsOf, IsPoint

-----------------------------------------------------------------------------
(* Liveness. *)

(* t is read in b past its instruction k. *)
ReadAfter(b, k, t) == \E m \in DOMAIN code.blocks[b] : m > k /\ t \in Operands(InstrAt(b, m))

(* Defined by one of the instructions i to j of b. *)
DefinedIn(b, i, j, t) == \E m \in i..j : InstrAt(b, m).res = t

(* What is live after an instruction, without the recursion over those after it. *)
LEMMA LiveAfterIs ==
  ASSUME HomesInv, NEW b \in Blocks(code), NEW k \in Nat, NEW t
  PROVE  t \in LiveAfter(b, k) <=>
           \/ \E j \in (k + 1)..Len(code.blocks[b]) : t \in Operands(InstrAt(b, j)) /\ ~DefinedIn(b, k + 1, j - 1, t)
           \/ t \in liveOut[b] /\ ~DefinedIn(b, k + 1, Len(code.blocks[b]), t)
<1>1. Len(code.blocks[b]) \in Nat /\ (Len(code.blocks[b]) + 1) - 1 = Len(code.blocks[b])
  BY BlockBegins, PointFacts
<1>. QED  BY <1>1 DEF LiveAfter, DefinedIn

(* What is live somewhere in a block is live at its end or read further on. *)
LEMMA LiveIsWanted ==
  ASSUME HomesInv, NEW b \in Blocks(code), NEW k \in Nat, NEW t \in LiveAfter(b, k)
  PROVE  t \in liveOut[b] \/ ReadAfter(b, k, t)
<1>1. DOMAIN code.blocks[b] = 1..Len(code.blocks[b]) /\ Len(code.blocks[b]) \in Nat
  BY BlockBegins, PointFacts
<1>2. CASE t \in liveOut[b]
  BY <1>2
<1>3. CASE \E j \in (k + 1)..Len(code.blocks[b]) : t \in Operands(InstrAt(b, j))
  <2>1. PICK j \in (k + 1)..Len(code.blocks[b]) : t \in Operands(InstrAt(b, j))
    BY <1>3
  <2>2. j \in DOMAIN code.blocks[b] /\ j > k
    BY <1>1
  <2>. QED  BY <2>1, <2>2 DEF ReadAfter
<1>. QED  BY <1>2, <1>3, LiveAfterIs

(* An operand of an instruction is live before it; so is what is live after *)
(* it, but for what it defines.                                            *)
LEMMA LiveBefore ==
  ASSUME HomesInv, NEW b, NEW k, IsPoint(b, k)
  PROVE  /\ Operands(InstrAt(b, k)) \subseteq LiveAfter(b, k - 1)
         /\ LiveAfter(b, k) \ {InstrAt(b, k).res} \subseteq LiveAfter(b, k - 1)
<1>1. b \in Blocks(code) /\ k \in Nat /\ k >= 1 /\ k <= Len(code.blocks[b]) /\ Len(code.blocks[b]) \in Nat /\ k - 1 \in Nat
  BY PointFacts DEF IsPoint
<1>2. (k - 1) + 1 = k
  BY <1>1
<1>3. ASSUME NEW t \in Operands(InstrAt(b, k)) PROVE t \in LiveAfter(b, k - 1)
  <2>1. k \in k..Len(code.blocks[b]) /\ ~DefinedIn(b, k, k - 1, t)
    BY <1>1 DEF DefinedIn
  <2>. QED  BY <1>1, <1>2, <1>3, <2>1, LiveAfterIs
<1>4. ASSUME NEW t \in LiveAfter(b, k), t # InstrAt(b, k).res PROVE t \in LiveAfter(b, k - 1)
  <2>1. \A j : j \in Nat /\ ~DefinedIn(b, k + 1, j, t) => ~DefinedIn(b, k, j, t)
    BY <1>1, <1>4 DEF DefinedIn
  <2>2. CASE \E j \in (k + 1)..Len(code.blocks[b]) : t \in Operands(InstrAt(b, j)) /\ ~DefinedIn(b, k + 1, j - 1, t)
    <3>1. PICK j \in (k + 1)..Len(code.blocks[b]) : t \in Operands(InstrAt(b, j)) /\ ~DefinedIn(b, k + 1, j - 1, t)
      BY <2>2
    <3>2. j \in k..Len(code.blocks[b]) /\ j - 1 \in Nat
      BY <1>1
    <3>. QED  BY <1>1, <1>2, <2>1, <3>1, <3>2, LiveAfterIs
  <2>3. CASE t \in liveOut[b] /\ ~DefinedIn(b, k + 1, Len(code.blocks[b]), t)
    BY <1>1, <1>2, <2>1, <2>3, LiveAfterIs
  <2>. QED  BY <1>1, <1>4, <2>2, <2>3, LiveAfterIs
<1>. QED  BY <1>3, <1>4

(* What is live at an instruction of a block was live when the block began   *)
(* or has been defined in it.                                              *)
LEMMA LiveSinceEntry ==
  ASSUME HomesInv, NEW b \in Blocks(code), NEW k \in Nat, NEW t \in LiveAfter(b, k)
  PROVE  t \in LiveAfter(b, 0) \/ DefinedIn(b, 1, k, t)
<1>. SUFFICES ASSUME ~DefinedIn(b, 1, k, t) PROVE t \in LiveAfter(b, 0)
  OBVIOUS
<1>0. Len(code.blocks[b]) \in Nat /\ 0 + 1 = 1 /\ 0 \in Nat
  BY BlockBegins, PointFacts
<1>1. \A j : j \in Nat /\ ~DefinedIn(b, k + 1, j, t) => ~DefinedIn(b, 1, j, t)
  BY DEF DefinedIn
<1>2. CASE \E j \in (k + 1)..Len(code.blocks[b]) : t \in Operands(InstrAt(b, j)) /\ ~DefinedIn(b, k + 1, j - 1, t)
  <2>1. PICK j \in (k + 1)..Len(code.blocks[b]) : t \in Operands(InstrAt(b, j)) /\ ~DefinedIn(b, k + 1, j - 1, t)
    BY <1>2
  <2>2. j \in 1..Len(code.blocks[b]) /\ j - 1 \in Nat
    BY <1>0
  <2>3. ~DefinedIn(b, 1, j - 1, t)
    BY <1>1, <2>1, <2>2
  <2>. QED  BY <1>0, <2>1, <2>2, <2>3, LiveAfterIs
<1>3. CASE t \in liveOut[b] /\ ~DefinedIn(b, k + 1, Len(code.blocks[b]), t)
  BY <1>0, <1>1, <1>3, LiveAfterIs
<1>. QED  BY <1>2, <1>3, LiveAfterIs

-----------------------------------------------------------------------------
(* The fixpoint: backwards over the blocks until nothing changes.          *)

(* The block meets its two equations. *)
Solved(b) == liveOut[b] = LiveAtEnd(b) /\ liveIn[b] = LiveAtStart(b, liveOut[b])

(* A block behind the cursor is left out of step only by a pass that has     *)
(* changed something, and will be followed by another.                     *)
LiveInv ==
  /\ liveIn \in [Blocks(code) -> SUBSET Temps(code)] /\ liveOut \in [Blocks(code) -> SUBSET Temps(code)]
  /\ changed \in BOOLEAN
  /\ phase = "liveness" => /\ cursor \in DOMAIN code.order
                           /\ ~changed => \A n \in (cursor + 1)..Len(code.order) : Solved(code.order[n])
  /\ PastLiveness => \A b \in Blocks(code) : Solved(b)

(* The blocks in the order they are emitted. *)
LEMMA OrderFacts ==
  ASSUME HomesInv
  PROVE  /\ Len(code.order) \in Nat /\ Len(code.order) >= 1 /\ DOMAIN code.order = 1..Len(code.order)
         /\ \A n \in DOMAIN code.order : code.order[n] \in Blocks(code)
         /\ \A b \in Blocks(code) : \E n \in DOMAIN code.order : code.order[n] = b
         /\ \A m, n \in DOMAIN code.order : code.order[m] = code.order[n] => m = n
<1>1. code.order \in Seq(Blocks(code)) \ {<< >>} /\ IsInjective(code.order) /\ ToSet(code.order) = Blocks(code)
  BY DEF HomesInv, WellFormed
<1>2. Len(code.order) \in Nat /\ Len(code.order) >= 1 /\ DOMAIN code.order = 1..Len(code.order)
  BY <1>1
<1>3. \A n \in DOMAIN code.order : code.order[n] \in Blocks(code)
  BY <1>1
<1>. QED  BY <1>1, <1>2, <1>3 DEF IsInjective, ToSet

LEMMA InitLive == PlacementInit => LiveInv
BY DEF PlacementInit, LiveInv, PastLiveness

(* What a block defines and reads depends on the code alone. *)
LEMMA BlocksKept ==
  ASSUME code' = code, NEW b, NEW out
  PROVE  /\ LiveAtStart(b, out)' = UpwardExposed(b) \cup (out' \ Defined(b))
         /\ UpwardExposed(b)' = UpwardExposed(b) /\ Defined(b)' = Defined(b)
         /\ Blocks(code)' = Blocks(code) /\ Temps(code)' = Temps(code)
BY DEF LiveAtStart, UpwardExposed, Defined, DefinedBefore, InstrAt, Blocks, Temps

(* A step that computes no liveness. *)
LEMMA LiveStays ==
  ASSUME LiveInv, UNCHANGED <<code, liveVars>>, phase' # "liveness", PastLiveness' => PastLiveness
  PROVE  LiveInv'
<1>1. \A b : Solved(b)' = Solved(b)
  BY DEF Solved, LiveAtEnd, LiveAtStart, UpwardExposed, Defined, DefinedBefore, InstrAt, liveVars
<1>. QED  BY <1>1 DEF LiveInv, Blocks, Temps, liveVars

(* Liveness starts with nothing live and everything to do. *)
LEMMA LiveBegins ==
  ASSUME HomesInv, LiveInv, PlaceAddresses
  PROVE  LiveInv'
<1>1. /\ phase' = "liveness" /\ cursor' = Len(code.order) /\ ~PastLiveness' /\ changed' = changed
      /\ UNCHANGED <<code, liveIn, liveOut>>
  BY DEF PlaceAddresses, EnterPhase, PastLiveness, liveVars
<1>2. Len(code.order) \in DOMAIN code.order /\ (Len(code.order) + 1)..Len(code.order) = {}
  BY OrderFacts
<1>3. (phase = "liveness" => /\ cursor \in DOMAIN code.order
                             /\ ~changed => \A n \in (cursor + 1)..Len(code.order) : Solved(code.order[n]))'
  BY <1>1, <1>2
<1>. QED  BY <1>1, <1>3 DEF LiveInv, Blocks, Temps

(* One block's liveness out of its successors'. *)
LEMMA LiveGoesOn ==
  ASSUME HomesInv, LiveInv, UpdateLiveness
  PROVE  LiveInv'
<1>1. phase = "liveness" /\ code' = code /\ cursor \in DOMAIN code.order
  BY DEF UpdateLiveness, LiveInv
<1>2. PICK b : b = code.order[cursor]
  OBVIOUS
<1>3. PICK out : out = LiveAtEnd(b)
  OBVIOUS
<1>4. PICK in : in = LiveAtStart(b, out)
  OBVIOUS
<1>5. /\ liveOut' = [liveOut EXCEPT ![b] = out] /\ liveIn' = [liveIn EXCEPT ![b] = in]
      /\ changed' = (cursor > 1 /\ (changed \/ out # liveOut[b] \/ in # liveIn[b]))
      /\ IF cursor > 1 THEN EnterPhase("liveness", cursor - 1)
         ELSE IF changed \/ out # liveOut[b] \/ in # liveIn[b] THEN EnterPhase("liveness", Len(code.order)) ELSE EnterPhase("alias", 1)
  BY <1>2, <1>3, <1>4 DEF UpdateLiveness
<1>6. /\ b \in Blocks(code) /\ DOMAIN code.order = 1..Len(code.order) /\ Len(code.order) \in Nat /\ Len(code.order) >= 1
      /\ cursor \in 1..Len(code.order)
  BY <1>1, <1>2, OrderFacts
<1>7. out \subseteq Temps(code) /\ in \subseteq Temps(code)
  <2>1. \A c \in SuccessorsOf(code, b) : c \in Blocks(code)
    <3>1. /\ \A k \in DOMAIN code.blocks[b] : code.blocks[b][k] \in Instrs(code)
          /\ code.blocks[b] # << >> => Len(code.blocks[b]) \in DOMAIN code.blocks[b]
      <4>1. IsPoint(b, 1)
        BY <1>6, BlockBegins
      <4>2. DOMAIN code.blocks[b] = 1..Len(code.blocks[b]) /\ Len(code.blocks[b]) \in Nat /\ 1 <= Len(code.blocks[b])
        BY <4>1, PointFacts
      <4>. QED  BY <1>6, <4>2 DEF Instrs
    <3>2. IsTerminated(code.blocks[b]) =>
            \A k \in DOMAIN code.blocks[b][Len(code.blocks[b])].to : code.blocks[b][Len(code.blocks[b])].to[k] \in Blocks(code)
      BY <3>1 DEF IsTerminated, HomesInv, WellFormed, IsSound
    <3>3. \A n \in DOMAIN code.order : code.order[n] \in Blocks(code)
      BY OrderFacts
    <3>4. PositionOf(code, b) \in DOMAIN code.order
      BY <1>1, <1>2 DEF PositionOf
    <3>5. PositionOf(code, b) < Len(code.order) => code.order[PositionOf(code, b) + 1] \in Blocks(code)
      BY <1>6, <3>3, <3>4
    <3>. QED  BY <3>2, <3>5 DEF SuccessorsOf
  <2>2. out \subseteq Temps(code)
    BY <1>3, <2>1 DEF LiveAtEnd, LiveInv
  <2>3. UpwardExposed(b) \subseteq Temps(code)
    <3>1. \A k \in DOMAIN code.blocks[b] : Operands(InstrAt(b, k)) \subseteq Temps(code)
      BY <1>6, PointFacts, OperandFacts DEF IsPoint
    <3>. QED  BY <3>1 DEF UpwardExposed
  <2>. QED  BY <1>4, <2>2, <2>3 DEF LiveAtStart
<1>8. CASE out = liveOut[b] /\ in = liveIn[b]
  <2>1. liveOut' = liveOut /\ liveIn' = liveIn
    BY <1>5, <1>6, <1>8 DEF LiveInv
  <2>2. \A c : Solved(c)' = Solved(c)
    BY <1>1, <2>1 DEF Solved, LiveAtEnd, LiveAtStart, UpwardExposed, Defined, DefinedBefore, InstrAt
  <2>3. Solved(b)
    BY <1>3, <1>4, <1>8 DEF Solved
  <2>4. ~changed => \A n \in cursor..Len(code.order) : Solved(code.order[n])
    <3>1. ASSUME ~changed, NEW n \in cursor..Len(code.order) PROVE Solved(code.order[n])
      <4>1. n = cursor \/ n \in (cursor + 1)..Len(code.order)
        BY <1>6
      <4>. QED  BY <1>1, <1>2, <2>3, <3>1, <4>1 DEF LiveInv
    <3>. QED  BY <3>1
  <2>5. CASE cursor > 1
    <3>1. phase' = "liveness" /\ cursor' = cursor - 1 /\ cursor' \in DOMAIN code.order /\ changed' = changed /\ cursor' + 1 = cursor
      BY <1>5, <1>6, <1>8, <2>5 DEF EnterPhase, LiveInv
    <3>2. (~changed => \A n \in (cursor + 1)..Len(code.order) : Solved(code.order[n]))'
      BY <1>1, <2>2, <2>4, <3>1
    <3>. QED  BY <1>1, <2>1, <3>1, <3>2 DEF LiveInv, PastLiveness, Blocks, Temps
  <2>6. CASE ~(cursor > 1) /\ changed
    <3>1. phase' = "liveness" /\ cursor' = Len(code.order) /\ changed' = FALSE
      BY <1>5, <2>6 DEF EnterPhase
    <3>2. (cursor \in DOMAIN code.order /\ \A n \in (cursor + 1)..Len(code.order) : Solved(code.order[n]))'
      BY <1>1, <1>6, <3>1
    <3>. QED  BY <1>1, <2>1, <3>1, <3>2 DEF LiveInv, PastLiveness, Blocks, Temps
  <2>7. CASE ~(cursor > 1) /\ ~changed
    <3>1. phase' = "alias" /\ changed' = FALSE
      BY <1>5, <1>8, <2>7 DEF EnterPhase
    <3>2. \A c \in Blocks(code) : Solved(c)
      <4>1. cursor = 1
        BY <1>6, <2>7
      <4>. QED  BY <1>6, <2>4, <2>7, <4>1, OrderFacts
    <3>. QED  BY <1>1, <2>1, <2>2, <3>1, <3>2 DEF LiveInv, PastLiveness, Blocks, Temps
  <2>. QED  BY <2>5, <2>6, <2>7
<1>9. CASE ~(out = liveOut[b] /\ in = liveIn[b])
  <2>1. phase' = "liveness" /\ cursor' \in DOMAIN code.order /\ changed' = (cursor > 1)
    BY <1>5, <1>6, <1>9 DEF EnterPhase
  <2>2. liveIn' \in [Blocks(code) -> SUBSET Temps(code)] /\ liveOut' \in [Blocks(code) -> SUBSET Temps(code)]
    BY <1>5, <1>6, <1>7 DEF LiveInv
  <2>3. cursor > 1 \/ cursor' = Len(code.order)
    BY <1>5, <1>9 DEF EnterPhase
  <2>4. (~changed => \A n \in (cursor + 1)..Len(code.order) : Solved(code.order[n]))'
    <3>1. ~changed' => cursor' = Len(code.order)
      BY <2>1, <2>3
    <3>2. (Len(code.order) + 1)..Len(code.order) = {}
      BY <1>6
    <3>. QED  BY <1>1, <3>1, <3>2
  <2>. QED  BY <1>1, <2>1, <2>2, <2>4 DEF LiveInv, PastLiveness, Blocks, Temps
<1>. QED  BY <1>8, <1>9

(* The emitted code changes nothing the placement decided. *)
LEMMA EmissionAfterLiveness ==
  Emission => /\ UNCHANGED <<code, arrival, locals, temps, freeInt, calleeFree, calleeSaved, liveVars, reserved, scanVars, fields>>
              /\ phase \in {"placed", "settle", "run", "call"} /\ PastLiveness
<1>1. OpenFrame => /\ UNCHANGED <<code, arrival, locals, temps, freeInt, calleeFree, calleeSaved, liveVars, reserved, scanVars, fields>>
                   /\ phase = "placed"
  BY DEF OpenFrame
<1>2. SettleParameter \/ EnterBody => UNCHANGED placed /\ phase = "settle"
  BY DEF SettleParameter, EnterBody
<1>3. Pass \/ Compute \/ MoveValue \/ TakeAddress \/ LoadLocal \/ StoreLocal \/ Branch \/ LeaveFunction => UNCHANGED placed /\ phase = "run"
  BY DEF Pass, Compute, MoveValue, TakeAddress, LoadLocal, StoreLocal, Branch, LeaveFunction, Fetched, Running, Defines
<1>4. BeginCall \/ NumberArgument \/ PlaceArgument \/ MakeCall \/ JumpToCallee => UNCHANGED placed /\ phase \in {"run", "call"}
  BY DEF BeginCall, NumberArgument, PlaceArgument, MakeCall, JumpToCallee, Fetched, Running, Moving, Ready, Setting
<1>. QED  BY <1>1, <1>2, <1>3, <1>4 DEF Emission, placed, PastLiveness

(* A step that touches no liveness keeps it. *)
LEMMA LiveWaits ==
  ASSUME LiveInv, UNCHANGED <<code, liveVars, phase, cursor>>
  PROVE  LiveInv'
<1>1. \A b : Solved(b)' = Solved(b)
  BY DEF Solved, LiveAtEnd, LiveAtStart, UpwardExposed, Defined, DefinedBefore, InstrAt, liveVars
<1>. QED  BY <1>1 DEF LiveInv, PastLiveness, Blocks, Temps, liveVars

(* With register allocation liveness is computed, and then never changes. *)
LEMMA NextLive == RegisterAllocation /\ HomesInv /\ LiveInv /\ [Next]_vars => LiveInv'
<1>. SUFFICES ASSUME RegisterAllocation, HomesInv, LiveInv, [Next]_vars PROVE LiveInv'
  OBVIOUS
<1>1. CASE NumberParameter \/ FinishArrival \/ PlaceLocal
  <2>1. UNCHANGED <<code, liveVars>> /\ phase' \in {"arrival", "locals"}
    BY <1>1 DEF NumberParameter, FinishArrival, PlaceLocal, EnterPhase
  <2>. QED  BY <2>1, LiveStays DEF PastLiveness
<1>2. CASE PlaceAddresses
  BY <1>2, LiveBegins
<1>3. CASE UpdateLiveness
  BY <1>3, LiveGoesOn
<1>4. CASE PlaceAliases \/ PlaceCrossing \/ FinishCrossing
  <2>1. UNCHANGED <<code, liveVars>> /\ phase \in {"alias", "crossing"} /\ phase' \in {"crossing", "block"}
    BY <1>4 DEF PlaceAliases, PlaceCrossing, FinishCrossing, EnterPhase
  <2>. QED  BY <2>1, LiveStays DEF PastLiveness
<1>5. CASE OpenBlock \/ Release \/ Grant \/ CloseBlock \/ FinishScan
  <2>1. UNCHANGED <<code, liveVars>> /\ phase \in {"block", "scan"} /\ phase' \in {"block", "scan", "fields"}
    BY <1>5 DEF OpenBlock, Release, Grant, CloseBlock, FinishScan, EnterPhase, InScan
  <2>. QED  BY <2>1, LiveStays DEF PastLiveness
<1>6. CASE PlaceLocalField \/ PlaceTempField \/ FinishPlacement
  <2>1. UNCHANGED <<code, liveVars>> /\ phase = "fields" /\ phase' \in {"fields", "placed"}
    BY <1>6 DEF PlaceLocalField, PlaceTempField, FinishPlacement, EnterPhase
  <2>. QED  BY <2>1, LiveStays DEF PastLiveness
<1>7. CASE Emission
  <2>1. UNCHANGED <<code, liveVars>> /\ PastLiveness
    BY <1>7, EmissionAfterLiveness
  <2>2. phase' # "liveness"
    BY <1>7, EmissionKeepsPlacement
  <2>. QED  BY <2>1, <2>2, LiveStays
<1>8. CASE UNCHANGED vars
  BY <1>8, LiveWaits DEF vars, placementVars
<1>. QED  BY <1>1, <1>2, <1>3, <1>4, <1>5, <1>6, <1>7, <1>8 DEF Next, Place, PlacementNext, Emission

(* Past liveness: what a block begins with ... *)
LEMMA EntryIsLiveIn ==
  ASSUME HomesInv, LiveInv, PastLiveness, NEW b \in Blocks(code)
  PROVE  LiveAfter(b, 0) \subseteq liveIn[b]
<1>. SUFFICES ASSUME NEW t \in LiveAfter(b, 0) PROVE t \in liveIn[b]
  OBVIOUS
<1>0. 0 \in Nat /\ 0 + 1 = 1 /\ Len(code.blocks[b]) \in Nat /\ DOMAIN code.blocks[b] = 1..Len(code.blocks[b])
  BY BlockBegins, PointFacts
<1>1. liveIn[b] = UpwardExposed(b) \cup (liveOut[b] \ Defined(b))
  BY DEF LiveInv, Solved, LiveAtStart
<1>2. CASE \E j \in 1..Len(code.blocks[b]) : t \in Operands(InstrAt(b, j)) /\ ~DefinedIn(b, 1, j - 1, t)
  <2>1. PICK j \in 1..Len(code.blocks[b]) : t \in Operands(InstrAt(b, j)) /\ ~DefinedIn(b, 1, j - 1, t)
    BY <1>2
  <2>2. t \in Operands(InstrAt(b, j)) \ DefinedBefore(b, j) /\ j \in DOMAIN code.blocks[b]
    BY <1>0, <2>1 DEF DefinedBefore, DefinedIn
  <2>. QED  BY <1>1, <2>2 DEF UpwardExposed
<1>3. CASE t \in liveOut[b] /\ ~DefinedIn(b, 1, Len(code.blocks[b]), t)
  <2>1. (Len(code.blocks[b]) + 1) - 1 = Len(code.blocks[b])
    BY <1>0
  <2>2. t \notin Defined(b)
    BY <1>3, <2>1 DEF Defined, DefinedBefore, DefinedIn
  <2>. QED  BY <1>1, <1>3, <2>2
<1>. QED  BY <1>0, <1>2, <1>3, LiveAfterIs

(* ... is live where any block that leads to it ends. *)
LEMMA LiveFlows ==
  ASSUME HomesInv, LiveInv, PastLiveness, NEW b, NEW k, IsPoint(b, k), InstrAt(b, k).op \in Terminators,
         NEW n \in DOMAIN InstrAt(b, k).to
  PROVE  /\ InstrAt(b, k).to[n] \in Blocks(code)
         /\ liveIn[InstrAt(b, k).to[n]] \subseteq LiveAfter(b, k)
<1>1. /\ b \in Blocks(code) /\ k = Len(code.blocks[b]) /\ k \in Nat /\ k >= 1 /\ InstrAt(b, k) \in Instrs(code)
  BY PointFacts DEF IsPoint
<1>2. InstrAt(b, k).to[n] \in Blocks(code)
  BY <1>1 DEF HomesInv, WellFormed, IsSound
<1>3. code.blocks[b] # << >>
  BY <1>1 DEF HomesInv, WellFormed, EndsOnce
<1>4. InstrAt(b, k).to[n] \in SuccessorsOf(code, b)
  BY <1>1, <1>3 DEF SuccessorsOf, IsTerminated, InstrAt
<1>5. liveOut[b] = LiveAtEnd(b)
  BY <1>1 DEF LiveInv, Solved
<1>6. liveIn[InstrAt(b, k).to[n]] \subseteq liveOut[b]
  BY <1>4, <1>5 DEF LiveAtEnd
<1>7. liveOut[b] \subseteq LiveAfter(b, k)
  <2>1. \A t : ~DefinedIn(b, k + 1, k, t)
    BY <1>1 DEF DefinedIn
  <2>. QED  BY <1>1, <2>1, LiveAfterIs
<1>. QED  BY <1>2, <1>6, <1>7

(* What ends a block leaves live what is live at its end. *)
LEMMA LiveAtLast ==
  ASSUME HomesInv, NEW b \in Blocks(code)
  PROVE  LiveAfter(b, Len(code.blocks[b])) = liveOut[b]
<1>1. Len(code.blocks[b]) \in Nat
  BY BlockBegins, PointFacts
<1>2. \A t : ~DefinedIn(b, Len(code.blocks[b]) + 1, Len(code.blocks[b]), t)
  BY <1>1 DEF DefinedIn
<1>3. (Len(code.blocks[b]) + 1)..Len(code.blocks[b]) = {}
  BY <1>1
<1>. QED  BY <1>1, <1>2, <1>3, LiveAfterIs

LEMMA LiveAfterTemps ==
  ASSUME HomesInv, LiveInv, NEW b \in Blocks(code), NEW k \in Nat
  PROVE  LiveAfter(b, k) \subseteq DOMAIN temps
<1>. SUFFICES ASSUME NEW t \in LiveAfter(b, k) PROVE t \in Temps(code)
  BY DEF HomesInv
<1>1. CASE t \in liveOut[b]
  BY <1>1 DEF LiveInv
<1>2. CASE ReadAfter(b, k, t)
  <2>1. PICK m \in DOMAIN code.blocks[b] : t \in Operands(InstrAt(b, m))
    BY <1>2 DEF ReadAfter
  <2>2. InstrAt(b, m) \in Instrs(code)
    BY DEF InstrAt, Instrs
  <2>. QED  BY <2>1, <2>2, OperandFacts
<1>. QED  BY <1>1, <1>2, LiveIsWanted

LEMMA LiveAfterKept ==
  ASSUME UNCHANGED <<code, liveVars>>, NEW b, NEW k
  PROVE  LiveAfter(b, k)' = LiveAfter(b, k)
BY DEF LiveAfter, InstrAt, liveVars

-----------------------------------------------------------------------------
(* The registers homes are made of. *)

(* No home is a scratch register, of word code or of pair code. *)
Usable == MachineRegisters \ (kScratch \cup (IF UsesPairs THEN SixAndSeven ELSE {}))

(* What is free and what a local has are no scratch registers; a local of a  *)
(* function that calls is where calls keep it, and a value passed to a call  *)
(* is in no argument register.                                             *)
RegistersInv ==
  /\ freeInt \cup ArgPool \subseteq Usable /\ calleeFree \subseteq CalleeSaved
  /\ freeInt \cap CalleeSaved = {}
  /\ \A l \in DOMAIN locals : /\ CellsOf(locals[l]) \subseteq Usable
                              /\ HasCalls => CellsOf(locals[l]) \subseteq CalleeSaved
                              /\ locals[l].kind \in {"slot", "register", "none"}
  /\ \A t \in DOMAIN temps : /\ CallArg(t) => CellsOf(temps[t]) \cap ArgPool = {}
                             /\ temps[t].kind \in {"slot", "register", "alias", "virtual", "none"}

LEMMA CalleeSavedUsable == CalleeSaved \subseteq Usable
<1>1. \A r \in CalleeSaved : r \in MachineRegisters /\ r \notin kScratch \cup SixAndSeven
  BY ConventionFacts
<1>. QED  BY <1>1 DEF Usable

LEMMA ArgRegistersAre == ToSet(ArgRegisters) = 0..(ArgRegisterCount - 1) /\ ToSet(ArgRegisters) \subseteq 0..3
<1>1. ArgRegisterCount \in Nat /\ ArgRegisterCount <= 4
  BY PoolsAssumption, ConventionAssumption DEF PoolsAssumption, ConventionAssumption
<1>2. \A x : x \in ToSet(ArgRegisters) <=> x \in 0..(ArgRegisterCount - 1)
  <2>1. ASSUME NEW x \in ToSet(ArgRegisters) PROVE x \in 0..(ArgRegisterCount - 1)
    <3>1. PICK r \in 1..ArgRegisterCount : x = r - 1
      BY DEF ToSet, ArgRegisters
    <3>. QED  BY <1>1, <3>1
  <2>2. ASSUME NEW x \in 0..(ArgRegisterCount - 1) PROVE x \in ToSet(ArgRegisters)
    <3>1. x + 1 \in DOMAIN ArgRegisters /\ ArgRegisters[x + 1] = x
      BY <1>1 DEF ArgRegisters
    <3>. QED  BY <3>1 DEF ToSet
  <2>. QED  BY <2>1, <2>2
<1>3. ToSet(ArgRegisters) = 0..(ArgRegisterCount - 1)
  BY <1>2
<1>. QED  BY <1>1, <1>3

LEMMA InitRegisters == PlacementInit => RegistersInv
<1>. SUFFICES ASSUME PlacementInit PROVE RegistersInv
  OBVIOUS
<1>1. /\ freeInt = (ToSet(CallerSavedPool) \cup (IF HasCalls THEN {} ELSE ToSet(ArgRegisters))) \ (IF UsesPairs THEN SixAndSeven ELSE {})
      /\ calleeFree = CalleeSaved
  BY DEF PlacementInit
<1>2. ToSet(ArgRegisters) \subseteq Usable
  BY ArgRegistersAre DEF Usable, MachineRegisters, kScratch, SixAndSeven
<1>3. freeInt \subseteq Usable
  <2>1. ToSet(CallerSavedPool) \subseteq MachineRegisters \ kScratch
    BY ConventionAssumption
  <2>. QED  BY <1>1, <1>2, <2>1 DEF Usable
<1>4. freeInt \cap CalleeSaved = {}
  BY <1>1, PoolsAssumption DEF PoolsAssumption, CalleeSaved
<1>5. \A l \in DOMAIN locals : CellsOf(locals[l]) = {} /\ locals[l].kind = "slot"
  BY DEF PlacementInit, CellsOf, Unplaced, Placement
<1>6. \A t \in DOMAIN temps : CellsOf(temps[t]) = {} /\ temps[t].kind = "slot"
  BY DEF PlacementInit, CellsOf, Unplaced, Placement
<1>. QED  BY <1>1, <1>2, <1>3, <1>4, <1>5, <1>6 DEF RegistersInv, ArgPool

(* What is read off the code and its uses stays. *)
LEMMA CodeFactsKept ==
  ASSUME code' = code
  PROVE  /\ HasCalls' = HasCalls /\ UsesPairs' = UsesPairs /\ Usable' = Usable /\ ArgPool' = ArgPool
         /\ Points' = Points /\ Blocks(code)' = Blocks(code) /\ Temps(code)' = Temps(code)
         /\ \A t : CallArg(t)' = CallArg(t) /\ Referenced(t)' = Referenced(t) /\ IsPair(t)' = IsPair(t)
BY DEF HasCalls, UsesPairs, Usable, ArgPool, CallArg, Referenced, IsPair, Some, InstrAt, Points, Blocks, Temps

(* A step after which no home has a register it had not. *)
LEMMA RegistersStay ==
  ASSUME RegistersInv, UNCHANGED <<code, freeInt, calleeFree>>,
         DOMAIN locals' = DOMAIN locals, DOMAIN temps' = DOMAIN temps,
         \A l \in DOMAIN locals : CellsOf(locals[l])' \subseteq CellsOf(locals[l]) /\ locals'[l].kind \in {"slot", "register", "none"},
         \A t \in DOMAIN temps : /\ CellsOf(temps[t])' \subseteq CellsOf(temps[t])
                                 /\ temps'[t].kind \in {"slot", "register", "alias", "virtual", "none"}
  PROVE  RegistersInv'
<1>1. \A l \in DOMAIN locals' : /\ CellsOf(locals[l])' \subseteq Usable'
                                /\ HasCalls' => CellsOf(locals[l])' \subseteq CalleeSaved
                                /\ locals'[l].kind \in {"slot", "register", "none"}
  BY CodeFactsKept DEF RegistersInv
<1>2. \A t \in DOMAIN temps' : /\ CallArg(t)' => CellsOf(temps[t])' \cap ArgPool' = {}
                               /\ temps'[t].kind \in {"slot", "register", "alias", "virtual", "none"}
  BY CodeFactsKept DEF RegistersInv
<1>3. freeInt' \cup ArgPool' \subseteq Usable' /\ calleeFree' \subseteq CalleeSaved /\ freeInt' \cap CalleeSaved = {}
  BY CodeFactsKept DEF RegistersInv
<1>. QED  BY <1>1, <1>2, <1>3 DEF RegistersInv

(* The locals of a function that calls get registers its callees keep. *)
LEMMA LocalOfCaller ==
  ASSUME HasCalls, NEW l, NEW r \in RegisterFor(l)
  PROVE  Cells(r, IsWideLocal(l)) \subseteq calleeFree
<1>1. CASE IsWideLocal(l) = TRUE
  <2>1. PICK w, b : r \in TakePair(calleeFree, w, b)
    BY <1>1 DEF RegisterFor
  <2>2. Cells(r, TRUE) \subseteq calleeFree
    BY <2>1, PairIsWhole
  <2>. QED  BY <1>1, <2>2
<1>2. CASE IsWideLocal(l) = FALSE
  <2>1. PICK w, b : r \in TakeRegister(calleeFree, w, b)
    BY <1>2 DEF RegisterFor
  <2>2. r \in calleeFree
    BY <2>1, RegisterIsFree
  <2>. QED  BY <1>2, <2>2 DEF Cells
<1>. QED  BY <1>1, <1>2 DEF IsWideLocal

(* A local in a function that calls is given a callee-saved register. *)
LEMMA PlaceLocalRegisters ==
  ASSUME HomesInv, RegistersInv, PlaceLocal
  PROVE  RegistersInv'
<1>1. /\ code' = code /\ temps' = temps /\ DOMAIN locals' = DOMAIN locals
      /\ freeInt' \subseteq freeInt /\ calleeFree' \subseteq calleeFree
  <2>1. CASE UNCHANGED <<locals, freeInt, calleeFree, calleeSaved>>
    BY <2>1 DEF PlaceLocal
  <2>2. CASE ~UNCHANGED <<locals, freeInt, calleeFree, calleeSaved>>
    BY <2>2 DEF PlaceLocal
  <2>. QED  BY <2>1, <2>2
<1>2. ASSUME NEW l \in DOMAIN locals
      PROVE  /\ CellsOf(locals[l])' \subseteq Usable
             /\ HasCalls => CellsOf(locals[l])' \subseteq CalleeSaved
             /\ locals'[l].kind \in {"slot", "register", "none"}
  <2>1. CASE locals'[l] = locals[l]
    BY <2>1 DEF RegistersInv, CellsOf
  <2>2. CASE locals'[l] # locals[l]
    <3>1. PICK r \in RegisterFor(l) : locals'[l] = Placement("register", r, IsWideLocal(l))
      BY <2>2 DEF PlaceLocal
    <3>2. CellsOf(locals[l])' = Cells(r, IsWideLocal(l)) /\ locals'[l].kind = "register"
      BY <3>1 DEF CellsOf, Placement
    <3>3. Cells(r, IsWideLocal(l)) \subseteq freeInt \cup calleeFree
      BY LocalTakesFree
    <3>4. HasCalls => Cells(r, IsWideLocal(l)) \subseteq calleeFree
      BY LocalOfCaller
    <3>. QED  BY <3>2, <3>3, <3>4, CalleeSavedUsable DEF RegistersInv
  <2>. QED  BY <2>1, <2>2
<1>. QED  BY <1>1, <1>2, CodeFactsKept DEF RegistersInv

(* What a pool gives a value, and which pools it is asked of. *)
LEMMA OfferFacts ==
  ASSUME NEW t, NEW o \in Offers(t)
  PROVE  /\ WantsRegister(t)
         /\ o[1] = "args" => ~CallArg(t)
         /\ CallInRange(t) => o[1] = "callee"
<1>1. WantsRegister(t)
  BY DEF Offers
<1>2. PICK n \in DOMAIN PoolsFor(t) : o \in {PoolsFor(t)[n]} \X Offered(t, pools[PoolsFor(t)[n]])
  BY <1>1 DEF Offers
<1>3. o[1] = PoolsFor(t)[n]
  BY <1>2
<1>. DEFINE first  == IF CallInRange(t) THEN << >> ELSE <<"pool">>
            second == IF CallInRange(t) \/ CallArg(t) THEN << >> ELSE <<"args">>
            third  == IF IsPair(t) THEN <<"callee">> ELSE << >>
            names  == (IF CallInRange(t) THEN {} ELSE {"pool"}) \cup (IF CallInRange(t) \/ CallArg(t) THEN {} ELSE {"args"}) \cup {"callee"}
<1>4. first \in Seq(names) /\ second \in Seq(names) /\ third \in Seq(names)
  <2>1. first \in Seq(names)
    <3>1. ~CallInRange(t) => "pool" \in names
      OBVIOUS
    <3>. HIDE DEF names
    <3>. QED  BY <3>1
  <2>2. second \in Seq(names)
    <3>1. ~(CallInRange(t) \/ CallArg(t)) => "args" \in names
      OBVIOUS
    <3>. HIDE DEF names
    <3>. QED  BY <3>1
  <2>3. third \in Seq(names)
    <3>1. "callee" \in names
      OBVIOUS
    <3>. HIDE DEF names
    <3>. QED  BY <3>1
  <2>. QED  BY <2>1, <2>2, <2>3
<1>5. PoolsFor(t) = first \o second \o third
  BY DEF PoolsFor
<1>6. PoolsFor(t)[n] \in names
  <2>. HIDE DEF first, second, third, names
  <2>. QED  BY <1>4, <1>5
<1>. QED  BY <1>1, <1>3, <1>6

(* Crossing values and values of a block get registers of the pools.       *)
LEMMA PlaceTempRegisters ==
  ASSUME IInv, HomesInv, RegistersInv, PlaceCrossing \/ Grant
  PROVE  RegistersInv'
<1>1. UNCHANGED <<code, locals, freeInt, calleeFree>> /\ DOMAIN temps' = DOMAIN temps
  <2>1. CASE PlaceCrossing
    BY <2>1 DEF PlaceCrossing
  <2>2. CASE Grant
    BY <2>2 DEF Grant
  <2>. QED  BY <2>1, <2>2
<1>2. ASSUME NEW t \in DOMAIN temps
      PROVE  /\ CallArg(t) => CellsOf(temps[t])' \cap ArgPool = {}
             /\ temps'[t].kind \in {"slot", "register", "alias", "virtual", "none"}
  <2>1. CASE temps'[t] = temps[t]
    BY <2>1 DEF RegistersInv, CellsOf
  <2>2. CASE temps'[t] # temps[t] /\ PlaceCrossing
    <3>1. PICK r \in CrossingRegister(t) : temps'[t] = Placement("register", r, IsPair(t))
      BY <2>2 DEF PlaceCrossing
    <3>2. Cells(r, IsPair(t)) \subseteq freeInt \cup calleeFree
      BY CrossingTakesFree
    <3>. QED  BY <3>1, <3>2 DEF CellsOf, Placement, IInv, FreeApart
  <2>3. CASE temps'[t] # temps[t] /\ Grant
    <3>1. PICK o \in Offers(t) : temps'[t] = Placement("register", o[2], IsPair(t)) /\ phase = "scan"
      BY <2>3 DEF Grant, InScan
    <3>2. /\ o[1] \in PoolNames /\ Cells(o[2], IsPair(t)) \subseteq DOMAIN pools[o[1]]
          /\ o[1] = "args" => ~CallArg(t)
      BY OfferIsInPool, OfferFacts
    <3>3. DOMAIN pools[o[1]] \subseteq Base(o[1])
      BY <3>1, <3>2 DEF IInv, PoolsFree
    <3>4. o[1] # "args" => Base(o[1]) \cap ArgPool = {}
      BY <3>2 DEF Base, IInv, FreeApart, PoolNames
    <3>. QED  BY <3>1, <3>2, <3>3, <3>4 DEF CellsOf, Placement
  <2>. QED  BY <2>1, <2>2, <2>3
<1>3. \A l \in DOMAIN locals' : /\ CellsOf(locals[l])' \subseteq Usable'
                                /\ HasCalls' => CellsOf(locals[l])' \subseteq CalleeSaved
                                /\ locals'[l].kind \in {"slot", "register", "none"}
  BY <1>1, CodeFactsKept DEF RegistersInv, CellsOf
<1>. QED  BY <1>1, <1>2, <1>3, CodeFactsKept DEF RegistersInv

(* The other steps give no register to anything. *)
LEMMA NextRegisters == IInv /\ HomesInv /\ RegistersInv /\ [Next]_vars => RegistersInv'
<1>. SUFFICES ASSUME IInv, HomesInv, RegistersInv, [Next]_vars PROVE RegistersInv'
  OBVIOUS
<1>1. ASSUME UNCHANGED <<code, locals, temps, freeInt, calleeFree>> PROVE RegistersInv'
  BY <1>1, RegistersStay DEF RegistersInv, CellsOf
<1>2. CASE \/ NumberParameter \/ FinishArrival \/ UpdateLiveness \/ FinishCrossing
           \/ OpenBlock \/ Release \/ CloseBlock \/ FinishScan \/ FinishPlacement
  BY <1>1, <1>2 DEF NumberParameter, FinishArrival, UpdateLiveness, FinishCrossing, OpenBlock, Release, CloseBlock, FinishScan, FinishPlacement
<1>3. CASE Emission \/ UNCHANGED vars
  BY <1>1, <1>3, EmissionKeepsPlacement DEF vars, placementVars
<1>4. CASE PlaceLocal
  BY <1>4, PlaceLocalRegisters
<1>5. CASE PlaceCrossing \/ Grant
  BY <1>5, PlaceTempRegisters
<1>6. CASE PlaceAddresses
  <2>1. /\ UNCHANGED <<code, locals, freeInt, calleeFree>> /\ DOMAIN temps' = DOMAIN temps
        /\ \A t \in DOMAIN temps : temps'[t] = temps[t] \/ temps'[t].kind = "virtual"
    BY <1>6 DEF PlaceAddresses, AddressPlacement, Placement
  <2>. QED  BY <2>1, RegistersStay DEF RegistersInv, CellsOf
<1>7. CASE PlaceAliases
  <2>1. /\ UNCHANGED <<code, locals, freeInt, calleeFree>> /\ DOMAIN temps' = DOMAIN temps
        /\ \A t \in DOMAIN temps : temps'[t] = temps[t] \/ temps'[t].kind = "alias"
    BY <1>7 DEF PlaceAliases, AliasPlacement, Placement
  <2>. QED  BY <2>1, RegistersStay DEF RegistersInv, CellsOf
<1>8. CASE PlaceLocalField
  <2>1. /\ UNCHANGED <<code, temps, freeInt, calleeFree>> /\ DOMAIN locals' = DOMAIN locals
        /\ \A l \in DOMAIN locals : locals'[l] = locals[l] \/ locals'[l].kind \in {"slot", "none"}
    BY <1>8 DEF PlaceLocalField, Placement, Nowhere
  <2>. QED  BY <2>1, RegistersStay DEF RegistersInv, CellsOf
<1>9. CASE PlaceTempField
  <2>1. /\ UNCHANGED <<code, locals, freeInt, calleeFree>> /\ DOMAIN temps' = DOMAIN temps
        /\ \A t \in DOMAIN temps : temps'[t] = temps[t] \/ temps'[t].kind \in {"slot", "none"}
    BY <1>9 DEF PlaceTempField, Placement, Nowhere
  <2>. QED  BY <2>1, RegistersStay DEF RegistersInv, CellsOf
<1>. QED  BY <1>2, <1>3, <1>4, <1>5, <1>6, <1>7, <1>8, <1>9 DEF Next, Place, PlacementNext, Emission

-----------------------------------------------------------------------------
(* Registers apart.  A value is either one block's or lives across blocks. *)

(* The two kinds of values with a register of their own. *)
Crossing(t) == t \in DOMAIN temps /\ temps[t].kind = "register" /\ LivesAcross(t)
OfBlock(t)  == t \in DOMAIN temps /\ temps[t].kind = "register" /\ ~LivesAcross(t)
(* What the instruction defines. *)
ResAt(b, k) == InstrAt(b, k).res
(* The two have a register in common. *)
Meeting(t, u) == CellsOf(temps[t]) \cap CellsOf(temps[u]) # {}

(* A value that lives across blocks has its registers reserved wherever it   *)
(* is live, and shares none there with another.                            *)
CrossingKept(t) ==
  /\ \A b \in LiveBlocks(t) : CellsOf(temps[t]) \subseteq reserved[b]
  /\ SpansCall(t) => CellsOf(temps[t]) \subseteq CalleeSaved
  /\ \A u \in DOMAIN temps : u # t /\ Crossing(u) /\ LiveBlocks(t) \cap LiveBlocks(u) # {} => ~Meeting(t, u)

(* No block reserves what arguments are handed out from. *)
CrossingInv ==
  /\ DOMAIN reserved = Blocks(code) /\ \A b \in Blocks(code) : reserved[b] \cap ArgPool = {}
  /\ \A t \in DOMAIN temps : Crossing(t) => CrossingKept(t)

(* The instructions the scan has not come to. *)
Ahead(b, k) ==
  CASE phase = "block" -> \E n \in DOMAIN code.order : n >= cursor /\ code.order[n] = b
    [] phase = "scan"  -> (\E n \in DOMAIN code.order : n > cursor[1] /\ code.order[n] = b) \/ (b = Scanned /\ k >= cursor[2])
    [] OTHER           -> phase \in UnplacedPhases \cup {"crossing"}

(* What the instruction k of b defines, a value of that block, shares no     *)
(* register with a value reserved there nor with one defined while it is     *)
(* still wanted, and has a callee-saved one if it is wanted after a call.   *)
BlockValueKept(b, k) ==
  LET t == ResAt(b, k)
  IN  /\ CellsOf(temps[t]) \cap reserved[b] = {}
      /\ \A c \in DOMAIN code.blocks[b] : c > k /\ ReadAfter(b, c, t) =>
           /\ InstrAt(b, c).op = "call" => CellsOf(temps[t]) \subseteq CalleeSaved
           /\ OfBlock(ResAt(b, c)) => ~Meeting(t, ResAt(b, c))

(* Nothing the scan has not come to has a register of its block. *)
BlockValuesInv ==
  \A b \in Blocks(code) : \A k \in DOMAIN code.blocks[b] :
    OfBlock(ResAt(b, k)) => ~Ahead(b, k) /\ BlockValueKept(b, k)

(* While a block is scanned, every value still wanted is held, and what is   *)
(* held is in no pool.                                                     *)
HeldApart ==
  \A n \in DOMAIN held :
    /\ OfBlock(held[n].temp)
    /\ \E j \in DOMAIN code.blocks[Scanned] : j < cursor[2] /\ ResAt(Scanned, j) = held[n].temp
    /\ \A p \in DOMAIN pools : DOMAIN pools[p] \cap CellsOf(temps[held[n].temp]) = {}
    /\ \A m \in DOMAIN held : m # n => ~Meeting(held[m].temp, held[n].temp)

(* What has been defined and will be read is held. *)
WantedHeld ==
  \A j \in DOMAIN code.blocks[Scanned] :
    j < cursor[2] /\ OfBlock(ResAt(Scanned, j)) /\ ReadAfter(Scanned, cursor[2], ResAt(Scanned, j))
      => \E n \in DOMAIN held : held[n].temp = ResAt(Scanned, j)

(* The scan of a block, while it lasts. *)
ScanInv ==
  /\ phase = "block" => cursor \in Nat \ {0}
  /\ phase = "scan" =>
       /\ \E n, k : cursor = <<n, k>> /\ n \in DOMAIN code.order /\ k \in Nat \ {0}
       /\ \A p \in DOMAIN pools : DOMAIN pools[p] \cap reserved[Scanned] = {}
       /\ HeldApart /\ WantedHeld

(* Values that are wanted together are apart. *)
ApartInv == CrossingInv /\ BlockValuesInv /\ ScanInv

LEMMA AcrossKept ==
  ASSUME UNCHANGED <<code, liveVars>>
  PROVE  /\ \A t : LivesAcross(t)' = LivesAcross(t) /\ LiveBlocks(t)' = LiveBlocks(t) /\ SpansCall(t)' = SpansCall(t)
         /\ \A b, k : ResAt(b, k)' = ResAt(b, k)
         /\ \A b, k, t : ReadAfter(b, k, t)' = ReadAfter(b, k, t)
<1>1. liveIn' = liveIn /\ liveOut' = liveOut /\ code' = code
  BY DEF liveVars
<1>2. \A t : LivesAcross(t)' = LivesAcross(t) /\ LiveBlocks(t)' = LiveBlocks(t)
  BY <1>1 DEF LivesAcross, LiveBlocks, DefCount, PointsOf, Blocks
<1>3. Points' = Points /\ \A b, k : InstrAt(b, k)' = InstrAt(b, k)
  BY <1>1 DEF Points, InstrAt
<1>4. \A q : Position(q)' = Position(q)
  BY <1>1 DEF Position, Longest, Blocks
<1>5. \A t : IsRead(t)' = IsRead(t)
  BY <1>1 DEF IsRead, Some, InstrAt, Blocks
<1>6. CallPositions' = CallPositions
  BY <1>3, <1>4 DEF CallPositions
<1>7. \A t : DefPositions(t)' = DefPositions(t) /\ UsePositions(t)' = UsePositions(t)
  BY <1>3, <1>4 DEF DefPositions, UsePositions
<1>8. \A t : SpansCall(t)' = SpansCall(t)
  BY <1>5, <1>6, <1>7 DEF SpansCall
<1>9. \A b, k : ResAt(b, k)' = ResAt(b, k)
  BY <1>3 DEF ResAt
<1>10. \A b, k, t : ReadAfter(b, k, t)' = ReadAfter(b, k, t)
  BY <1>1 DEF ReadAfter, InstrAt
<1>. QED  BY <1>2, <1>8, <1>9, <1>10

(* A register home has cells. *)
LEMMA NoneYet ==
  ASSUME IInv, phase \in UnplacedPhases, NEW t \in DOMAIN temps
  PROVE  temps[t].kind # "register"
<1>1. CellsOf(temps[t]) = {}
  BY DEF IInv, TempsGiven
<1>. QED  BY <1>1 DEF CellsOf, Cells

LEMMA NoneApart ==
  ASSUME \A t \in DOMAIN temps : temps[t].kind # "register", DOMAIN reserved = Blocks(code),
         \A b \in Blocks(code) : reserved[b] \cap ArgPool = {}, phase \notin {"block", "scan"}
  PROVE  ApartInv
<1>1. \A t : ~Crossing(t) /\ ~OfBlock(t)
  BY DEF Crossing, OfBlock
<1>. QED  BY <1>1 DEF ApartInv, CrossingInv, BlockValuesInv, ScanInv

LEMMA InitApart == PlacementInit => ApartInv
<1>. SUFFICES ASSUME PlacementInit PROVE ApartInv
  OBVIOUS
<1>1. \A t \in DOMAIN temps : temps[t].kind # "register"
  BY DEF PlacementInit, Unplaced, Placement
<1>. QED  BY <1>1, NoneApart DEF PlacementInit

(* A step that gives no register and scans nothing. *)
LEMMA ApartStays ==
  ASSUME ApartInv, UNCHANGED <<code, liveVars, reserved>>, DOMAIN temps' = DOMAIN temps,
         \A t \in DOMAIN temps : temps'[t] = temps[t] \/ temps'[t].kind # "register",
         phase' = "block" => cursor' \in Nat \ {0}, phase' # "scan",
         \A b \in Blocks(code) : \A k \in DOMAIN code.blocks[b] : Ahead(b, k)' => Ahead(b, k)
  PROVE  ApartInv'
<1>1. \A t : Crossing(t)' => Crossing(t) /\ CellsOf(temps[t])' = CellsOf(temps[t])
  BY AcrossKept DEF Crossing, CellsOf
<1>2. \A t : OfBlock(t)' => OfBlock(t) /\ CellsOf(temps[t])' = CellsOf(temps[t])
  BY AcrossKept DEF OfBlock, CellsOf
<1>3. Blocks(code)' = Blocks(code)
  OBVIOUS
<1>4. CrossingInv'
  <2>1. DOMAIN reserved' = Blocks(code)' /\ \A b \in Blocks(code)' : reserved'[b] \cap ArgPool' = {}
    BY <1>3, ArgPoolKept DEF ApartInv, CrossingInv
  <2>2. ASSUME NEW t \in DOMAIN temps', Crossing(t)' PROVE CrossingKept(t)'
    <3>1. Crossing(t) /\ CrossingKept(t) /\ CellsOf(temps[t])' = CellsOf(temps[t])
      BY <1>1, <2>2 DEF ApartInv, CrossingInv
    <3>2. \A u : Crossing(u)' => Crossing(u) /\ Meeting(t, u)' = Meeting(t, u)
      BY <1>1, <3>1 DEF Meeting
    <3>. QED  BY <3>1, <3>2, AcrossKept DEF CrossingKept
  <2>. QED  BY <2>1, <2>2 DEF CrossingInv
<1>5. BlockValuesInv'
  <2>. SUFFICES ASSUME NEW b \in Blocks(code), NEW k \in DOMAIN code.blocks[b], OfBlock(ResAt(b, k))'
                PROVE  ~Ahead(b, k)' /\ BlockValueKept(b, k)'
    BY <1>3 DEF BlockValuesInv
  <2>1. OfBlock(ResAt(b, k)) /\ CellsOf(temps[ResAt(b, k)])' = CellsOf(temps[ResAt(b, k)]) /\ ResAt(b, k)' = ResAt(b, k)
    BY <1>2, AcrossKept
  <2>2. ~Ahead(b, k) /\ BlockValueKept(b, k)
    BY <2>1 DEF ApartInv, BlockValuesInv
  <2>3. \A c : OfBlock(ResAt(b, c))' => OfBlock(ResAt(b, c)) /\ Meeting(ResAt(b, k), ResAt(b, c))' = Meeting(ResAt(b, k), ResAt(b, c))
    BY <1>2, <2>1, AcrossKept DEF Meeting
  <2>4. BlockValueKept(b, k)'
    BY <2>1, <2>2, <2>3, AcrossKept DEF BlockValueKept, InstrAt
  <2>. QED  BY <2>2, <2>4
<1>. QED  BY <1>4, <1>5 DEF ApartInv, ScanInv

(* Until the crossing values are placed nothing has a register. *)
LEMMA EarlyApart ==
  ASSUME IInv, HomesInv, ApartInv, phase \in UnplacedPhases, phase' \in UnplacedPhases \cup {"crossing", "fields"},
         UNCHANGED <<code, reserved>>, DOMAIN temps' = DOMAIN temps,
         \A t \in DOMAIN temps : temps'[t] = temps[t] \/ temps'[t].kind \in {"virtual", "alias"}
  PROVE  ApartInv'
<1>1. \A t \in DOMAIN temps' : temps'[t].kind # "register"
  BY NoneYet
<1>2. /\ DOMAIN reserved' = Blocks(code)' /\ phase' \notin {"block", "scan"}
      /\ \A b \in Blocks(code)' : reserved'[b] \cap ArgPool' = {}
  BY ArgPoolKept DEF ApartInv, CrossingInv, UnplacedPhases
<1>3. \A t : ~Crossing(t)' /\ ~OfBlock(t)'
  BY <1>1 DEF Crossing, OfBlock
<1>. QED  BY <1>2, <1>3 DEF ApartInv, CrossingInv, BlockValuesInv, ScanInv

(* The register of a crossing value. *)
LEMMA CrossingChoice ==
  ASSUME HomesInv, RegistersInv, NEW t, NEW r \in CrossingRegister(t)
  PROVE  /\ CrossesBlocks(t)
         /\ \A b \in LiveBlocks(t) : Cells(r, IsPair(t)) \cap reserved[b] = {}
         /\ SpansCall(t) => Cells(r, IsPair(t)) \subseteq CalleeSaved
<1>1. CrossesBlocks(t)
  BY DEF CrossingRegister
<1>2. r \in OpenFor(freeInt, t) \/ r \in OpenFor(calleeFree, t)
  BY DEF CrossingRegister, LastOf
<1>3. SpansCall(t) => r \in OpenFor(calleeFree, t)
  BY DEF CrossingRegister, LastOf
<1>4. \A b \in LiveBlocks(t) : Cells(r, IsPair(t)) \cap reserved[b] = {}
  BY <1>2 DEF OpenFor
<1>5. r \in OpenFor(calleeFree, t) => Cells(r, IsPair(t)) \subseteq calleeFree
  BY DEF OpenFor, Cells
<1>. QED  BY <1>1, <1>3, <1>4, <1>5 DEF RegistersInv

(* A crossing value is given registers no block it is live in has reserved. *)
LEMMA PlaceCrossingApart ==
  ASSUME IInv, HomesInv, RegistersInv, ApartInv, PlaceCrossing
  PROVE  ApartInv'
<1>1. /\ phase = "crossing" /\ phase' = "crossing" /\ UNCHANGED <<code, liveVars>> /\ DOMAIN temps' = DOMAIN temps
  BY DEF PlaceCrossing
<1>2. CASE UNCHANGED <<temps, reserved>>
  <2>1. \A b, k : Ahead(b, k)
    BY <1>1 DEF Ahead
  <2>. QED  BY <1>1, <1>2, <2>1, ApartStays
<1>3. CASE ~UNCHANGED <<temps, reserved>>
  <2>0. PICK t : t = cursor
    OBVIOUS
  <2>1. PICK r \in CrossingRegister(t) :
          /\ temps' = [temps EXCEPT ![t] = Placement("register", r, IsPair(t))]
          /\ reserved' = [b \in DOMAIN reserved |-> reserved[b] \cup (IF b \in LiveBlocks(t) THEN Cells(r, IsPair(t)) ELSE {})]
    BY <1>3, <2>0 DEF PlaceCrossing
  <2>2. PICK given : given = Cells(r, IsPair(t))
    OBVIOUS
  <2>3. /\ CrossesBlocks(t) /\ \A b \in LiveBlocks(t) : given \cap reserved[b] = {}
        /\ SpansCall(t) => given \subseteq CalleeSaved
    BY <2>2, CrossingChoice
  <2>4. temps[t].kind = "slot" /\ LivesAcross(t)
    BY <2>3 DEF CrossesBlocks, LivesAcross
  <2>5. /\ DOMAIN reserved' = DOMAIN reserved
        /\ \A b \in DOMAIN reserved : reserved'[b] = reserved[b] \cup (IF b \in LiveBlocks(t) THEN given ELSE {})
    BY <2>1, <2>2
  <2>6. /\ t \in DOMAIN temps => CellsOf(temps[t])' = given
        /\ \A u \in DOMAIN temps : u # t => temps'[u] = temps[u] /\ CellsOf(temps[u])' = CellsOf(temps[u])
    BY <2>1, <2>2 DEF CellsOf, Placement
  <2>7. \A u : Crossing(u)' /\ u # t => Crossing(u)
    BY <1>1, <2>6, AcrossKept DEF Crossing
  <2>8. \A u : OfBlock(u)' => OfBlock(u) /\ u # t
    BY <1>1, <2>4, <2>6, AcrossKept DEF OfBlock
  <2>9. DOMAIN reserved = Blocks(code) /\ Blocks(code)' = Blocks(code) /\ \A u : LiveBlocks(u) \subseteq Blocks(code)
    BY <1>1 DEF ApartInv, CrossingInv, LiveBlocks
  <2>10. \A u : Crossing(u) => CrossingKept(u)
    BY DEF ApartInv, CrossingInv, Crossing
  <2>11. ASSUME NEW u, Crossing(u), u # t, LiveBlocks(t) \cap LiveBlocks(u) # {}
         PROVE  given \cap CellsOf(temps[u]) = {}
    <3>1. PICK b \in LiveBlocks(t) : b \in LiveBlocks(u)
      BY <2>11
    <3>2. CellsOf(temps[u]) \subseteq reserved[b]
      BY <2>10, <2>11, <3>1 DEF CrossingKept
    <3>. QED  BY <2>3, <3>1, <3>2
  <2>12. CrossingInv'
    <3>1. ASSUME NEW u \in DOMAIN temps, Crossing(u)' PROVE CrossingKept(u)'
      <4>1. CASE u = t
        <5>1. \A b \in LiveBlocks(t) : given \subseteq reserved'[b]
          BY <2>5, <2>9
        <5>2. \A v \in DOMAIN temps : v # t /\ Crossing(v)' /\ LiveBlocks(t) \cap LiveBlocks(v) # {} => given \cap CellsOf(temps[v])' = {}
          BY <2>6, <2>7, <2>11
        <5>. QED  BY <1>1, <2>3, <2>6, <4>1, <5>1, <5>2, AcrossKept DEF CrossingKept, Meeting
      <4>2. CASE u # t
        <5>1. Crossing(u) /\ CrossingKept(u) /\ CellsOf(temps[u])' = CellsOf(temps[u])
          BY <2>6, <2>7, <2>10, <3>1, <4>2
        <5>2. \A b \in LiveBlocks(u) : CellsOf(temps[u])' \subseteq reserved'[b]
          BY <2>5, <2>9, <5>1 DEF CrossingKept
        <5>3. \A v \in DOMAIN temps : v # u /\ Crossing(v)' /\ LiveBlocks(u) \cap LiveBlocks(v) # {} => CellsOf(temps[u])' \cap CellsOf(temps[v])' = {}
          <6>. SUFFICES ASSUME NEW v \in DOMAIN temps, v # u, Crossing(v)', LiveBlocks(u) \cap LiveBlocks(v) # {}
                        PROVE  CellsOf(temps[u])' \cap CellsOf(temps[v])' = {}
            OBVIOUS
          <6>1. CASE v = t
            BY <2>6, <2>11, <4>2, <5>1, <6>1
          <6>2. CASE v # t
            BY <2>6, <2>7, <5>1, <6>2 DEF CrossingKept, Meeting
          <6>. QED  BY <6>1, <6>2
        <5>. QED  BY <1>1, <5>1, <5>2, <5>3, AcrossKept DEF CrossingKept, Meeting
      <4>. QED  BY <4>1, <4>2
    <3>2. \A b \in Blocks(code) : reserved'[b] \cap ArgPool = {}
      <4>1. given \cap ArgPool = {}
        BY <2>2, CrossingTakesFree DEF IInv, FreeApart
      <4>. QED  BY <2>5, <2>9, <4>1 DEF ApartInv, CrossingInv
    <3>3. ArgPool' = ArgPool
      BY <1>1, ArgPoolKept
    <3>. QED  BY <1>1, <2>5, <2>9, <3>1, <3>2, <3>3 DEF CrossingInv
  <2>13. BlockValuesInv'
    <3>1. \A b \in Blocks(code) : \A k \in DOMAIN code.blocks[b] : ~OfBlock(ResAt(b, k))
      BY <1>1 DEF ApartInv, BlockValuesInv, Ahead
    <3>2. \A b \in Blocks(code) : \A k \in DOMAIN code.blocks[b] : ~OfBlock(ResAt(b, k))'
      BY <1>1, <2>8, <3>1, AcrossKept
    <3>. QED  BY <1>1, <2>9, <3>2 DEF BlockValuesInv
  <2>14. ScanInv'
    BY <1>1 DEF ScanInv
  <2>. QED  BY <2>12, <2>13, <2>14 DEF ApartInv
<1>. QED  BY <1>2, <1>3

-----------------------------------------------------------------------------
(* The scan of a block. *)

(* Opening a block: no value of it has a register yet. *)
LEMMA OpenBlockApart ==
  ASSUME IInv, HomesInv, ApartInv, OpenBlock
  PROVE  ApartInv'
<1>1. /\ phase = "block" /\ phase' = "scan" /\ cursor' = <<cursor, 1>> /\ held' = << >> /\ cursor <= Len(code.order)
      /\ UNCHANGED <<code, temps, liveVars, reserved>>
  BY DEF OpenBlock, EnterPhase
<1>2. cursor \in DOMAIN code.order
  BY <1>1, OrderFacts DEF ApartInv, ScanInv
<1>3. PICK b : b = code.order[cursor]
  OBVIOUS
<1>4. b \in Blocks(code) /\ Scanned' = b
  BY <1>1, <1>2, <1>3, OrderFacts DEF Scanned
<1>5. pools' = [pool   |-> Listed(freeInt \ reserved[b]),
                args   |-> Listed(IF HasCalls THEN ToSet(ArgRegisters) ELSE {}),
                callee |-> Listed(calleeFree \ reserved[b])]
  BY <1>3 DEF OpenBlock
<1>6. DOMAIN pools' = PoolNames /\ \A p \in PoolNames : DOMAIN pools'[p] \cap reserved[b] = {}
  BY <1>4, <1>5 DEF Listed, PoolNames, ArgPool, ApartInv, CrossingInv
<1>7. \A t : /\ Crossing(t)' = Crossing(t) /\ OfBlock(t)' = OfBlock(t) /\ CellsOf(temps[t])' = CellsOf(temps[t])
             /\ \A u : Meeting(t, u)' = Meeting(t, u)
  BY <1>1, AcrossKept DEF Crossing, OfBlock, CellsOf, Meeting
<1>8. CrossingInv'
  BY <1>1, <1>7, AcrossKept, ArgPoolKept DEF ApartInv, CrossingInv, CrossingKept
<1>9. \A c, k : Ahead(c, k)' => Ahead(c, k)
  BY <1>1, <1>2, <1>3, <1>4, OrderFacts DEF Ahead, ApartInv, ScanInv
<1>10. BlockValuesInv'
  <2>. SUFFICES ASSUME NEW c \in Blocks(code), NEW k \in DOMAIN code.blocks[c], OfBlock(ResAt(c, k))'
                PROVE  ~Ahead(c, k)' /\ BlockValueKept(c, k)'
    BY <1>1 DEF BlockValuesInv
  <2>1. OfBlock(ResAt(c, k)) /\ ~Ahead(c, k) /\ BlockValueKept(c, k)
    BY <1>1, <1>7, AcrossKept DEF ApartInv, BlockValuesInv
  <2>. QED  BY <1>1, <1>7, <1>9, <2>1, AcrossKept DEF BlockValueKept, InstrAt
<1>11. HeldApart'
  BY <1>1 DEF HeldApart
<1>12. WantedHeld'
  <2>1. \A j \in DOMAIN code.blocks[b] : ~(j < 1)
    BY <1>4, BlockBegins, PointFacts
  <2>. QED  BY <1>1, <1>4, <2>1 DEF WantedHeld
<1>. QED  BY <1>1, <1>2, <1>4, <1>6, <1>8, <1>10, <1>11, <1>12 DEF ApartInv, ScanInv

(* What is left after taking the element n out, one by one. *)
LEMMA RemovedAt ==
  ASSUME NEW S, NEW s \in Seq(S), NEW n \in DOMAIN s
  PROVE  /\ DOMAIN RemoveAt(s, n) = 1..(Len(s) - 1)
         /\ \A k \in 1..(Len(s) - 1) : RemoveAt(s, n)[k] = s[IF k < n THEN k ELSE k + 1]
<1>. DEFINE front == SubSeq(s, 1, n - 1)
            rest  == SubSeq(s, n + 1, Len(s))
<1>1. /\ front \in Seq(S) /\ Len(front) = n - 1
      /\ \A k \in 1..(n - 1) : front[k] = s[k]
  OBVIOUS
<1>2. /\ rest \in Seq(S) /\ Len(rest) = Len(s) - n
      /\ \A k \in 1..(Len(s) - n) : rest[k] = s[n + k]
  OBVIOUS
<1>3. RemoveAt(s, n) = front \o rest
  BY DEF RemoveAt
<1>. HIDE DEF front, rest
<1>4. DOMAIN RemoveAt(s, n) = 1..(Len(s) - 1)
  BY <1>1, <1>2, <1>3
<1>5. ASSUME NEW k \in 1..(Len(s) - 1)
      PROVE  RemoveAt(s, n)[k] = s[IF k < n THEN k ELSE k + 1]
  <2>1. CASE k < n
    BY <1>1, <1>2, <1>3, <2>1
  <2>2. CASE k >= n
    <3>1. k - (n - 1) \in 1..(Len(s) - n)
      BY <2>2
    <3>2. (front \o rest)[k] = rest[k - (n - 1)]
      <4>1. Len(front) = n - 1 /\ Len(rest) = Len(s) - n
        BY <1>1, <1>2
      <4>2. \A i \in 1..(Len(front) + Len(rest)) :
              (front \o rest)[i] = IF i <= Len(front) THEN front[i] ELSE rest[i - Len(front)]
        BY <1>1, <1>2, ConcatProperties
      <4>. QED  BY <4>1, <4>2, <2>2
    <3>3. rest[k - (n - 1)] = s[n + (k - (n - 1))]
      BY <1>2, <3>1
    <3>4. n + (k - (n - 1)) = k + 1 /\ ~(k < n)
      BY <2>2
    <3>. QED  BY <1>3, <3>2, <3>3, <3>4
  <2>. QED  BY <2>1, <2>2
<1>. QED  BY <1>4, <1>5

(* Where the scan stands. *)
LEMMA ScanAt ==
  ASSUME HomesInv, ApartInv, phase = "scan"
  PROVE  /\ cursor = <<cursor[1], cursor[2]>> /\ cursor[1] \in DOMAIN code.order /\ cursor[2] \in Nat \ {0}
         /\ Scanned \in Blocks(code) /\ Len(code.blocks[Scanned]) \in Nat
         /\ DOMAIN code.blocks[Scanned] = 1..Len(code.blocks[Scanned])
<1>1. PICK n, k : cursor = <<n, k>> /\ n \in DOMAIN code.order /\ k \in Nat \ {0}
  BY DEF ApartInv, ScanInv
<1>2. Scanned \in Blocks(code)
  BY <1>1, OrderFacts DEF Scanned
<1>. QED  BY <1>1, <1>2, BlockBegins, PointFacts

(* No read of a value in its block comes after the last one. *)
LEMMA LastUseIsLast ==
  ASSUME HomesInv, ApartInv, phase = "scan", NEW t
  PROVE  /\ LastUse(t) \in Nat
         /\ \A k \in Nat : ReadAfter(Scanned, k, t) => LastUse(t) > k
<1>. DEFINE uses == {0} \cup {k \in DOMAIN code.blocks[Scanned] : t \in Operands(InstrAt(Scanned, k))}
<1>1. Len(code.blocks[Scanned]) \in Nat /\ DOMAIN code.blocks[Scanned] = 1..Len(code.blocks[Scanned])
  BY ScanAt
<1>2. uses \in SUBSET (0..Len(code.blocks[Scanned])) /\ uses # {}
  BY <1>1
<1>3. LastUse(t) \in uses /\ \A y \in uses : LastUse(t) >= y
  <2>1. LastUse(t) = Max(uses)
    BY DEF LastUse
  <2>. HIDE DEF uses
  <2>. QED  BY <1>1, <1>2, <2>1, GreatestNumber
<1>4. ASSUME NEW k \in Nat, ReadAfter(Scanned, k, t) PROVE LastUse(t) > k
  <2>1. PICK m \in DOMAIN code.blocks[Scanned] : m > k /\ t \in Operands(InstrAt(Scanned, m))
    BY <1>4 DEF ReadAfter
  <2>2. m \in uses
    BY <2>1
  <2>3. LastUse(t) >= m /\ LastUse(t) \in Nat /\ m \in Nat
    BY <1>1, <1>2, <1>3, <2>2
  <2>. QED  BY <2>1, <2>3
<1>. QED  BY <1>1, <1>3, <1>4

(* What is expired is read no more. *)
LEMMA ExpiredIsRead ==
  ASSUME HomesInv, ApartInv, phase = "scan", NEW h, Expired(h)
  PROVE  ~ReadAfter(Scanned, cursor[2], h.temp)
<1>1. cursor[2] \in Nat
  BY ScanAt
<1>. QED  BY <1>1, LastUseIsLast DEF Expired

(* The parts of the invariant that depend on neither cursor nor pools. *)
LEMMA ApartWhileScanning ==
  ASSUME ApartInv, UNCHANGED <<code, temps, liveVars, reserved>>,
         \A b \in Blocks(code) : \A k \in DOMAIN code.blocks[b] : Ahead(b, k)' => Ahead(b, k)
  PROVE  /\ CrossingInv' /\ BlockValuesInv'
         /\ \A t : /\ OfBlock(t)' = OfBlock(t) /\ CellsOf(temps[t])' = CellsOf(temps[t])
                   /\ \A u : Meeting(t, u)' = Meeting(t, u)
<1>1. \A t : /\ Crossing(t)' = Crossing(t) /\ OfBlock(t)' = OfBlock(t) /\ CellsOf(temps[t])' = CellsOf(temps[t])
             /\ \A u : Meeting(t, u)' = Meeting(t, u)
  BY AcrossKept DEF Crossing, OfBlock, CellsOf, Meeting
<1>2. CrossingInv'
  BY <1>1, AcrossKept, ArgPoolKept DEF ApartInv, CrossingInv, CrossingKept
<1>3. BlockValuesInv'
  <2>. SUFFICES ASSUME NEW c \in Blocks(code), NEW k \in DOMAIN code.blocks[c], OfBlock(ResAt(c, k))'
                PROVE  ~Ahead(c, k)' /\ BlockValueKept(c, k)'
    BY DEF BlockValuesInv
  <2>1. OfBlock(ResAt(c, k)) /\ ~Ahead(c, k) /\ BlockValueKept(c, k)
    BY <1>1, AcrossKept DEF ApartInv, BlockValuesInv
  <2>. QED  BY <1>1, <2>1, AcrossKept DEF BlockValueKept, InstrAt
<1>. QED  BY <1>1, <1>2, <1>3

(* What is held has a register of the pool it came from. *)
LEMMA HeldFacts ==
  ASSUME IInv, phase = "scan"
  PROVE  /\ held \in Seq([temp : DOMAIN temps, from : PoolNames]) /\ DOMAIN held = 1..Len(held) /\ Len(held) \in Nat
         /\ \A n \in DOMAIN held : /\ held[n].from \in PoolNames /\ held[n].temp \in DOMAIN temps
                                   /\ temps[held[n].temp].kind = "register"
                                   /\ CellsOf(temps[held[n].temp]) \subseteq Base(held[n].from)
<1>. DEFINE Held == [temp : DOMAIN temps, from : PoolNames]
<1>1. held \in Seq(Held)
  BY DEF IInv, HeldFromPools
<1>2. DOMAIN held = 1..Len(held) /\ Len(held) \in Nat
  BY <1>1
<1>3. \A n \in DOMAIN held : held[n] \in Held
  BY <1>1, <1>2, ElementOfSeq
<1>. QED  BY <1>1, <1>2, <1>3 DEF IInv, HeldFromPools

(* The three pools have no register in common. *)
LEMMA BasesApart ==
  ASSUME IInv, RegistersInv, NEW p \in PoolNames, NEW q \in PoolNames, p # q
  PROVE  Base(p) \cap Base(q) = {}
<1>1. freeInt \cap calleeFree = {} /\ freeInt \cap ArgPool = {} /\ calleeFree \cap ArgPool = {}
  BY DEF RegistersInv, IInv, FreeApart
<1>. QED  BY <1>1 DEF Base, PoolNames

(* What was read last here is let go, and only that. *)
LEMMA ReleaseApart ==
  ASSUME IInv, HomesInv, RegistersInv, ApartInv, Release
  PROVE  ApartInv'
<1>1. /\ phase = "scan" /\ phase' = "scan" /\ UNCHANGED <<code, cursor, temps, liveVars, reserved>> /\ Scanned' = Scanned
  BY DEF Release, InScan, Scanned
<1>2. \A b, k : Ahead(b, k)' = Ahead(b, k)
  BY <1>1 DEF Ahead
<1>3. /\ CrossingInv' /\ BlockValuesInv'
      /\ \A t : /\ OfBlock(t)' = OfBlock(t) /\ CellsOf(temps[t])' = CellsOf(temps[t])
                /\ \A u : Meeting(t, u)' = Meeting(t, u)
  BY <1>1, <1>2, ApartWhileScanning
<1>4. PICK n \in DOMAIN held : /\ Expired(held[n])
                               /\ pools' = [pools EXCEPT ![held[n].from] = Back(@, temps[held[n].temp])]
                               /\ held' = RemoveAt(held, n)
  BY DEF Release
<1>5. /\ held \in Seq([temp : DOMAIN temps, from : PoolNames]) /\ DOMAIN held = 1..Len(held) /\ Len(held) \in Nat
      /\ \A m \in DOMAIN held : held[m].from \in PoolNames /\ CellsOf(temps[held[m].temp]) \subseteq Base(held[m].from)
  BY <1>1, HeldFacts
<1>6. PICK from, given : from = held[n].from /\ given = CellsOf(temps[held[n].temp])
  OBVIOUS
<1>7. DOMAIN pools = PoolNames /\ \A p \in PoolNames : DOMAIN pools[p] \subseteq Base(p)
  BY <1>1 DEF IInv, PoolsFree
<1>8. /\ DOMAIN pools' = PoolNames
      /\ DOMAIN pools'[from] = DOMAIN pools[from] \cup given
      /\ \A p \in PoolNames \ {from} : pools'[p] = pools[p]
  <2>1. pools' = [pools EXCEPT ![from] = Back(pools[from], temps[held[n].temp])]
    BY <1>4, <1>6
  <2>2. DOMAIN Back(pools[from], temps[held[n].temp]) = DOMAIN pools[from] \cup given
    BY <1>6 DEF Back
  <2>. QED  BY <1>5, <1>6, <1>7, <2>1, <2>2
<1>9. /\ DOMAIN held' = 1..(Len(held) - 1)
      /\ \A k \in 1..(Len(held) - 1) : held'[k] = held[IF k < n THEN k ELSE k + 1]
  BY <1>4, <1>5, RemovedAt
<1>10. \A k \in DOMAIN held' : (IF k < n THEN k ELSE k + 1) \in DOMAIN held \ {n}
  BY <1>5, <1>9
<1>11. HeldApart
  BY <1>1 DEF ApartInv, ScanInv
<1>12. given \cap reserved[Scanned] = {}
  <2>1. PICK j \in DOMAIN code.blocks[Scanned] : ResAt(Scanned, j) = held[n].temp /\ OfBlock(held[n].temp)
    BY <1>11 DEF HeldApart
  <2>. QED  BY <1>1, <1>6, <2>1, ScanAt DEF ApartInv, BlockValuesInv, BlockValueKept
<1>13. ASSUME NEW m \in DOMAIN held \ {n}
       PROVE  /\ OfBlock(held[m].temp)
              /\ \E j \in DOMAIN code.blocks[Scanned] : j < cursor[2] /\ ResAt(Scanned, j) = held[m].temp
              /\ \A p \in DOMAIN pools' : DOMAIN pools'[p] \cap CellsOf(temps[held[m].temp]) = {}
              /\ \A l \in DOMAIN held \ {n} : l # m => ~Meeting(held[l].temp, held[m].temp)
  <2>1. given \cap CellsOf(temps[held[m].temp]) = {}
    BY <1>6, <1>11 DEF HeldApart, Meeting
  <2>2. \A p \in PoolNames : DOMAIN pools[p] \cap CellsOf(temps[held[m].temp]) = {}
    BY <1>7, <1>11 DEF HeldApart
  <2>3. \A p \in DOMAIN pools' : DOMAIN pools'[p] \cap CellsOf(temps[held[m].temp]) = {}
    BY <1>8, <2>1, <2>2
  <2>4. OfBlock(held[m].temp)
    BY <1>11 DEF HeldApart
  <2>. QED  BY <1>11, <2>3, <2>4 DEF HeldApart
<1>14. HeldApart'
  <2>. SUFFICES ASSUME NEW k \in DOMAIN held'
                PROVE  /\ OfBlock(held'[k].temp)
                       /\ \E j \in DOMAIN code.blocks[Scanned] : j < cursor[2] /\ ResAt(Scanned, j) = held'[k].temp
                       /\ \A p \in DOMAIN pools' : DOMAIN pools'[p] \cap CellsOf(temps[held'[k].temp]) = {}
                       /\ \A l \in DOMAIN held' : l # k => ~Meeting(held'[l].temp, held'[k].temp)
    BY <1>1, <1>3, AcrossKept DEF HeldApart, CellsOf, Meeting
  <2>1. PICK m \in DOMAIN held \ {n} : m = (IF k < n THEN k ELSE k + 1) /\ held'[k] = held[m]
    BY <1>9, <1>10
  <2>2. OfBlock(held'[k].temp)
    BY <1>13, <2>1
  <2>3. ASSUME NEW l \in DOMAIN held', l # k PROVE ~Meeting(held'[l].temp, held'[k].temp)
    <3>1. PICK i \in DOMAIN held \ {n} : i = (IF l < n THEN l ELSE l + 1) /\ held'[l] = held[i]
      BY <1>9, <1>10
    <3>2. i # m
      BY <1>5, <1>9, <2>1, <2>3, <3>1
    <3>. QED  BY <1>13, <2>1, <3>1, <3>2
  <2>. QED  BY <1>13, <2>1, <2>2, <2>3
<1>15. WantedHeld'
  <2>. SUFFICES ASSUME NEW j \in DOMAIN code.blocks[Scanned], j < cursor[2], OfBlock(ResAt(Scanned, j)),
                       ReadAfter(Scanned, cursor[2], ResAt(Scanned, j))
                PROVE  \E k \in DOMAIN held' : held'[k].temp = ResAt(Scanned, j)
    BY <1>1, <1>3, AcrossKept DEF WantedHeld
  <2>1. PICK m \in DOMAIN held : held[m].temp = ResAt(Scanned, j)
    BY <1>1 DEF ApartInv, ScanInv, WantedHeld
  <2>2. m # n
    BY <1>1, <1>4, <2>1, ExpiredIsRead
  <2>3. PICK k \in DOMAIN held' : (IF k < n THEN k ELSE k + 1) = m
    <3>1. CASE m < n
      BY <1>5, <1>9, <3>1
    <3>2. CASE m > n
      <4>1. m - 1 \in DOMAIN held' /\ (IF m - 1 < n THEN m - 1 ELSE (m - 1) + 1) = m
        BY <1>5, <1>9, <3>2
      <4>. QED  BY <4>1
    <3>. QED  BY <1>5, <2>2, <3>1, <3>2
  <2>4. held'[k] = held[m]
    BY <1>9, <2>3
  <2>. QED  BY <2>1, <2>4
<1>16. \A p \in DOMAIN pools' : DOMAIN pools'[p] \cap reserved'[Scanned'] = {}
  <2>1. \A p \in PoolNames : DOMAIN pools[p] \cap reserved[Scanned] = {}
    BY <1>1, <1>7 DEF ApartInv, ScanInv
  <2>. QED  BY <1>1, <1>8, <1>12, <2>1
<1>17. \E i, k : cursor' = <<i, k>> /\ i \in DOMAIN code'.order /\ k \in Nat \ {0}
  BY <1>1 DEF ApartInv, ScanInv
<1>. QED  BY <1>1, <1>3, <1>14, <1>15, <1>16, <1>17 DEF ApartInv, ScanInv

(* A step of the scan: the value defined here gets no register, or one out   *)
(* of one pool.                                                            *)
Granted(t, from, given) ==
  /\ \A u \in DOMAIN temps : u # t => temps'[u] = temps[u]
  /\ t \in DOMAIN temps /\ temps[t].kind = "slot" /\ temps'[t].kind = "register" /\ CellsOf(temps'[t]) = given
  /\ from \in PoolNames /\ given \subseteq DOMAIN pools[from]
  /\ WantsRegister(t) /\ (CallInRange(t) => from = "callee")
  /\ DOMAIN pools' = DOMAIN pools /\ DOMAIN pools'[from] = DOMAIN pools[from] \ given
  /\ \A p \in PoolNames \ {from} : pools'[p] = pools[p]
  /\ held' = Append(held, [temp |-> t, from |-> from])

(* What a grant changes. *)
LEMMA GrantFacts ==
  ASSUME IInv, Grant, NEW t, t = Now.res
  PROVE  /\ phase = "scan" /\ phase' = "scan" /\ cursor' = <<cursor[1], cursor[2] + 1>> /\ cursor[2] <= Len(code.blocks[Scanned])
         /\ UNCHANGED <<code, liveVars, reserved>> /\ DOMAIN temps' = DOMAIN temps /\ Scanned' = Scanned
         /\ UNCHANGED <<temps, pools, held>> \/ \E from, given : Granted(t, from, given)
<1>1. /\ phase = "scan" /\ phase' = "scan" /\ cursor' = <<cursor[1], cursor[2] + 1>> /\ cursor[2] <= Len(code.blocks[Scanned])
      /\ UNCHANGED <<code, liveVars, reserved>> /\ DOMAIN temps' = DOMAIN temps
  BY DEF Grant, InScan
<1>2. Scanned' = Scanned
  BY <1>1 DEF Scanned
<1>3. CASE Offers(t) = {}
  BY <1>1, <1>2, <1>3 DEF Grant, scanVars
<1>4. CASE Offers(t) # {}
  <2>1. PICK o \in Offers(t) : \E p \in {o[1]} : \E r \in {o[2]} :
          /\ temps' = [temps EXCEPT ![t] = Placement("register", r, IsPair(t))]
          /\ pools' = [pools EXCEPT ![p] = [q \in DOMAIN @ \ Cells(r, IsPair(t)) |-> @[q]]]
          /\ held' = Append(held, [temp |-> t, from |-> p])
    BY <1>4 DEF Grant
  <2>2. PICK from, given : from = o[1] /\ given = Cells(o[2], IsPair(t))
    OBVIOUS
  <2>3. /\ temps' = [temps EXCEPT ![t] = Placement("register", o[2], IsPair(t))]
        /\ pools' = [pools EXCEPT ![from] = [q \in DOMAIN pools[from] \ given |-> pools[from][q]]]
        /\ held' = Append(held, [temp |-> t, from |-> from])
    BY <2>1, <2>2
  <2>4. /\ t \in DOMAIN temps /\ temps[t].kind = "slot" /\ from \in PoolNames /\ given \subseteq DOMAIN pools[from]
    BY <2>2, OfferIsInPool
  <2>5. WantsRegister(t) /\ (CallInRange(t) => from = "callee")
    BY <2>2, OfferFacts
  <2>6. /\ \A u \in DOMAIN temps : u # t => temps'[u] = temps[u]
        /\ temps'[t].kind = "register" /\ CellsOf(temps'[t]) = given
    BY <2>2, <2>3, <2>4 DEF CellsOf, Placement
  <2>7. DOMAIN pools = PoolNames
    BY <1>1 DEF IInv, PoolsFree
  <2>8. DOMAIN pools' = DOMAIN pools /\ DOMAIN pools'[from] = DOMAIN pools[from] \ given /\ \A p \in PoolNames \ {from} : pools'[p] = pools[p]
    BY <2>3, <2>4, <2>7
  <2>9. Granted(t, from, given)
    BY <2>3, <2>4, <2>5, <2>6, <2>8 DEF Granted
  <2>. QED  BY <1>1, <1>2, <2>9
<1>. QED  BY <1>3, <1>4

(* The scan has come one instruction further. *)
LEMMA ScanGoesOn ==
  ASSUME HomesInv, ApartInv, phase = "scan", phase' = "scan", code' = code, Scanned' = Scanned,
         cursor' = <<cursor[1], cursor[2] + 1>>, cursor[2] <= Len(code.blocks[Scanned]),
         NEW b, NEW k, b = Scanned, k = cursor[2]
  PROVE  /\ \A c : \A m \in Nat : Ahead(c, m)' => Ahead(c, m)
         /\ b \in Blocks(code) /\ k \in DOMAIN code.blocks[b] /\ k \in Nat /\ DOMAIN code.blocks[b] \subseteq Nat
         /\ \A m \in DOMAIN code.blocks[b] : m >= k => Ahead(b, m)
         /\ ~Ahead(b, k)'
         /\ \E n, m : cursor' = <<n, m>> /\ n \in DOMAIN code'.order /\ m \in Nat \ {0}
         /\ cursor'[2] = k + 1
<1>1. /\ cursor[1] \in DOMAIN code.order /\ k \in Nat \ {0} /\ b \in Blocks(code)
      /\ Len(code.blocks[b]) \in Nat /\ DOMAIN code.blocks[b] = 1..Len(code.blocks[b])
  BY ScanAt
<1>2. cursor'[1] = cursor[1] /\ cursor'[2] = k + 1
  OBVIOUS
<1>3. ASSUME NEW c, NEW m \in Nat, Ahead(c, m)' PROVE Ahead(c, m)
  <2>1. (\E n \in DOMAIN code.order : n > cursor[1] /\ code.order[n] = c) \/ (c = Scanned /\ m >= k + 1)
    BY <1>2, <1>3 DEF Ahead
  <2>2. m >= k + 1 => m >= k
    BY <1>1
  <2>. QED  BY <2>1, <2>2 DEF Ahead
<1>4. ~Ahead(b, k)'
  <2>1. \A n \in DOMAIN code.order : n > cursor[1] => code.order[n] # b
    BY <1>1, OrderFacts DEF Scanned
  <2>2. ~(k >= k + 1)
    BY <1>1
  <2>. QED  BY <1>2, <2>1, <2>2 DEF Ahead
<1>5. k \in DOMAIN code.blocks[b] /\ DOMAIN code.blocks[b] \subseteq Nat /\ k + 1 \in Nat \ {0}
  BY <1>1
<1>6. \A m \in DOMAIN code.blocks[b] : m >= k => Ahead(b, m)
  BY DEF Ahead
<1>. QED  BY <1>1, <1>2, <1>3, <1>4, <1>5, <1>6

LEMMA ReadFurther ==
  ASSUME NEW b, NEW k \in Nat, NEW t, DOMAIN code.blocks[b] \subseteq Nat, ReadAfter(b, k + 1, t)
  PROVE  ReadAfter(b, k, t)
<1>1. PICK m \in DOMAIN code.blocks[b] : m > k + 1 /\ t \in Operands(InstrAt(b, m))
  BY DEF ReadAfter
<1>2. m > k
  BY <1>1
<1>. QED  BY <1>1, <1>2 DEF ReadAfter

(* The step that gives nothing. *)
LEMMA NothingGranted ==
  ASSUME IInv, HomesInv, ApartInv, Grant, UNCHANGED <<temps, pools, held>>
  PROVE  ApartInv'
<1>0. PICK b, k : b = Scanned /\ k = cursor[2]
  OBVIOUS
<1>1. /\ phase = "scan" /\ phase' = "scan" /\ cursor' = <<cursor[1], cursor[2] + 1>> /\ k <= Len(code.blocks[b])
      /\ UNCHANGED <<code, liveVars, reserved>> /\ Scanned' = b
  BY <1>0, GrantFacts
<1>2. /\ \A c : \A m \in Nat : Ahead(c, m)' => Ahead(c, m)
      /\ b \in Blocks(code) /\ k \in DOMAIN code.blocks[b] /\ k \in Nat /\ DOMAIN code.blocks[b] \subseteq Nat
      /\ \A m \in DOMAIN code.blocks[b] : m >= k => Ahead(b, m)
      /\ \E n, m : cursor' = <<n, m>> /\ n \in DOMAIN code'.order /\ m \in Nat \ {0}
      /\ cursor'[2] = k + 1
  BY <1>0, <1>1, ScanGoesOn
<1>3. \A c \in Blocks(code) : \A m \in DOMAIN code.blocks[c] : m \in Nat
  BY BlockBegins, PointFacts
<1>4. /\ CrossingInv' /\ BlockValuesInv'
      /\ \A t : /\ OfBlock(t)' = OfBlock(t) /\ CellsOf(temps[t])' = CellsOf(temps[t])
                /\ \A u : Meeting(t, u)' = Meeting(t, u)
  BY <1>1, <1>2, <1>3, ApartWhileScanning
<1>5. HeldApart /\ WantedHeld
  BY <1>1 DEF ApartInv, ScanInv
<1>6. HeldApart'
  <2>1. \A j \in DOMAIN code.blocks[b] : j < k => j < k + 1
    BY <1>2
  <2>. QED  BY <1>0, <1>1, <1>2, <1>4, <1>5, <2>1, AcrossKept DEF HeldApart
<1>7. WantedHeld'
  <2>. SUFFICES ASSUME NEW j \in DOMAIN code.blocks[b], j < k + 1, OfBlock(ResAt(b, j)), ReadAfter(b, k + 1, ResAt(b, j))
                PROVE  \E n \in DOMAIN held : held[n].temp = ResAt(b, j)
    BY <1>1, <1>2, <1>4, AcrossKept DEF WantedHeld
  <2>1. ~Ahead(b, j)
    BY <1>2 DEF ApartInv, BlockValuesInv
  <2>2. j < k
    BY <1>2, <2>1
  <2>3. ReadAfter(b, k, ResAt(b, j))
    BY <1>2, ReadFurther
  <2>. QED  BY <1>0, <1>5, <2>2, <2>3 DEF WantedHeld
<1>8. \A p \in DOMAIN pools' : DOMAIN pools'[p] \cap reserved'[Scanned'] = {}
  BY <1>0, <1>1 DEF ApartInv, ScanInv
<1>. QED  BY <1>1, <1>2, <1>4, <1>6, <1>7, <1>8 DEF ApartInv, ScanInv

(* What is granted a register is a value of this block, defined here alone. *)
LEMMA GrantedIsOfBlock ==
  ASSUME HomesInv, DefinitionsReachTheEnd, NEW b \in Blocks(code), NEW k \in DOMAIN code.blocks[b],
         NEW t, t = ResAt(b, k), b = Scanned, WantsRegister(t), phase = "scan"
  PROVE  /\ ~LivesAcross(t)
         /\ \A c \in Blocks(code) : \A m \in DOMAIN code.blocks[c] : ResAt(c, m) = t => c = b /\ m = k
<1>1. <<b, k>> \in Points /\ InstrAt(b, k).res = t
  BY PointsAre DEF IsPoint, ResAt
<1>2. t \in DOMAIN temps /\ DefCount(code, t) = 1 /\ t \notin liveOut[b]
  BY DEF WantsRegister
<1>3. t # NoTemp
  BY <1>2 DEF HomesInv, Temps, NoTemp
<1>4. ~LivesAcross(t)
  <2>1. <<b, k>>[1] = b /\ <<b, k>>[2] = k
    OBVIOUS
  <2>2. PastLiveness
    BY DEF PastLiveness
  <2>. QED  BY <1>1, <1>2, <1>3, <2>1, <2>2 DEF DefinitionsReachTheEnd
<1>5. ASSUME NEW c \in Blocks(code), NEW m \in DOMAIN code.blocks[c], ResAt(c, m) = t PROVE c = b /\ m = k
  <2>1. <<c, m>> \in Points /\ InstrAt(c, m).res = t
    BY <1>5, PointsAre DEF IsPoint, ResAt
  <2>2. <<c, m>> = <<b, k>>
    BY <1>1, <1>2, <2>1, DefinedInOnePlace
  <2>. QED  BY <2>2
<1>. QED  BY <1>4, <1>5

(* What is granted was in a pool, so nothing wanted is in it. *)
LEMMA SomethingGranted ==
  ASSUME IInv, HomesInv, RegistersInv, ApartInv, DefinitionsReachTheEnd, Grant,
         NEW t, t = Now.res, NEW from, NEW given, Granted(t, from, given)
  PROVE  ApartInv'
<1>0. PICK b, k : b = Scanned /\ k = cursor[2]
  OBVIOUS
<1>1. /\ phase = "scan" /\ phase' = "scan" /\ cursor' = <<cursor[1], cursor[2] + 1>> /\ k <= Len(code.blocks[b])
      /\ UNCHANGED <<code, liveVars, reserved>> /\ DOMAIN temps' = DOMAIN temps /\ Scanned' = b
  BY <1>0, GrantFacts
<1>2. /\ \A c : \A m \in Nat : Ahead(c, m)' => Ahead(c, m)
      /\ b \in Blocks(code) /\ k \in DOMAIN code.blocks[b] /\ k \in Nat /\ DOMAIN code.blocks[b] \subseteq Nat
      /\ \A m \in DOMAIN code.blocks[b] : m >= k => Ahead(b, m)
      /\ ~Ahead(b, k)'
      /\ \E n, m : cursor' = <<n, m>> /\ n \in DOMAIN code'.order /\ m \in Nat \ {0}
      /\ cursor'[2] = k + 1
  BY <1>0, <1>1, ScanGoesOn
<1>3. \A c \in Blocks(code) : \A m \in DOMAIN code.blocks[c] : m \in Nat
  BY BlockBegins, PointFacts
<1>4. t = ResAt(b, k)
  BY <1>0 DEF Now, ResAt
<1>5. /\ ~LivesAcross(t)
      /\ \A c \in Blocks(code) : \A m \in DOMAIN code.blocks[c] : ResAt(c, m) = t => c = b /\ m = k
  BY <1>0, <1>1, <1>2, <1>4, GrantedIsOfBlock DEF Granted
<1>6. /\ OfBlock(t)' /\ CellsOf(temps[t])' = given /\ ~OfBlock(t) /\ t \in DOMAIN temps
      /\ \A u : u # t => OfBlock(u)' = OfBlock(u)
      /\ \A u : Crossing(u)' = Crossing(u)
      /\ \A u \in DOMAIN temps : u # t => CellsOf(temps[u])' = CellsOf(temps[u])
  <2>1. OfBlock(t)' /\ CellsOf(temps[t])' = given /\ ~OfBlock(t) /\ t \in DOMAIN temps
    BY <1>1, <1>5, AcrossKept DEF Granted, OfBlock, CellsOf
  <2>2. \A u : u # t => OfBlock(u)' = OfBlock(u)
    BY <1>1, AcrossKept DEF Granted, OfBlock
  <2>3. \A u : Crossing(u)' = Crossing(u)
    BY <1>1, <1>5, AcrossKept DEF Granted, Crossing
  <2>. QED  BY <2>1, <2>2, <2>3 DEF Granted, CellsOf
<1>7. \A u \in DOMAIN temps : \A v \in DOMAIN temps : u # t /\ v # t => Meeting(u, v)' = Meeting(u, v)
  BY <1>6 DEF Meeting
<1>8. CrossingInv'
  <2>1. \A u : Crossing(u) => u # t /\ u \in DOMAIN temps
    BY <1>5 DEF Crossing
  <2>2. ASSUME NEW u \in DOMAIN temps, Crossing(u) PROVE CrossingKept(u)'
    <3>1. CrossingKept(u)
      BY <2>2 DEF ApartInv, CrossingInv
    <3>2. CellsOf(temps[u])' = CellsOf(temps[u])
      BY <1>6, <2>1, <2>2
    <3>3. \A v \in DOMAIN temps : v # u /\ Crossing(v)' /\ LiveBlocks(u) \cap LiveBlocks(v) # {} => ~Meeting(u, v)'
      BY <1>6, <1>7, <2>1, <2>2, <3>1 DEF CrossingKept
    <3>. QED  BY <1>1, <3>1, <3>2, <3>3, AcrossKept DEF CrossingKept
  <2>. QED  BY <1>1, <1>6, <2>2, ArgPoolKept DEF ApartInv, CrossingInv
<1>9. HeldApart /\ WantedHeld /\ \A p \in DOMAIN pools : DOMAIN pools[p] \cap reserved[b] = {}
  BY <1>0, <1>1 DEF ApartInv, ScanInv
<1>10. /\ DOMAIN pools = PoolNames /\ from \in PoolNames /\ given \subseteq DOMAIN pools[from]
       /\ DOMAIN pools' = PoolNames /\ DOMAIN pools'[from] = DOMAIN pools[from] \ given
       /\ \A p \in PoolNames \ {from} : pools'[p] = pools[p]
       /\ \A p \in PoolNames : DOMAIN pools[p] \subseteq Base(p)
  BY <1>1 DEF IInv, PoolsFree, Granted
<1>11. \A n \in DOMAIN held : held[n].temp \in DOMAIN temps /\ held[n].temp # t /\ given \cap CellsOf(temps[held[n].temp]) = {}
  <2>1. \A n \in DOMAIN held : OfBlock(held[n].temp) /\ DOMAIN pools[from] \cap CellsOf(temps[held[n].temp]) = {}
    BY <1>9, <1>10 DEF HeldApart
  <2>2. \A n \in DOMAIN held : held[n].temp # t /\ held[n].temp \in DOMAIN temps
    BY <1>6, <2>1 DEF OfBlock
  <2>. QED  BY <1>10, <2>1, <2>2
<1>12. BlockValuesInv'
  <2>. SUFFICES ASSUME NEW c \in Blocks(code), NEW m \in DOMAIN code.blocks[c], OfBlock(ResAt(c, m))'
                PROVE  ~Ahead(c, m)' /\ BlockValueKept(c, m)'
    BY <1>1 DEF BlockValuesInv
  <2>0. ResAt(c, m)' = ResAt(c, m) /\ \A e : ResAt(c, e)' = ResAt(c, e) /\ \A u : ReadAfter(c, e, u)' = ReadAfter(c, e, u)
    BY <1>1, AcrossKept
  <2>1. CASE ResAt(c, m) = t
    <3>1. c = b /\ m = k
      BY <1>5, <2>1
    <3>2. given \cap reserved[b] = {}
      BY <1>9, <1>10
    <3>3. ASSUME NEW e \in DOMAIN code.blocks[b], e > k, ReadAfter(b, e, t), InstrAt(b, e).op = "call"
          PROVE  given \subseteq CalleeSaved
      <4>1. e \in Nat /\ LastUse(t) > e /\ LastUse(t) \in Nat
        BY <1>0, <1>1, <1>2, <3>3, LastUseIsLast
      <4>2. e \in (k + 1)..LastUse(t)
        BY <1>2, <3>3, <4>1
      <4>3. CallInRange(t)
        BY <1>0, <3>3, <4>2 DEF CallInRange
      <4>4. given \subseteq calleeFree
        BY <1>10, <4>3 DEF Granted, Base
      <4>. QED  BY <4>4 DEF RegistersInv
    <3>4. ASSUME NEW e \in DOMAIN code.blocks[b], e > k PROVE ~OfBlock(ResAt(b, e))'
      <4>1. ResAt(b, e) # t
        BY <1>2, <1>5, <3>4
      <4>2. Ahead(b, e)
        BY <1>2, <3>4
      <4>3. ~OfBlock(ResAt(b, e))
        BY <1>2, <4>2 DEF ApartInv, BlockValuesInv
      <4>4. ResAt(b, e)' = ResAt(b, e)
        BY <1>1, AcrossKept
      <4>5. PICK u : u = ResAt(b, e)
        OBVIOUS
      <4>6. ~OfBlock(u)'
        BY <1>6, <4>1, <4>3, <4>5
      <4>. QED  BY <4>4, <4>5, <4>6 DEF OfBlock
    <3>5. CellsOf(temps[ResAt(c, m)])' = given
      BY <1>6, <2>0, <2>1
    <3>. QED  BY <1>1, <1>2, <2>0, <2>1, <3>1, <3>2, <3>3, <3>4, <3>5 DEF BlockValueKept, InstrAt
  <2>2. CASE ResAt(c, m) # t
    <3>1. PICK u : u = ResAt(c, m) /\ u # t
      BY <2>2
    <3>2. OfBlock(u) /\ u \in DOMAIN temps
      <4>1. OfBlock(u)'
        BY <2>0, <3>1 DEF OfBlock
      <4>. QED  BY <1>6, <3>1, <4>1 DEF OfBlock
    <3>3. ~Ahead(c, m) /\ BlockValueKept(c, m)
      BY <3>1, <3>2 DEF ApartInv, BlockValuesInv
    <3>4. CellsOf(temps[u])' = CellsOf(temps[u])
      BY <1>6, <3>1, <3>2
    <3>5. ASSUME NEW e \in DOMAIN code.blocks[c], e > m, ReadAfter(c, e, u), OfBlock(ResAt(c, e))'
          PROVE  ~Meeting(u, ResAt(c, e))'
      <4>1. PICK v : v = ResAt(c, e)
        OBVIOUS
      <4>2. OfBlock(v)'
        BY <2>0, <3>5, <4>1 DEF OfBlock
      <4>3. CASE v = t
        <5>1. c = b /\ e = k
          BY <1>5, <4>1, <4>3
        <5>2. \E n \in DOMAIN held : held[n].temp = u
          BY <1>0, <1>9, <3>1, <3>2, <3>5, <5>1 DEF WantedHeld
        <5>3. given \cap CellsOf(temps[u]) = {}
          BY <1>11, <5>2
        <5>4. ~Meeting(u, v)'
          BY <1>6, <3>4, <4>3, <5>3 DEF Meeting
        <5>. QED  BY <2>0, <4>1, <5>4 DEF Meeting
      <4>4. CASE v # t
        <5>1. OfBlock(v) /\ v \in DOMAIN temps
          BY <1>6, <4>2, <4>4 DEF OfBlock
        <5>2. ~Meeting(u, v)
          BY <3>1, <3>3, <3>5, <4>1, <5>1 DEF BlockValueKept
        <5>3. ~Meeting(u, v)'
          BY <1>7, <3>1, <3>2, <4>4, <5>1, <5>2
        <5>. QED  BY <2>0, <4>1, <5>3 DEF Meeting
      <4>. QED  BY <4>3, <4>4
    <3>6. BlockValueKept(c, m)'
      BY <1>1, <2>0, <3>1, <3>3, <3>4, <3>5 DEF BlockValueKept, InstrAt, Meeting
    <3>7. ~Ahead(c, m)'
      BY <1>2, <1>3, <3>3
    <3>. QED  BY <3>6, <3>7
  <2>. QED  BY <2>1, <2>2
<1>. DEFINE new == [temp |-> t, from |-> from]
<1>13. /\ DOMAIN held' = 1..(Len(held) + 1) /\ held'[Len(held) + 1] = new
       /\ \A n \in DOMAIN held : n \in DOMAIN held' /\ held'[n] = held[n]
       /\ \A n \in DOMAIN held' : n = Len(held) + 1 \/ n \in DOMAIN held
       /\ Len(held) + 1 \notin DOMAIN held
  <2>1. held \in Seq([temp : DOMAIN temps, from : PoolNames])
    BY <1>1, HeldFacts
  <2>2. new \in [temp : DOMAIN temps, from : PoolNames]
    BY <1>6, <1>10
  <2>3. held' = Append(held, new)
    BY DEF Granted
  <2>. HIDE DEF new
  <2>. QED  BY <2>1, <2>2, <2>3
<1>14. \A p \in PoolNames : DOMAIN pools'[p] \subseteq DOMAIN pools[p] /\ DOMAIN pools'[p] \cap given = {}
  BY <1>10, BasesApart
<1>15. HeldApart'
  <2>1. ASSUME NEW n \in DOMAIN held
        PROVE  /\ OfBlock(held[n].temp)
               /\ \E j \in DOMAIN code.blocks[b] : j < k + 1 /\ ResAt(b, j) = held[n].temp
               /\ \A p \in PoolNames : DOMAIN pools'[p] \cap CellsOf(temps[held[n].temp]) = {}
               /\ \A m \in DOMAIN held : m # n => ~Meeting(held[m].temp, held[n].temp)
    <3>1. \A j \in DOMAIN code.blocks[b] : j < k => j < k + 1
      BY <1>2
    <3>. QED  BY <1>0, <1>9, <1>10, <1>14, <3>1 DEF HeldApart
  <2>2. ASSUME NEW n \in DOMAIN held', NEW u, u = held'[n].temp
        PROVE  /\ OfBlock(u)'
               /\ \E j \in DOMAIN code.blocks[b] : j < k + 1 /\ ResAt(b, j) = u
               /\ \A p \in PoolNames : DOMAIN pools'[p] \cap CellsOf(temps[u])' = {}
               /\ \A m \in DOMAIN held' : \A v : v = held'[m].temp /\ m # n => ~Meeting(v, u)'
    <3>1. CASE n = Len(held) + 1
      <4>1. u = t
        BY <1>13, <2>2, <3>1
      <4>2. k < k + 1
        BY <1>2
      <4>3. ASSUME NEW m \in DOMAIN held', NEW v, v = held'[m].temp, m # n PROVE ~Meeting(v, u)'
        <5>1. m \in DOMAIN held /\ v = held[m].temp
          BY <1>13, <3>1, <4>3
        <5>2. v # t /\ v \in DOMAIN temps /\ given \cap CellsOf(temps[v]) = {}
          BY <1>11, <5>1
        <5>. QED  BY <1>6, <4>1, <5>2 DEF Meeting
      <4>. QED  BY <1>2, <1>4, <1>6, <1>14, <4>1, <4>2, <4>3
    <3>2. CASE n \in DOMAIN held
      <4>1. u = held[n].temp /\ u # t /\ u \in DOMAIN temps
        BY <1>11, <1>13, <2>2, <3>2
      <4>2. ASSUME NEW m \in DOMAIN held', NEW v, v = held'[m].temp, m # n PROVE ~Meeting(v, u)'
        <5>1. CASE m \in DOMAIN held
          <6>1. v = held[m].temp /\ v # t /\ v \in DOMAIN temps
            BY <1>11, <1>13, <4>2, <5>1
          <6>2. ~Meeting(v, u)
            BY <2>1, <3>2, <4>1, <4>2, <5>1, <6>1
          <6>. QED  BY <1>7, <4>1, <6>1, <6>2
        <5>2. CASE m \notin DOMAIN held
          <6>1. v = t
            BY <1>13, <4>2, <5>2
          <6>2. given \cap CellsOf(temps[u]) = {}
            BY <1>11, <3>2, <4>1
          <6>. QED  BY <1>6, <4>1, <6>1, <6>2 DEF Meeting
        <5>. QED  BY <5>1, <5>2
      <4>. QED  BY <1>6, <2>1, <3>2, <4>1, <4>2
    <3>. QED  BY <1>13, <3>1, <3>2
  <2>. SUFFICES ASSUME NEW n \in DOMAIN held'
                PROVE  (/\ OfBlock(held[n].temp)
                        /\ \E j \in DOMAIN code.blocks[Scanned] : j < cursor[2] /\ ResAt(Scanned, j) = held[n].temp
                        /\ \A p \in DOMAIN pools : DOMAIN pools[p] \cap CellsOf(temps[held[n].temp]) = {}
                        /\ \A m \in DOMAIN held : m # n => ~Meeting(held[m].temp, held[n].temp))'
    BY DEF HeldApart
  <2>3. PICK u : u = held'[n].temp
    OBVIOUS
  <2>4. OfBlock(held[n].temp)'
    BY <2>2, <2>3 DEF OfBlock
  <2>5. (\E j \in DOMAIN code.blocks[Scanned] : j < cursor[2] /\ ResAt(Scanned, j) = held[n].temp)'
    BY <1>1, <1>2, <2>2, <2>3, AcrossKept
  <2>6. (\A p \in DOMAIN pools : DOMAIN pools[p] \cap CellsOf(temps[held[n].temp]) = {})'
    BY <1>10, <2>2, <2>3 DEF CellsOf
  <2>7. (\A m \in DOMAIN held : m # n => ~Meeting(held[m].temp, held[n].temp))'
    <3>1. ASSUME NEW m \in DOMAIN held', m # n PROVE ~Meeting(held[m].temp, held[n].temp)'
      <4>1. PICK v : v = held'[m].temp
        OBVIOUS
      <4>2. ~Meeting(v, u)'
        BY <2>2, <2>3, <3>1, <4>1
      <4>. QED  BY <2>3, <4>1, <4>2 DEF Meeting
    <3>. QED  BY <3>1
  <2>. QED  BY <2>4, <2>5, <2>6, <2>7
<1>16. WantedHeld'
  <2>1. ASSUME NEW j \in DOMAIN code.blocks[b], NEW u, u = ResAt(b, j), j < k + 1, OfBlock(u)', ReadAfter(b, k + 1, u)
        PROVE  \E n \in DOMAIN held' : held'[n].temp = u
    <3>1. CASE u = t
      BY <1>13, <3>1
    <3>2. CASE u # t
      <4>1. OfBlock(u)
        BY <1>6, <2>1, <3>2
      <4>2. ~Ahead(b, j)
        BY <1>2, <2>1, <4>1 DEF ApartInv, BlockValuesInv
      <4>3. j < k
        BY <1>2, <2>1, <4>2
      <4>4. ReadAfter(b, k, u)
        BY <1>2, <2>1, ReadFurther
      <4>5. \E n \in DOMAIN held : held[n].temp = u
        BY <1>0, <1>9, <2>1, <4>1, <4>3, <4>4 DEF WantedHeld
      <4>. QED  BY <1>13, <4>5
    <3>. QED  BY <3>1, <3>2
  <2>. QED  BY <1>1, <1>2, <2>1, AcrossKept DEF WantedHeld, OfBlock
<1>17. \A p \in DOMAIN pools' : DOMAIN pools'[p] \cap reserved'[Scanned'] = {}
  BY <1>1, <1>9, <1>10, <1>14
<1>. QED  BY <1>1, <1>2, <1>8, <1>12, <1>15, <1>16, <1>17 DEF ApartInv, ScanInv

LEMMA ApartWaits ==
  ASSUME ApartInv, UNCHANGED vars
  PROVE  ApartInv'
<1>1. UNCHANGED <<code, phase, cursor, temps, liveVars, reserved, pools, held>> /\ Scanned' = Scanned
  BY DEF vars, placementVars, scanVars, Scanned
<1>2. \A b, k : Ahead(b, k)' = Ahead(b, k)
  BY <1>1 DEF Ahead
<1>3. /\ CrossingInv' /\ BlockValuesInv'
      /\ \A t : /\ OfBlock(t)' = OfBlock(t) /\ CellsOf(temps[t])' = CellsOf(temps[t])
                /\ \A u : Meeting(t, u)' = Meeting(t, u)
  BY <1>1, <1>2, ApartWhileScanning
<1>4. UNCHANGED <<code, temps, cursor, pools, held, liveVars>> /\ phase' = phase
  BY <1>1 DEF liveVars
<1>5. \A b, k : ResAt(b, k)' = ResAt(b, k)
  BY <1>4, AcrossKept
<1>6. phase = "scan" => HeldApart'
  <2>. SUFFICES ASSUME phase = "scan", NEW n \in DOMAIN held'
                PROVE  (/\ OfBlock(held[n].temp)
                        /\ \E j \in DOMAIN code.blocks[Scanned] : j < cursor[2] /\ ResAt(Scanned, j) = held[n].temp
                        /\ \A p \in DOMAIN pools : DOMAIN pools[p] \cap CellsOf(temps[held[n].temp]) = {}
                        /\ \A m \in DOMAIN held : m # n => ~Meeting(held[m].temp, held[n].temp))'
    BY DEF HeldApart
  <2>1. PICK a : a = held[n].temp
    OBVIOUS
  <2>2. n \in DOMAIN held /\ held'[n].temp = a
    BY <1>4, <2>1
  <2>3. /\ OfBlock(a)
        /\ \E j \in DOMAIN code.blocks[Scanned] : j < cursor[2] /\ ResAt(Scanned, j) = a
        /\ \A p \in DOMAIN pools : DOMAIN pools[p] \cap CellsOf(temps[a]) = {}
        /\ \A m \in DOMAIN held : m # n => ~Meeting(held[m].temp, a)
    BY <2>1, <2>2 DEF ApartInv, ScanInv, HeldApart
  <2>4. OfBlock(held[n].temp)'
    <3>1. OfBlock(a)'
      BY <1>3, <2>3
    <3>. QED  BY <2>2, <3>1 DEF OfBlock
  <2>5. (\E j \in DOMAIN code.blocks[Scanned] : j < cursor[2] /\ ResAt(Scanned, j) = held[n].temp)'
    BY <1>1, <1>4, <1>5, <2>2, <2>3
  <2>6. (\A p \in DOMAIN pools : DOMAIN pools[p] \cap CellsOf(temps[held[n].temp]) = {})'
    BY <1>4, <2>2, <2>3 DEF CellsOf
  <2>7. (\A m \in DOMAIN held : m # n => ~Meeting(held[m].temp, held[n].temp))'
    <3>1. ASSUME NEW m \in DOMAIN held', m # n PROVE ~Meeting(held[m].temp, held[n].temp)'
      <4>1. PICK c : c = held[m].temp
        OBVIOUS
      <4>2. ~Meeting(c, a) /\ held'[m].temp = c
        BY <1>4, <2>3, <3>1, <4>1
      <4>3. ~Meeting(c, a)'
        BY <1>3, <4>2
      <4>. QED  BY <2>2, <4>2, <4>3 DEF Meeting
    <3>. QED  BY <3>1
  <2>. QED  BY <2>4, <2>5, <2>6, <2>7
<1>7. phase = "scan" => WantedHeld'
  <2>. SUFFICES ASSUME phase = "scan", NEW j \in DOMAIN code.blocks[Scanned],
                       j < cursor[2], OfBlock(ResAt(Scanned, j))', ReadAfter(Scanned, cursor[2], ResAt(Scanned, j))'
                PROVE  \E n \in DOMAIN held : held[n].temp = ResAt(Scanned, j)
    BY <1>1, <1>4, <1>5 DEF WantedHeld
  <2>1. PICK b, k, a : b = Scanned /\ k = cursor[2] /\ a = ResAt(b, j)
    OBVIOUS
  <2>2. OfBlock(a)' /\ ReadAfter(b, k, a)'
    BY <1>1, <1>5, <2>1
  <2>3. OfBlock(a) /\ ReadAfter(b, k, a)
    BY <1>3, <1>4, <2>2, AcrossKept
  <2>. QED  BY <2>1, <2>3 DEF ApartInv, ScanInv, WantedHeld
<1>. QED  BY <1>1, <1>3, <1>6, <1>7 DEF ApartInv, ScanInv

(* The passes after the values of the blocks, and the emitted code. *)
LEMMA LateApart ==
  ASSUME HomesInv, ApartInv,
         FinishCrossing \/ CloseBlock \/ FinishScan \/ PlaceLocalField \/ PlaceTempField \/ FinishPlacement \/ Emission
  PROVE  ApartInv'
<1>1. CASE FinishCrossing
  <2>1. /\ phase = "crossing" /\ phase' = "block" /\ cursor' = 1 /\ UNCHANGED <<code, temps, liveVars, reserved>>
    BY <1>1 DEF FinishCrossing, EnterPhase
  <2>2. \A b, k : Ahead(b, k)
    BY <2>1 DEF Ahead
  <2>. QED  BY <2>1, <2>2, ApartStays
<1>2. CASE CloseBlock
  <2>1. /\ phase = "scan" /\ phase' = "block" /\ cursor' = cursor[1] + 1 /\ UNCHANGED <<code, temps, liveVars, reserved>>
    BY <1>2 DEF CloseBlock, EnterPhase
  <2>2. cursor[1] \in DOMAIN code.order /\ DOMAIN code.order \subseteq Nat
    BY <2>1, ScanAt, OrderFacts
  <2>3. \A b, k : Ahead(b, k)' => Ahead(b, k)
    BY <2>1, <2>2 DEF Ahead
  <2>4. cursor' \in Nat \ {0}
    BY <2>1, <2>2
  <2>. QED  BY <2>1, <2>3, <2>4, ApartStays
<1>3. CASE FinishScan
  <2>1. phase' = "fields" /\ UNCHANGED <<code, temps, liveVars, reserved>>
    BY <1>3 DEF FinishScan, EnterPhase
  <2>2. \A b, k : ~Ahead(b, k)'
    BY <2>1 DEF Ahead, UnplacedPhases
  <2>. QED  BY <2>1, <2>2, ApartStays
<1>4. CASE PlaceLocalField \/ PlaceTempField \/ FinishPlacement
  <2>1. phase' \in {"fields", "placed"} /\ UNCHANGED <<code, liveVars, reserved>> /\ DOMAIN temps' = DOMAIN temps
    BY <1>4 DEF PlaceLocalField, PlaceTempField, FinishPlacement, EnterPhase
  <2>2. \A t \in DOMAIN temps : temps'[t] = temps[t] \/ temps'[t].kind # "register"
    BY <1>4 DEF PlaceLocalField, PlaceTempField, FinishPlacement, Nowhere, Placement
  <2>3. \A b, k : ~Ahead(b, k)'
    BY <2>1 DEF Ahead, UnplacedPhases
  <2>. QED  BY <2>1, <2>2, <2>3, ApartStays
<1>5. CASE Emission
  <2>1. phase' \in {"settle", "run", "call", "jumped", "returned"} /\ UNCHANGED <<code, temps, liveVars, reserved>>
    BY <1>5, EmissionKeepsPlacement, EmissionAfterLiveness
  <2>2. \A b, k : ~Ahead(b, k)'
    BY <2>1 DEF Ahead, UnplacedPhases
  <2>. QED  BY <2>1, <2>2, ApartStays
<1>. QED  BY <1>1, <1>2, <1>3, <1>4, <1>5

(* Values that are wanted together have no register in common. *)
LEMMA NextApart ==
  IInv /\ HomesInv /\ RegistersInv /\ DefinitionsReachTheEnd /\ ApartInv /\ [Next]_vars => ApartInv'
<1>. SUFFICES ASSUME IInv, HomesInv, RegistersInv, DefinitionsReachTheEnd, ApartInv, [Next]_vars PROVE ApartInv'
  OBVIOUS
<1>1. CASE NumberParameter \/ FinishArrival \/ PlaceLocal \/ UpdateLiveness
  <2>1. /\ phase \in UnplacedPhases /\ phase' \in UnplacedPhases \cup {"crossing", "fields"}
        /\ UNCHANGED <<code, temps, reserved>>
    BY <1>1 DEF NumberParameter, FinishArrival, PlaceLocal, UpdateLiveness, EnterPhase, UnplacedPhases
  <2>. QED  BY <2>1, EarlyApart
<1>2. CASE PlaceAddresses
  <2>1. /\ phase \in UnplacedPhases /\ phase' \in UnplacedPhases /\ UNCHANGED <<code, reserved>>
        /\ temps' = [t \in DOMAIN temps |-> AddressPlacement(t)]
    BY <1>2 DEF PlaceAddresses, EnterPhase, UnplacedPhases
  <2>2. DOMAIN temps' = DOMAIN temps /\ \A t \in DOMAIN temps : temps'[t] = temps[t] \/ temps'[t].kind = "virtual"
    BY <2>1 DEF AddressPlacement, Placement
  <2>. QED  BY <2>1, <2>2, EarlyApart
<1>3. CASE PlaceAliases
  <2>1. /\ phase \in UnplacedPhases /\ phase' = "crossing" /\ UNCHANGED <<code, reserved>>
        /\ temps' = [t \in DOMAIN temps |-> AliasPlacement(t)]
    BY <1>3 DEF PlaceAliases, EnterPhase, UnplacedPhases
  <2>2. DOMAIN temps' = DOMAIN temps /\ \A t \in DOMAIN temps : temps'[t] = temps[t] \/ temps'[t].kind = "alias"
    BY <2>1 DEF AliasPlacement, Placement
  <2>. QED  BY <2>1, <2>2, EarlyApart
<1>4. CASE PlaceCrossing
  BY <1>4, PlaceCrossingApart
<1>5. CASE OpenBlock \/ Release
  BY <1>5, OpenBlockApart, ReleaseApart
<1>6. CASE Grant
  <2>1. PICK t : t = Now.res
    OBVIOUS
  <2>2. UNCHANGED <<temps, pools, held>> \/ \E from, given : Granted(t, from, given)
    BY <1>6, <2>1, GrantFacts
  <2>. QED  BY <1>6, <2>1, <2>2, NothingGranted, SomethingGranted
<1>7. CASE FinishCrossing \/ CloseBlock \/ FinishScan \/ PlaceLocalField \/ PlaceTempField \/ FinishPlacement \/ Emission
  BY <1>7, LateApart
<1>8. CASE UNCHANGED vars
  BY <1>8, ApartWaits
<1>. QED  BY <1>1, <1>2, <1>3, <1>4, <1>5, <1>6, <1>7, <1>8 DEF Next, Place, PlacementNext, Emission

-----------------------------------------------------------------------------
(* Aliases. *)

(* An alias is the register of a local it was loaded from, and no store to   *)
(* that local comes while it is wanted.                                    *)
AliasOf(t, l) ==
  /\ l \in LocalSlots(code) /\ InRegister(l) /\ IsLoadOf(t, l) /\ ~Clobbered(t, l)
  /\ temps[t].index = locals[l].index /\ temps[t].pair = locals[l].pair

(* Every alias is one, and none is made before its local has a register. *)
AliasInv ==
  \A t \in DOMAIN temps :
    temps[t].kind = "alias" => phase \notin UnplacedPhases /\ \E l : AliasOf(t, l)

LEMMA InitAlias == PlacementInit => AliasInv
BY DEF PlacementInit, AliasInv, Unplaced, Placement

(* A step that makes no alias and moves no local out of its register. *)
LEMMA AliasesStay ==
  ASSUME AliasInv, UNCHANGED code, phase' \in UnplacedPhases => phase \in UnplacedPhases,
         phase \notin UnplacedPhases => UNCHANGED liveVars /\ \A l \in LocalSlots(code) : InRegister(l) => locals'[l] = locals[l],
         DOMAIN temps' = DOMAIN temps,
         \A t \in DOMAIN temps : temps'[t] = temps[t] \/ temps'[t].kind # "alias"
  PROVE  AliasInv'
<1>. SUFFICES ASSUME NEW t \in DOMAIN temps', temps'[t].kind = "alias"
              PROVE  phase' \notin UnplacedPhases /\ \E l : AliasOf(t, l)'
  BY DEF AliasInv
<1>1. t \in DOMAIN temps /\ temps'[t] = temps[t]
  OBVIOUS
<1>2. phase \notin UnplacedPhases /\ \E l : AliasOf(t, l)
  BY <1>1 DEF AliasInv
<1>3. PICK l : AliasOf(t, l)
  BY <1>2
<1>4. UNCHANGED liveVars /\ locals'[l] = locals[l] /\ InRegister(l)
  BY <1>2, <1>3 DEF AliasOf
<1>5. \A b, k : LiveAfter(b, k)' = LiveAfter(b, k)
  BY <1>4, LiveAfterKept
<1>6. Points' = Points /\ AddressesOf(l)' = AddressesOf(l) /\ \A b, k : InstrAt(b, k)' = InstrAt(b, k)
  BY DEF Points, AddressesOf, InstrAt
<1>7. Clobbered(t, l)' = Clobbered(t, l)
  BY <1>5, <1>6 DEF Clobbered
<1>8. IsLoadOf(t, l)' = IsLoadOf(t, l)
  BY <1>6 DEF IsLoadOf, Some, Blocks
<1>9. InRegister(l)' /\ LocalSlots(code)' = LocalSlots(code)
  BY <1>4 DEF InRegister, LocalSlots
<1>. QED  BY <1>1, <1>2, <1>3, <1>4, <1>7, <1>8, <1>9 DEF AliasOf

LEMMA AliasesBegin ==
  ASSUME AliasInv, PlaceAliases
  PROVE  AliasInv'
<1>1. /\ phase = "alias" /\ phase' = "crossing" /\ UNCHANGED <<code, locals, liveVars>>
      /\ temps' = [t \in DOMAIN temps |-> AliasPlacement(t)]
  BY DEF PlaceAliases, EnterPhase
<1>. SUFFICES ASSUME NEW t \in DOMAIN temps', temps'[t].kind = "alias"
              PROVE  phase' \notin UnplacedPhases /\ \E l : AliasOf(t, l)'
  BY DEF AliasInv
<1>2. t \in DOMAIN temps /\ temps[t].kind # "alias" /\ temps'[t] = AliasPlacement(t)
  BY <1>1 DEF AliasInv, UnplacedPhases
<1>3. PICK l \in AliasedLocal(t) : /\ \A m \in AliasedLocal(t) : ~Clobbered(t, m)
                                   /\ temps'[t] = Placement("alias", locals[l].index, locals[l].pair)
  BY <1>2 DEF AliasPlacement
<1>4. l \in LocalSlots(code) /\ InRegister(l) /\ IsLoadOf(t, l) /\ ~Clobbered(t, l)
  BY <1>3 DEF AliasedLocal
<1>5. temps'[t].index = locals'[l].index /\ temps'[t].pair = locals'[l].pair
  BY <1>1, <1>3 DEF Placement
<1>6. \A b, k : LiveAfter(b, k)' = LiveAfter(b, k)
  BY <1>1, LiveAfterKept
<1>7. Points' = Points /\ AddressesOf(l)' = AddressesOf(l) /\ \A b, k : InstrAt(b, k)' = InstrAt(b, k)
  BY <1>1 DEF Points, AddressesOf, InstrAt
<1>8. Clobbered(t, l)' = Clobbered(t, l)
  BY <1>6, <1>7 DEF Clobbered
<1>9. IsLoadOf(t, l)' = IsLoadOf(t, l)
  BY <1>1, <1>7 DEF IsLoadOf, Some, Blocks
<1>10. InRegister(l)' = InRegister(l) /\ LocalSlots(code)' = LocalSlots(code)
  BY <1>1 DEF InRegister, LocalSlots
<1>. QED  BY <1>1, <1>4, <1>5, <1>8, <1>9, <1>10 DEF AliasOf, UnplacedPhases

LEMMA NextAlias == IInv /\ HomesInv /\ AliasInv /\ [Next]_vars => AliasInv'
<1>. SUFFICES ASSUME IInv, HomesInv, AliasInv, [Next]_vars PROVE AliasInv'
  OBVIOUS
<1>1. CASE NumberParameter \/ FinishArrival \/ PlaceLocal \/ UpdateLiveness
  <2>1. phase \in UnplacedPhases /\ UNCHANGED <<code, temps>>
    BY <1>1 DEF NumberParameter, FinishArrival, PlaceLocal, UpdateLiveness, UnplacedPhases
  <2>. QED  BY <2>1 DEF AliasInv
<1>2. CASE PlaceAddresses
  <2>1. /\ phase \in UnplacedPhases /\ UNCHANGED code /\ DOMAIN temps' = DOMAIN temps
        /\ \A t \in DOMAIN temps : temps'[t] = temps[t] \/ temps'[t].kind # "alias"
    BY <1>2 DEF PlaceAddresses, UnplacedPhases, AddressPlacement, Placement
  <2>. QED  BY <2>1 DEF AliasInv
<1>3. CASE PlaceAliases
  BY <1>3, AliasesBegin
<1>4. CASE \/ FinishCrossing \/ OpenBlock \/ Release \/ CloseBlock \/ FinishScan \/ FinishPlacement
  <2>1. UNCHANGED <<code, temps, locals, liveVars>> /\ phase' \notin UnplacedPhases
    BY <1>4 DEF FinishCrossing, OpenBlock, Release, CloseBlock, FinishScan, FinishPlacement, EnterPhase, UnplacedPhases, InScan
  <2>. QED  BY <2>1, AliasesStay
<1>5. CASE PlaceCrossing \/ Grant \/ PlaceTempField
  <2>1. UNCHANGED <<code, locals, liveVars>> /\ phase' \notin UnplacedPhases
    BY <1>5 DEF PlaceCrossing, Grant, PlaceTempField, UnplacedPhases, InScan
  <2>2. DOMAIN temps' = DOMAIN temps /\ \A t \in DOMAIN temps : temps'[t] = temps[t] \/ temps'[t].kind # "alias"
    <3>1. \/ UNCHANGED temps
          \/ \E t : temps' = [temps EXCEPT ![t] = Nowhere]
          \/ \E t, kind, n : kind # "alias" /\ temps' = [temps EXCEPT ![t] = Placement(kind, n, IsPair(t))]
      <4>1. CASE PlaceCrossing
        BY <4>1 DEF PlaceCrossing
      <4>2. CASE Grant
        BY <4>2 DEF Grant
      <4>3. CASE PlaceTempField
        BY <4>3 DEF PlaceTempField
      <4>. QED  BY <1>5, <4>1, <4>2, <4>3
    <3>. QED  BY <3>1 DEF Placement, Nowhere
  <2>. QED  BY <2>1, <2>2, AliasesStay
<1>6. CASE PlaceLocalField
  <2>1. UNCHANGED <<code, temps, liveVars>> /\ phase' \notin UnplacedPhases
    BY <1>6 DEF PlaceLocalField, UnplacedPhases
  <2>2. \A l \in LocalSlots(code) : InRegister(l) => locals'[l] = locals[l]
    <3>1. \/ UNCHANGED locals
          \/ locals[cursor].kind # "register" /\ \E p : locals' = [locals EXCEPT ![cursor] = p]
      BY <1>6 DEF PlaceLocalField
    <3>. QED  BY <3>1 DEF InRegister, HomesInv
  <2>. QED  BY <2>1, <2>2, AliasesStay
<1>7. CASE Emission
  <2>1. UNCHANGED <<code, temps, locals, liveVars>> /\ phase' \notin UnplacedPhases
    BY <1>7, EmissionKeepsPlacement, EmissionAfterLiveness DEF UnplacedPhases
  <2>. QED  BY <2>1, AliasesStay
<1>8. CASE UNCHANGED vars
  <2>1. UNCHANGED <<code, temps, locals, liveVars, phase>>
    BY <1>8 DEF vars, placementVars
  <2>. QED  BY <2>1, AliasesStay
<1>. QED  BY <1>1, <1>2, <1>3, <1>4, <1>5, <1>6, <1>7, <1>8 DEF Next, Place, PlacementNext, Emission

-----------------------------------------------------------------------------
(* Frame fields. *)

(* The phases in which every home is final. *)
Laid == {"placed", "settle", "run", "call", "jumped", "returned"}

(* The local n, or the temporary n - Len(code.locals), has its place. *)
Passed(n) == (phase = "fields" /\ n < cursor) \/ phase \in Laid

TempPassed(t) == Passed(Len(code.locals) + t)

(* A local that is referenced has a home, and a field it has is its own. *)
LocalLaid(l) ==
  /\ LocalReferenced(l) => locals[l].kind \in {"register", "slot"}
  /\ locals[l].kind = "slot" =>
       /\ locals[l].index \in DOMAIN fields /\ fields[locals[l].index].temps = {}
       /\ \A m \in DOMAIN locals : m # l /\ Passed(m) /\ locals[m].kind = "slot" => locals[m].index # locals[l].index

(* A temporary in the frame is one of those its field serves. *)
TempLaid(t) ==
  temps[t].kind = "slot" => temps[t].index \in DOMAIN fields /\ t \in fields[temps[t].index].temps

(* Fields are handed out in the last pass. *)
FieldsTyped ==
  /\ fields \in Seq([pair : BOOLEAN, temps : SUBSET Nat])
  /\ phase \notin Laid \cup {"fields"} => fields = << >>
  /\ phase = "fields" => cursor \in Nat \ {0}

(* Nothing in a field interferes with anything else there, every local and   *)
(* temporary passed is where it should be, and none that is used has lost its *)
(* home.                                                                   *)
FieldsApart == \A n \in DOMAIN fields : \A t \in fields[n].temps : \A u \in fields[n].temps : ~Interferes(t, u)
LocalsLaid  == \A l \in DOMAIN locals : Passed(l) => LocalLaid(l)
TempsLaid   == \A t \in DOMAIN temps : TempPassed(t) => TempLaid(t)
NoneLost    == \A t \in DOMAIN temps : Referenced(t) => temps[t].kind # "none"

(* The frame as it is laid out. *)
FieldsInv == FieldsTyped /\ FieldsApart /\ LocalsLaid /\ TempsLaid /\ NoneLost

LEMMA InterferenceKept ==
  ASSUME UNCHANGED <<code, liveVars>>, NEW a, NEW c
  PROVE  Interferes(a, c)' = Interferes(a, c)
<1>1. Points' = Points /\ \A b, k : InstrAt(b, k)' = InstrAt(b, k)
  BY DEF Points, InstrAt
<1>2. \A b, k : LiveAfter(b, k)' = LiveAfter(b, k)
  BY LiveAfterKept
<1>3. \A x, y : Meets(x, y)' = Meets(x, y)
  BY <1>1, <1>2 DEF Meets
<1>. QED  BY <1>3 DEF Interferes

LEMMA InitFields == PlacementInit => FieldsInv
<1>. SUFFICES ASSUME PlacementInit PROVE FieldsInv
  OBVIOUS
<1>1. /\ phase = "arrival" /\ fields = << >> /\ \A t \in DOMAIN temps : temps[t].kind = "slot"
  BY DEF PlacementInit, Unplaced, Placement
<1>2. \A n : ~Passed(n)
  BY <1>1 DEF Passed, Laid
<1>3. DOMAIN fields = {}
  BY <1>1
<1>4. << >> \in Seq([pair : BOOLEAN, temps : SUBSET Nat])
  OBVIOUS
<1>. QED  BY <1>1, <1>2, <1>3, <1>4 DEF FieldsInv, FieldsTyped, FieldsApart, LocalsLaid, TempsLaid, TempPassed, NoneLost, Laid

LEMMA LocalNumbers ==
  ASSUME HomesInv
  PROVE  /\ Len(code.locals) \in Nat /\ DOMAIN locals = 1..Len(code.locals)
         /\ code.temps \in Nat /\ DOMAIN temps = 1..code.temps
BY DEF HomesInv, WellFormed, Temps

(* Before there are fields. *)
LEMMA NoFields ==
  ASSUME HomesInv, FieldsInv, UNCHANGED <<code, fields>>, fields = << >>, DOMAIN locals' = DOMAIN locals,
         DOMAIN temps' = DOMAIN temps,
         \A t \in DOMAIN temps : temps'[t] = temps[t] \/ temps'[t].kind # "none",
         phase' \notin Laid, phase' = "fields" => cursor' = 1
  PROVE  FieldsInv'
<1>1. DOMAIN fields = {}
  OBVIOUS
<1>2. \A n \in Nat : n >= 1 => ~Passed(n)'
  BY DEF Passed
<1>3. \A t \in DOMAIN temps : Len(code.locals) + t \in Nat /\ Len(code.locals) + t >= 1
  BY LocalNumbers
<1>4. \A l \in DOMAIN locals : l \in Nat /\ l >= 1
  BY LocalNumbers
<1>5. NoneLost'
  BY CodeFactsKept DEF FieldsInv, NoneLost
<1>6. TempsLaid'
  BY <1>2, <1>3 DEF TempsLaid, TempPassed
<1>7. LocalsLaid'
  BY <1>2, <1>4 DEF LocalsLaid
<1>8. FieldsTyped' /\ FieldsApart'
  BY <1>1 DEF FieldsInv, FieldsTyped, FieldsApart
<1>. QED  BY <1>5, <1>6, <1>7, <1>8 DEF FieldsInv

(* A step that changes no place. *)
LEMMA FieldsWait ==
  ASSUME HomesInv, FieldsInv, UNCHANGED <<code, locals, temps, fields, liveVars>>,
         phase' \in Laid \/ (phase' = "fields" /\ UNCHANGED cursor /\ phase = "fields"),
         \A n \in 1..(Len(code.locals) + code.temps) : Passed(n)' => Passed(n),
         phase' \notin Laid \cup {"fields"} => phase \notin Laid \cup {"fields"}
  PROVE  FieldsInv'
<1>1. \A l \in DOMAIN locals : Passed(l)' => Passed(l)
  BY LocalNumbers
<1>2. \A t \in DOMAIN temps : TempPassed(t)' => TempPassed(t)
  BY LocalNumbers DEF TempPassed
<1>3. \A l : LocalReferenced(l)' = LocalReferenced(l)
  BY DEF LocalReferenced, Some, InstrAt, Blocks
<1>4. LocalsLaid'
  BY <1>1, <1>3 DEF FieldsInv, LocalsLaid, LocalLaid
<1>5. TempsLaid' /\ NoneLost'
  BY <1>2, CodeFactsKept DEF FieldsInv, TempsLaid, NoneLost, TempLaid
<1>6. FieldsApart'
  BY InterferenceKept DEF FieldsInv, FieldsApart
<1>7. FieldsTyped'
  BY DEF FieldsInv, FieldsTyped, Laid
<1>. QED  BY <1>4, <1>5, <1>6, <1>7 DEF FieldsInv

(* A local's field is a new one. *)
LEMMA LocalFieldLaid ==
  ASSUME HomesInv, RegistersInv, FieldsInv, PlaceLocalField
  PROVE  FieldsInv'
<1>0. PICK c : c = cursor
  OBVIOUS
<1>1. /\ phase = "fields" /\ phase' = "fields" /\ c <= Len(code.locals) /\ cursor' = c + 1
      /\ UNCHANGED <<code, temps, liveVars>>
  BY <1>0 DEF PlaceLocalField
<1>2. c \in Nat \ {0} /\ fields \in Seq([pair : BOOLEAN, temps : SUBSET Nat])
  BY <1>0, <1>1 DEF FieldsInv, FieldsTyped
<1>3. c \in DOMAIN locals
  BY <1>1, <1>2, LocalNumbers
<1>4. \A l \in DOMAIN locals : Passed(l)' <=> l < c \/ l = c
  BY <1>1, <1>2, LocalNumbers DEF Passed, Laid
<1>5. \A l \in DOMAIN locals : Passed(l) <=> l < c
  BY <1>0, <1>1 DEF Passed, Laid
<1>6. TempsLaid'
  BY <1>1, <1>2, LocalNumbers DEF TempsLaid, TempPassed, Passed, Laid
<1>7. NoneLost'
  BY <1>1, CodeFactsKept DEF FieldsInv, NoneLost
<1>8. \A l : LocalReferenced(l)' = LocalReferenced(l)
  BY <1>1 DEF LocalReferenced, Some, InstrAt, Blocks
<1>9. CASE UNCHANGED fields
  <2>1. \/ locals' = locals /\ locals[c].kind = "register"
        \/ locals' = [locals EXCEPT ![c] = Nowhere] /\ ~LocalReferenced(c)
        \/ fields' = Append(fields, Field(IsWideLocal(c), {}))
    BY <1>0 DEF PlaceLocalField
  <2>2. fields' # Append(fields, Field(IsWideLocal(c), {}))
    <3>1. Len(Append(fields, Field(IsWideLocal(c), {}))) = Len(fields) + 1
      BY <1>2
    <3>. QED  BY <1>2, <1>9, <3>1
  <2>3. /\ DOMAIN locals' = DOMAIN locals /\ \A l \in DOMAIN locals : l # c => locals'[l] = locals[l]
        /\ locals'[c].kind # "slot" /\ (LocalReferenced(c) => locals'[c].kind = "register")
    BY <1>3, <2>1, <2>2 DEF Nowhere, Placement
  <2>4. ASSUME NEW l \in DOMAIN locals', Passed(l)' PROVE LocalLaid(l)'
    <3>1. CASE l = c
      BY <1>8, <2>3, <3>1 DEF LocalLaid
    <3>2. CASE l # c
      <4>1. LocalLaid(l) /\ locals'[l] = locals[l]
        BY <1>4, <1>5, <2>3, <2>4, <3>2 DEF FieldsInv, LocalsLaid
      <4>2. \A m \in DOMAIN locals' : Passed(m)' /\ locals'[m].kind = "slot" => Passed(m) /\ locals'[m] = locals[m]
        BY <1>4, <1>5, <2>3
      <4>. QED  BY <1>8, <1>9, <2>3, <4>1, <4>2 DEF LocalLaid
    <3>. QED  BY <3>1, <3>2
  <2>5. FieldsApart'
    BY <1>1, <1>9, InterferenceKept DEF FieldsInv, FieldsApart
  <2>6. FieldsTyped' /\ LocalsLaid'
    BY <1>1, <1>2, <1>9, <2>4 DEF FieldsTyped, LocalsLaid
  <2>. QED  BY <1>6, <1>7, <2>5, <2>6 DEF FieldsInv
<1>10. CASE ~UNCHANGED fields
  <2>0. PICK last, wide : last = Len(fields) /\ wide = IsWideLocal(c)
    OBVIOUS
  <2>9. last \in Nat /\ wide \in BOOLEAN
    <3>1. IsWideLocal(c) \in BOOLEAN
      BY DEF IsWideLocal
    <3>. QED  BY <1>2, <2>0, <3>1
  <2>1. /\ locals' = [locals EXCEPT ![c] = Placement("slot", last + 1, wide)]
        /\ fields' = Append(fields, Field(wide, {}))
    BY <1>0, <1>10, <2>0 DEF PlaceLocalField
  <2>2. /\ DOMAIN locals' = DOMAIN locals /\ \A l \in DOMAIN locals : l # c => locals'[l] = locals[l]
        /\ locals'[c].kind = "slot" /\ locals'[c].index = last + 1
    BY <1>3, <2>1 DEF Placement
  <2>3. Field(wide, {}) \in [pair : BOOLEAN, temps : SUBSET Nat] /\ Field(wide, {}).temps = {}
    BY <2>9 DEF Field
  <2>4. /\ fields' \in Seq([pair : BOOLEAN, temps : SUBSET Nat]) /\ DOMAIN fields' = 1..(last + 1) /\ DOMAIN fields = 1..last
        /\ fields'[last + 1].temps = {} /\ \A n \in DOMAIN fields : fields'[n] = fields[n]
    BY <1>2, <2>0, <2>1, <2>3, <2>9
  <2>5. ASSUME NEW l \in DOMAIN locals', Passed(l)' PROVE LocalLaid(l)'
    <3>1. \A m \in DOMAIN locals : Passed(m)' /\ m # c => LocalLaid(m) /\ Passed(m) /\ locals'[m] = locals[m]
      BY <1>4, <1>5, <2>2 DEF FieldsInv, LocalsLaid
    <3>2. \A m \in DOMAIN locals : Passed(m)' /\ m # c /\ locals[m].kind = "slot" => locals[m].index \in 1..last
      BY <2>4, <3>1 DEF LocalLaid
    <3>3. CASE l = c
      <4>1. LocalReferenced(l)' => locals'[l].kind \in {"register", "slot"}
        BY <2>2, <3>3
      <4>2. locals'[l].index \in DOMAIN fields' /\ fields'[locals'[l].index].temps = {}
        BY <2>2, <2>4, <2>9, <3>3
      <4>3. \A m \in DOMAIN locals' : m # l /\ Passed(m)' /\ locals'[m].kind = "slot" => locals'[m].index # locals'[l].index
        BY <2>2, <2>9, <3>1, <3>2, <3>3
      <4>. QED  BY <4>1, <4>2, <4>3 DEF LocalLaid
    <3>4. CASE l # c
      <4>1. LocalLaid(l) /\ locals'[l] = locals[l]
        BY <2>2, <2>5, <3>1, <3>4
      <4>2. LocalReferenced(l)' => locals'[l].kind \in {"register", "slot"}
        BY <1>8, <4>1 DEF LocalLaid
      <4>3. ASSUME locals'[l].kind = "slot"
            PROVE  /\ locals'[l].index \in DOMAIN fields' /\ fields'[locals'[l].index].temps = {}
                   /\ \A m \in DOMAIN locals' : m # l /\ Passed(m)' /\ locals'[m].kind = "slot" => locals'[m].index # locals'[l].index
        <5>1. locals[l].index \in 1..last /\ fields[locals[l].index].temps = {}
          BY <2>2, <2>4, <2>5, <3>2, <3>4, <4>1, <4>3 DEF LocalLaid
        <5>2. locals'[l].index \in DOMAIN fields' /\ fields'[locals'[l].index].temps = {}
          BY <2>4, <2>9, <4>1, <5>1
        <5>3. ASSUME NEW m \in DOMAIN locals', m # l, Passed(m)', locals'[m].kind = "slot" PROVE locals'[m].index # locals'[l].index
          <6>1. CASE m = c
            BY <2>2, <2>9, <4>1, <5>1, <6>1
          <6>2. CASE m # c
            BY <2>2, <3>1, <4>1, <4>3, <5>3, <6>2 DEF LocalLaid
          <6>. QED  BY <6>1, <6>2
        <5>. QED  BY <5>2, <5>3
      <4>. QED  BY <4>2, <4>3 DEF LocalLaid
    <3>. QED  BY <3>3, <3>4
  <2>6. FieldsApart'
    BY <1>1, <2>4, <2>9, InterferenceKept DEF FieldsInv, FieldsApart
  <2>7. FieldsTyped' /\ LocalsLaid'
    BY <1>1, <1>2, <2>4, <2>5 DEF FieldsTyped, LocalsLaid
  <2>. QED  BY <1>6, <1>7, <2>6, <2>7 DEF FieldsInv
<1>. QED  BY <1>9, <1>10

(* Fields, with the temporaries each serves. *)
FieldSet == [pair : BOOLEAN, temps : SUBSET Nat]

(* A temporary goes to the first field it can share, or to a new one. *)
Takes(t, n) ==
  /\ n = Min(SharedField(t) \cup {Len(fields) + 1})
  /\ fields' = IF n <= Len(fields) THEN [fields EXCEPT ![n].temps = @ \cup {t}]
               ELSE Append(fields, Field(IsPair(t), {t}))

(* What taking a field changes. *)
LEMMA FieldTaken ==
  ASSUME HomesInv, fields \in Seq(FieldSet), NEW t \in Nat, NEW n, Takes(t, n)
  PROVE  /\ fields' \in Seq(FieldSet) /\ DOMAIN fields \subseteq DOMAIN fields'
         /\ n \in DOMAIN fields' /\ t \in fields'[n].temps
         /\ \A m \in DOMAIN fields' : m # n => m \in DOMAIN fields /\ fields'[m] = fields[m]
         /\ n \in DOMAIN fields => /\ fields[n].temps # {} /\ fields'[n].temps = fields[n].temps \cup {t}
                                   /\ \A u \in fields[n].temps : ~Interferes(t, u)
         /\ n \notin DOMAIN fields => fields'[n].temps = {t}
<1>1. Len(fields) \in Nat /\ DOMAIN fields = 1..Len(fields) /\ \A m \in DOMAIN fields : fields[m] \in FieldSet
  OBVIOUS
<1>2. SharedField(t) \subseteq DOMAIN fields
  BY DEF SharedField
<1>3. n \in SharedField(t) \cup {Len(fields) + 1}
  <2>1. SharedField(t) \cup {Len(fields) + 1} \in SUBSET Nat
    BY <1>1, <1>2
  <2>. QED  BY <2>1, LeastNumber DEF Takes
<1>4. CASE n \in DOMAIN fields
  <2>1. n \in SharedField(t) /\ n <= Len(fields)
    BY <1>1, <1>3, <1>4
  <2>2. fields' = [fields EXCEPT ![n].temps = @ \cup {t}]
    BY <2>1 DEF Takes
  <2>3. fields[n].temps \in SUBSET Nat /\ fields[n].pair \in BOOLEAN
    BY <1>1, <1>4 DEF FieldSet
  <2>4. [fields[n] EXCEPT !.temps = @ \cup {t}] \in FieldSet
    BY <1>1, <1>4, <2>3 DEF FieldSet
  <2>5. /\ fields' \in Seq(FieldSet) /\ DOMAIN fields' = DOMAIN fields
        /\ fields'[n] = [fields[n] EXCEPT !.temps = @ \cup {t}]
        /\ \A m \in DOMAIN fields : m # n => fields'[m] = fields[m]
    BY <1>1, <1>4, <2>2, <2>4
  <2>6. fields'[n].temps = fields[n].temps \cup {t}
    BY <1>1, <1>4, <2>5 DEF FieldSet
  <2>7. fields[n].temps # {} /\ \A u \in fields[n].temps : ~Interferes(t, u)
    BY <2>1 DEF SharedField
  <2>. QED  BY <1>4, <2>5, <2>6, <2>7
<1>5. CASE n \notin DOMAIN fields
  <2>1. n = Len(fields) + 1 /\ ~(n <= Len(fields))
    BY <1>1, <1>2, <1>3, <1>5
  <2>2. PICK field : field = Field(IsPair(t), {t})
    OBVIOUS
  <2>3. field \in FieldSet /\ field.temps = {t}
    BY <2>2 DEF Field, FieldSet, IsPair, Some
  <2>4. fields' = Append(fields, field)
    BY <2>1, <2>2 DEF Takes
  <2>5. /\ fields' \in Seq(FieldSet) /\ DOMAIN fields' = 1..(Len(fields) + 1)
        /\ fields'[n] = field /\ \A m \in DOMAIN fields : fields'[m] = fields[m]
    BY <1>1, <2>1, <2>3, <2>4
  <2>6. /\ DOMAIN fields \subseteq DOMAIN fields' /\ n \in DOMAIN fields'
        /\ \A m \in DOMAIN fields' : m # n => m \in DOMAIN fields
    BY <1>1, <2>1, <2>5
  <2>. QED  BY <1>5, <2>3, <2>5, <2>6
<1>. QED  BY <1>4, <1>5

(* The field taken serves no one the temporary meets. *)
LEMMA TempFieldLaid ==
  ASSUME HomesInv, FieldsInv, PlaceTempField
  PROVE  FieldsInv'
<1>0. PICK t : t = cursor - Len(code.locals)
  OBVIOUS
<1>1. /\ phase = "fields" /\ phase' = "fields" /\ cursor > Len(code.locals) /\ cursor <= Len(code.locals) + code.temps
      /\ cursor' = cursor + 1 /\ UNCHANGED <<code, locals, liveVars>>
  BY DEF PlaceTempField
<1>2. cursor \in Nat /\ fields \in Seq(FieldSet) /\ t \in DOMAIN temps /\ t \in Nat /\ cursor = Len(code.locals) + t
  BY <1>0, <1>1, LocalNumbers DEF FieldsInv, FieldsTyped, FieldSet
<1>3. \A u \in DOMAIN temps : (TempPassed(u)' <=> (u < t \/ u = t)) /\ (TempPassed(u) <=> u < t)
  BY <1>1, <1>2, LocalNumbers DEF TempPassed, Passed, Laid
<1>4. \A l \in DOMAIN locals : Passed(l) /\ Passed(l)'
  BY <1>1, <1>2, LocalNumbers DEF Passed, Laid
<1>5. \A l : LocalReferenced(l)' = LocalReferenced(l)
  BY <1>1 DEF LocalReferenced, Some, InstrAt, Blocks
<1>6. \A u : Referenced(u)' = Referenced(u)
  BY <1>1, CodeFactsKept
<1>7. \A x, y : Interferes(x, y)' = Interferes(x, y)
  BY <1>1, InterferenceKept
<1>8. CASE UNCHANGED fields /\ ((temps' = [temps EXCEPT ![t] = Nowhere] /\ ~Referenced(t)) \/ (temps' = temps /\ temps[t].kind # "slot"))
  <2>2. /\ DOMAIN temps' = DOMAIN temps /\ \A u \in DOMAIN temps : u # t => temps'[u] = temps[u]
        /\ temps'[t].kind # "slot" /\ (Referenced(t) => temps'[t].kind # "none")
    BY <1>2, <1>8 DEF Nowhere, Placement, FieldsInv, NoneLost
  <2>3. NoneLost'
    BY <1>6, <2>2 DEF FieldsInv, NoneLost
  <2>4. \A u \in DOMAIN temps' : TempPassed(u)' => TempLaid(u)'
    <3>1. ASSUME NEW u \in DOMAIN temps', TempPassed(u)', u # t PROVE TempLaid(u)'
      <4>1. TempLaid(u) /\ temps'[u] = temps[u]
        BY <1>3, <2>2, <3>1 DEF FieldsInv, TempsLaid
      <4>. QED  BY <1>8, <4>1 DEF TempLaid
    <3>. QED  BY <2>2, <3>1 DEF TempLaid
  <2>5. LocalsLaid' /\ FieldsApart' /\ FieldsTyped'
    BY <1>1, <1>2, <1>4, <1>5, <1>7, <1>8 DEF FieldsInv, LocalsLaid, LocalLaid, FieldsApart, FieldsTyped
  <2>. QED  BY <2>3, <2>4, <2>5 DEF FieldsInv, TempsLaid
<1>9. ASSUME NEW n, temps' = [temps EXCEPT ![t] = Placement("slot", n, IsPair(t))], Takes(t, n)
      PROVE  FieldsInv'
  <2>1. /\ fields' \in Seq(FieldSet) /\ DOMAIN fields \subseteq DOMAIN fields'
        /\ n \in DOMAIN fields' /\ t \in fields'[n].temps
        /\ \A m \in DOMAIN fields' : m # n => m \in DOMAIN fields /\ fields'[m] = fields[m]
        /\ n \in DOMAIN fields => /\ fields[n].temps # {} /\ fields'[n].temps = fields[n].temps \cup {t}
                                  /\ \A u \in fields[n].temps : ~Interferes(t, u)
        /\ n \notin DOMAIN fields => fields'[n].temps = {t}
    BY <1>2, <1>9, FieldTaken
  <2>2. /\ DOMAIN temps' = DOMAIN temps /\ \A u \in DOMAIN temps : u # t => temps'[u] = temps[u]
        /\ temps'[t].kind = "slot" /\ temps'[t].index = n
    BY <1>2, <1>9 DEF Placement
  <2>3. NoneLost'
    BY <1>6, <2>2 DEF FieldsInv, NoneLost
  <2>4. \A u \in DOMAIN temps' : TempPassed(u)' => TempLaid(u)'
    <3>1. ASSUME NEW u \in DOMAIN temps', TempPassed(u)', u # t, temps'[u].kind = "slot"
          PROVE  temps'[u].index \in DOMAIN fields' /\ u \in fields'[temps'[u].index].temps
      <4>1. TempLaid(u) /\ temps'[u] = temps[u]
        BY <1>3, <2>2, <3>1 DEF FieldsInv, TempsLaid
      <4>2. PICK m \in DOMAIN fields : m = temps[u].index /\ u \in fields[m].temps
        BY <3>1, <4>1 DEF TempLaid
      <4>3. m \in DOMAIN fields' /\ u \in fields'[m].temps
        BY <2>1, <4>2
      <4>. QED  BY <4>1, <4>2, <4>3
    <3>2. temps'[t].index \in DOMAIN fields' /\ t \in fields'[temps'[t].index].temps
      BY <2>1, <2>2
    <3>. QED  BY <3>1, <3>2 DEF TempLaid
  <2>5. LocalsLaid'
    <3>1. ASSUME NEW l \in DOMAIN locals, locals[l].kind = "slot"
          PROVE  locals[l].index \in DOMAIN fields' /\ fields'[locals[l].index].temps = {}
      <4>1. LocalLaid(l)
        BY <1>4 DEF FieldsInv, LocalsLaid
      <4>2. PICK m \in DOMAIN fields : m = locals[l].index /\ fields[m].temps = {}
        BY <3>1, <4>1 DEF LocalLaid
      <4>3. m # n /\ m \in DOMAIN fields' /\ fields'[m] = fields[m]
        BY <2>1, <4>2
      <4>. QED  BY <4>2, <4>3
    <3>2. \A l \in DOMAIN locals : LocalLaid(l)
      BY <1>4 DEF FieldsInv, LocalsLaid
    <3>. QED  BY <1>1, <1>4, <1>5, <3>1, <3>2 DEF LocalsLaid, LocalLaid
  <2>6. FieldsApart'
    <3>1. ASSUME NEW m \in DOMAIN fields', NEW x \in fields'[m].temps, NEW y \in fields'[m].temps PROVE ~Interferes(x, y)
      <4>1. CASE m # n
        BY <2>1, <4>1 DEF FieldsInv, FieldsApart
      <4>2. CASE m = n /\ n \in DOMAIN fields
        <5>1. x \in fields[n].temps \cup {t} /\ y \in fields[n].temps \cup {t}
          BY <2>1, <4>2
        <5>2. \A u \in fields[n].temps : ~Interferes(t, u) /\ ~Interferes(u, t) /\ \A v \in fields[n].temps : ~Interferes(u, v)
          BY <2>1, <4>2 DEF Interferes, FieldsInv, FieldsApart
        <5>3. ~Interferes(t, t)
          BY DEF Interferes
        <5>. QED  BY <5>1, <5>2, <5>3
      <4>3. CASE m = n /\ n \notin DOMAIN fields
        BY <2>1, <4>3 DEF Interferes
      <4>. QED  BY <4>1, <4>2, <4>3
    <3>. QED  BY <1>7, <3>1 DEF FieldsApart
  <2>7. FieldsTyped'
    BY <1>1, <1>2, <2>1 DEF FieldsTyped, FieldSet
  <2>. QED  BY <2>3, <2>4, <2>5, <2>6, <2>7 DEF FieldsInv, TempsLaid
<1>10. CASE \E n : temps' = [temps EXCEPT ![t] = Placement("slot", n, IsPair(t))] /\ Takes(t, n)
  BY <1>9, <1>10
<1>11. \/ UNCHANGED fields /\ ((temps' = [temps EXCEPT ![t] = Nowhere] /\ ~Referenced(t)) \/ (temps' = temps /\ temps[t].kind # "slot"))
       \/ \E n : temps' = [temps EXCEPT ![t] = Placement("slot", n, IsPair(t))] /\ Takes(t, n)
  BY <1>0 DEF PlaceTempField, Takes
<1>. QED  BY <1>8, <1>10, <1>11

(* Fields are handed out in the last pass only. *)
LEMMA NextFields == IInv /\ HomesInv /\ RegistersInv /\ FieldsInv /\ [Next]_vars => FieldsInv'
<1>. SUFFICES ASSUME IInv, HomesInv, RegistersInv, FieldsInv, [Next]_vars PROVE FieldsInv'
  OBVIOUS
<1>1. ASSUME phase \notin Laid \cup {"fields"} PROVE fields = << >>
  BY <1>1 DEF FieldsInv, FieldsTyped
<1>2. CASE NumberParameter \/ FinishArrival \/ PlaceLocal \/ UpdateLiveness
  <2>1. /\ phase \notin Laid \cup {"fields"} /\ phase' \notin Laid /\ (phase' = "fields" => cursor' = 1)
        /\ UNCHANGED <<code, temps, fields>>
    BY <1>2 DEF NumberParameter, FinishArrival, PlaceLocal, UpdateLiveness, EnterPhase, Laid
  <2>2. DOMAIN locals' = DOMAIN locals
    BY <1>2 DEF NumberParameter, FinishArrival, PlaceLocal, UpdateLiveness
  <2>. QED  BY <1>1, <2>1, <2>2, NoFields
<1>3. CASE PlaceAddresses
  <2>1. /\ phase \notin Laid \cup {"fields"} /\ phase' \notin Laid \cup {"fields"} /\ UNCHANGED <<code, locals, fields>>
        /\ DOMAIN temps' = DOMAIN temps /\ \A t \in DOMAIN temps : temps'[t] = temps[t] \/ temps'[t].kind # "none"
    BY <1>3 DEF PlaceAddresses, EnterPhase, Laid, AddressPlacement, Placement
  <2>. QED  BY <1>1, <2>1, NoFields
<1>4. CASE PlaceAliases
  <2>1. /\ phase \notin Laid \cup {"fields"} /\ phase' \notin Laid \cup {"fields"} /\ UNCHANGED <<code, locals, fields>>
        /\ DOMAIN temps' = DOMAIN temps /\ \A t \in DOMAIN temps : temps'[t] = temps[t] \/ temps'[t].kind # "none"
    BY <1>4 DEF PlaceAliases, EnterPhase, Laid, AliasPlacement, Placement
  <2>. QED  BY <1>1, <2>1, NoFields
<1>5. CASE \/ FinishCrossing \/ OpenBlock \/ Release \/ CloseBlock \/ FinishScan
  <2>1. /\ phase \notin Laid \cup {"fields"} /\ phase' \notin Laid /\ (phase' = "fields" => cursor' = 1)
        /\ UNCHANGED <<code, locals, temps, fields>>
    BY <1>5 DEF FinishCrossing, OpenBlock, Release, CloseBlock, FinishScan, EnterPhase, InScan, Laid
  <2>. QED  BY <1>1, <2>1, NoFields
<1>6. CASE PlaceCrossing \/ Grant
  <2>1. /\ phase \notin Laid \cup {"fields"} /\ phase' \notin Laid \cup {"fields"} /\ UNCHANGED <<code, locals, fields>>
    BY <1>6 DEF PlaceCrossing, Grant, InScan, Laid
  <2>2. temps' = temps \/ \E t, n : temps' = [temps EXCEPT ![t] = Placement("register", n, IsPair(t))]
    <3>1. CASE PlaceCrossing
      BY <3>1 DEF PlaceCrossing
    <3>2. CASE Grant
      BY <3>2 DEF Grant
    <3>. QED  BY <1>6, <3>1, <3>2
  <2>3. DOMAIN temps' = DOMAIN temps /\ \A t \in DOMAIN temps : temps'[t] = temps[t] \/ temps'[t].kind # "none"
    BY <2>2 DEF Placement
  <2>. QED  BY <1>1, <2>1, <2>3, NoFields
<1>7. CASE FinishPlacement
  <2>1. phase = "fields" /\ cursor > Len(code.locals) + code.temps /\ phase' = "placed" /\ UNCHANGED <<code, locals, temps, fields, liveVars>>
    BY <1>7 DEF FinishPlacement, EnterPhase
  <2>2. \A n \in 1..(Len(code.locals) + code.temps) : Passed(n)
    BY <2>1, LocalNumbers DEF Passed, FieldsInv, FieldsTyped
  <2>. QED  BY <2>1, <2>2, FieldsWait DEF Laid
<1>8. CASE Emission
  <2>1. phase \in Laid /\ phase' \in Laid /\ UNCHANGED <<code, locals, temps, fields, liveVars>>
    BY <1>8, EmissionKeepsPlacement, EmissionAfterLiveness DEF Laid
  <2>2. \A n \in 1..(Len(code.locals) + code.temps) : Passed(n)
    BY <2>1 DEF Passed
  <2>. QED  BY <2>1, <2>2, FieldsWait
<1>9. CASE UNCHANGED vars
  <2>1. UNCHANGED <<code, locals, temps, fields, liveVars, phase, cursor>>
    BY <1>9 DEF vars, placementVars
  <2>2. CASE phase \in Laid \cup {"fields"}
    <3>1. \A n : Passed(n)' => Passed(n)
      BY <2>1 DEF Passed
    <3>. QED  BY <2>1, <2>2, <3>1, FieldsWait
  <2>3. CASE phase \notin Laid \cup {"fields"}
    BY <1>1, <2>1, <2>3, NoFields
  <2>. QED  BY <2>2, <2>3
<1>. QED  BY <1>2, <1>3, <1>4, <1>5, <1>6, <1>7, <1>8, <1>9, LocalFieldLaid, TempFieldLaid DEF Next, Place, PlacementNext, Emission

-----------------------------------------------------------------------------
(* Where parameters arrive. *)

(* The registers a parameter arrives in. *)
ArrivalCells(p) == Cells(arrival[p].index, arrival[p].wide)

(* A parameter's register is its own from the call or no parameter's. *)
ParamHome(q) ==
  locals[q].kind = "register" =>
    \/ arrival[q].kind = "int" /\ CellsOf(locals[q]) = ArrivalCells(q)
    \/ \A p \in 1..code.params : arrival[p].kind = "int" => CellsOf(locals[q]) \cap ArrivalCells(p) = {}

(* Parameters arrive apart, and no home is where another one arrives. *)
ParamsInv ==
  /\ phase = "arrival" => \A l \in DOMAIN locals : locals[l].kind # "register"
  /\ phase # "arrival" =>
       /\ DOMAIN arrival = 1..code.params
       /\ \A p \in 1..code.params :
            /\ arrival[p].kind \in {"int", "stack"} /\ arrival[p].index \in Nat /\ arrival[p].wide \in BOOLEAN
            /\ arrival[p].kind = "int" => ArrivalCells(p) \subseteq ToSet(ArgRegisters)
            /\ \A q \in 1..code.params : p # q /\ arrival[p].kind = "int" /\ arrival[q].kind = "int" => ArrivalCells(p) \cap ArrivalCells(q) = {}
            /\ ParamHome(p)

LEMMA InitParams == PlacementInit => ParamsInv
BY DEF PlacementInit, ParamsInv, Unplaced, Placement

(* Slots of one kind are apart, and those in registers are argument registers. *)
LEMMA SlotCells ==
  ASSUME Slots!IInv, NEW p \in DOMAIN numbering
  PROVE  /\ numbering[p].index \in Nat /\ numbering[p].wide \in BOOLEAN
         /\ numbering[p].kind = "int" => Cells(numbering[p].index, numbering[p].wide) \subseteq ToSet(ArgRegisters)
         /\ \A q \in DOMAIN numbering : p < q /\ numbering[p].kind = numbering[q].kind =>
              Cells(numbering[p].index, numbering[p].wide) \cap Cells(numbering[q].index, numbering[q].wide) = {}
<1>1. /\ numbering \in Seq(Slots!ArgSlot) /\ used \in [Slots!Kind -> Nat]
      /\ Slots!BelowCursor /\ Slots!InOrder
  BY DEF Slots!IInv, Slots!TypeOK
<1>2. \A q \in DOMAIN numbering : numbering[q].index \in Nat /\ numbering[q].wide \in BOOLEAN
  <2>1. \A s \in Slots!ArgSlot : s.index \in Nat /\ s.wide \in BOOLEAN
    BY DEF Slots!ArgSlot
  <2>. QED  BY <1>1, <2>1
<1>3. PICK i, w : i = numbering[p].index /\ w = numbering[p].wide
  OBVIOUS
<1>4. i \in Nat /\ w \in BOOLEAN
  BY <1>2, <1>3
<1>5. Cells(i, w) \subseteq i..(i + Slots!Width(w) - 1) /\ Slots!Width(w) \in {1, 2}
  BY <1>4 DEF Cells, Slots!Width
<1>6. ASSUME numbering[p].kind = "int" PROVE Cells(i, w) \subseteq ToSet(ArgRegisters)
  <2>1. i + Slots!Width(w) <= used["int"] /\ used["int"] <= ArgRegisterCount
    BY <1>1, <1>3, <1>6 DEF Slots!BelowCursor, Slots!End, Slots!Bank
  <2>2. used["int"] \in Nat /\ ArgRegisterCount \in Nat
    BY <1>1, PoolsAssumption DEF PoolsAssumption, Slots!Kind, Slots!Bank
  <2>3. i..(i + Slots!Width(w) - 1) \subseteq 0..(ArgRegisterCount - 1)
    BY <1>4, <1>5, <2>1, <2>2
  <2>. QED  BY <1>5, <2>3, ArgRegistersAre
<1>7. ASSUME NEW q \in DOMAIN numbering, p < q, numbering[p].kind = numbering[q].kind
      PROVE  Cells(i, w) \cap Cells(numbering[q].index, numbering[q].wide) = {}
  <2>1. i + Slots!Width(w) <= numbering[q].index
    BY <1>1, <1>3, <1>7 DEF Slots!InOrder, Slots!End
  <2>2. PICK j, v : j = numbering[q].index /\ v = numbering[q].wide
    OBVIOUS
  <2>3. j \in Nat /\ Cells(j, v) \subseteq {j, j + 1}
    BY <1>2, <2>2 DEF Cells
  <2>4. ASSUME NEW c \in Cells(i, w), c \in Cells(j, v) PROVE FALSE
    <3>1. c \in Int /\ c <= i + Slots!Width(w) - 1
      BY <1>4, <1>5, <2>4
    <3>2. c >= j
      BY <2>3, <2>4
    <3>. QED  BY <1>4, <1>5, <2>1, <2>2, <2>3, <3>1, <3>2
  <2>. QED  BY <2>2, <2>4
<1>. QED  BY <1>3, <1>4, <1>6, <1>7

(* Parameters are numbered as arguments are. *)
LEMMA ParamsArrive ==
  ASSUME HomesInv, NumberedInv, ParamsInv, FinishArrival
  PROVE  ParamsInv'
<1>1. /\ phase = "arrival" /\ phase' # "arrival" /\ arrival' = numbering /\ UNCHANGED <<code, locals>>
      /\ Len(numbering) = Len(numbered) /\ numbered = ParamList(code) /\ Slots!IInv
  BY DEF FinishArrival, EnterPhase, Numbering!Done, NumberedInv
<1>2. /\ code.params \in Nat /\ Len(numbering) = code.params
      /\ \A p \in 1..code.params : p \in DOMAIN locals
  BY <1>1, ParamsAreLocals
<1>3. DOMAIN numbering = 1..code.params
  BY <1>1, <1>2 DEF Slots!IInv, Slots!TypeOK
<1>4. \A p \in 1..code.params : numbering[p].kind \in {"int", "stack"}
  <2>1. \A p \in DOMAIN numbering : numbering[p].kind \in {numbered[p].bank, "stack"}
    BY <1>1 DEF Slots!IInv, Slots!SlotsMatch
  <2>2. \A p \in 1..code.params : numbered[p].bank = "int"
    BY <1>1 DEF ParamList
  <2>. QED  BY <1>3, <2>1, <2>2
<1>5. \A p \in 1..code.params :
        /\ numbering[p].index \in Nat /\ numbering[p].wide \in BOOLEAN
        /\ numbering[p].kind = "int" => Cells(numbering[p].index, numbering[p].wide) \subseteq ToSet(ArgRegisters)
  BY <1>1, <1>3, SlotCells
<1>6. ASSUME NEW p \in 1..code.params, NEW q \in 1..code.params, p # q, numbering[p].kind = "int", numbering[q].kind = "int"
      PROVE  Cells(numbering[p].index, numbering[p].wide) \cap Cells(numbering[q].index, numbering[q].wide) = {}
  <2>1. p < q \/ q < p
    BY <1>2, <1>6
  <2>2. \A x, y \in 1..code.params : x < y /\ numbering[x].kind = numbering[y].kind =>
          Cells(numbering[x].index, numbering[x].wide) \cap Cells(numbering[y].index, numbering[y].wide) = {}
    BY <1>1, <1>3, SlotCells
  <2>3. numbering[p].kind = numbering[q].kind
    BY <1>6
  <2>. QED  BY <2>1, <2>2, <2>3
<1>7. \A p \in 1..code.params : ParamHome(p)'
  BY <1>1, <1>2 DEF ParamsInv, ParamHome
<1>. QED  BY <1>1, <1>3, <1>4, <1>5, <1>6, <1>7 DEF ParamsInv, ArrivalCells

(* A step that moves no parameter into a register. *)
LEMMA ParamsStay ==
  ASSUME ParamsInv, UNCHANGED <<code, arrival>>, phase # "arrival", phase' # "arrival", DOMAIN locals' = DOMAIN locals,
         HomesInv, \A l \in DOMAIN locals : locals'[l] = locals[l] \/ locals'[l].kind # "register"
  PROVE  ParamsInv'
<1>1. \A p : ArrivalCells(p)' = ArrivalCells(p)
  BY DEF ArrivalCells
<1>2. \A p \in 1..code.params : ParamHome(p)'
  BY <1>1, ParamsAreLocals DEF ParamsInv, ParamHome, CellsOf
<1>. QED  BY <1>1, <1>2 DEF ParamsInv

(* The register a parameter is given: the one it arrives in, or one no       *)
(* parameter does.                                                         *)
LEMMA ParamRegister ==
  ASSUME HomesInv, RegistersInv, NumberedInv, ParamsInv, phase # "arrival",
         NEW l \in 1..code.params, Eligible(l), NEW r \in RegisterFor(l)
  PROVE  \/ arrival[l].kind = "int" /\ Cells(r, IsWideLocal(l)) = ArrivalCells(l)
         \/ \A p \in 1..code.params : arrival[p].kind = "int" => Cells(r, IsWideLocal(l)) \cap ArrivalCells(p) = {}
<1>1. /\ DOMAIN arrival = 1..code.params /\ arrival[l].wide = IsWideLocal(l)
      /\ \A p \in 1..code.params : arrival[p].kind = "int" => ArrivalCells(p) \subseteq ToSet(ArgRegisters)
      /\ arrival[l].kind \in {"int", "stack"}
  BY DEF ParamsInv, NumberedInv
<1>2. l <= code.params /\ IsParam(l)
  BY ParamsAreLocals DEF IsParam
<1>3. arrival[l].kind = "int"
  BY <1>1, <1>2 DEF Eligible
<1>4. CASE Cells(r, IsWideLocal(l)) \subseteq calleeFree
  <2>1. calleeFree \cap ToSet(ArgRegisters) = {}
    BY PoolsAssumption DEF RegistersInv, PoolsAssumption, CalleeSaved
  <2>. QED  BY <1>1, <1>4, <2>1
<1>5. CASE ~(Cells(r, IsWideLocal(l)) \subseteq calleeFree)
  <2>1. ~HasCalls
    BY <1>5, LocalOfCaller
  <2>2. PICK own, pairs : own = arrival[l].index /\ pairs = TakePair(freeInt, own, ArrivalReserved)
    OBVIOUS
  <2>3. r \in IF ~IsWideLocal(l) THEN TakeRegister(freeInt, own, ArrivalReserved)
              ELSE IF pairs = {} THEN TakePair(calleeFree, NoRegister, {}) ELSE pairs
    BY <1>2, <2>1, <2>2 DEF RegisterFor
  <2>4. r = own => Cells(r, IsWideLocal(l)) = ArrivalCells(l)
    BY <1>1, <2>2 DEF ArrivalCells
  <2>5. r = own \/ Cells(r, IsWideLocal(l)) \cap ArrivalReserved = {}
    <3>1. CASE ~IsWideLocal(l)
      <4>1. r \in TakeRegister(freeInt, own, ArrivalReserved)
        BY <2>3, <3>1
      <4>2. r = own \/ r \in FirstOf(freeInt \ ArrivalReserved)
        BY <4>1 DEF TakeRegister
      <4>. QED  BY <3>1, <4>2 DEF FirstOf, Cells
    <3>2. CASE IsWideLocal(l) /\ pairs = {}
      <4>1. r \in TakePair(calleeFree, NoRegister, {})
        BY <2>3, <3>2
      <4>2. Cells(r, TRUE) \subseteq calleeFree
        BY <4>1, PairIsWhole
      <4>. QED  BY <1>5, <3>2, <4>2 DEF Cells
    <3>3. CASE IsWideLocal(l) /\ pairs # {}
      <4>1. r \in TakePair(freeInt, own, ArrivalReserved)
        BY <2>2, <2>3, <3>3
      <4>2. r = own \/ Cells(r, TRUE) \cap ArrivalReserved = {}
        BY <4>1 DEF TakePair
      <4>. QED  BY <3>3, <4>2 DEF Cells
    <3>. QED  BY <3>1, <3>2, <3>3
  <2>6. \A p \in 1..code.params : arrival[p].kind = "int" => ArrivalCells(p) \subseteq ArrivalReserved
    BY <1>1 DEF ArrivalReserved, ArrivalCells
  <2>. QED  BY <1>3, <2>4, <2>5, <2>6
<1>. QED  BY <1>4, <1>5

(* The register a parameter gets is none another one arrives in. *)
LEMMA PlaceLocalParams ==
  ASSUME HomesInv, RegistersInv, NumberedInv, ParamsInv, PlaceLocal
  PROVE  ParamsInv'
<1>1. /\ phase = "locals" /\ phase' = "locals" /\ UNCHANGED <<code, arrival>>
  BY DEF PlaceLocal
<1>2. CASE UNCHANGED locals
  BY <1>1, <1>2, ParamsStay
<1>3. CASE ~UNCHANGED locals
  <2>1. PICK l, r : /\ r \in RegisterFor(l) /\ Eligible(l)
                    /\ locals' = [locals EXCEPT ![l] = Placement("register", r, IsWideLocal(l))]
    BY <1>3 DEF PlaceLocal, Considered
  <2>2. DOMAIN locals' = DOMAIN locals /\ \A m \in DOMAIN locals : m # l => locals'[m] = locals[m]
    BY <2>1
  <2>3. l \in DOMAIN locals => CellsOf(locals[l])' = Cells(r, IsWideLocal(l))
    BY <2>1 DEF CellsOf, Placement
  <2>4. \A p : ArrivalCells(p)' = ArrivalCells(p)
    BY <1>1 DEF ArrivalCells
  <2>5. ASSUME NEW p \in 1..code.params PROVE ParamHome(p)'
    <3>1. p \in DOMAIN locals
      BY ParamsAreLocals
    <3>2. CASE p = l
      <4>1. \/ arrival[l].kind = "int" /\ Cells(r, IsWideLocal(l)) = ArrivalCells(l)
            \/ \A q \in 1..code.params : arrival[q].kind = "int" => Cells(r, IsWideLocal(l)) \cap ArrivalCells(q) = {}
        BY <1>1, <2>1, <2>5, <3>2, ParamRegister
      <4>. QED  BY <1>1, <2>3, <2>4, <3>1, <3>2, <4>1 DEF ParamHome
    <3>3. CASE p # l
      <4>1. ParamHome(p) /\ locals'[p] = locals[p] /\ CellsOf(locals[p])' = CellsOf(locals[p])
        BY <1>1, <2>2, <3>1, <3>3 DEF ParamsInv, CellsOf
      <4>. QED  BY <1>1, <2>4, <4>1 DEF ParamHome
    <3>. QED  BY <3>2, <3>3
  <2>. QED  BY <1>1, <2>4, <2>5 DEF ParamsInv
<1>. QED  BY <1>2, <1>3

(* Parameters leave their registers in the prologue only. *)
LEMMA NextParams == HomesInv /\ RegistersInv /\ NumberedInv /\ ParamsInv /\ [Next]_vars => ParamsInv'
<1>. SUFFICES ASSUME HomesInv, RegistersInv, NumberedInv, ParamsInv, [Next]_vars PROVE ParamsInv'
  OBVIOUS
<1>1. CASE NumberParameter
  BY <1>1 DEF NumberParameter, ParamsInv
<1>2. CASE \/ PlaceAddresses \/ UpdateLiveness \/ PlaceAliases \/ PlaceCrossing \/ FinishCrossing \/ OpenBlock \/ Release \/ Grant
           \/ CloseBlock \/ FinishScan \/ PlaceTempField \/ FinishPlacement
  <2>1. UNCHANGED <<code, arrival, locals>> /\ phase # "arrival" /\ phase' # "arrival"
    BY <1>2 DEF PlaceAddresses, UpdateLiveness, PlaceAliases, PlaceCrossing, FinishCrossing, OpenBlock, Release, Grant,
                CloseBlock, FinishScan, PlaceTempField, FinishPlacement, EnterPhase, InScan
  <2>. QED  BY <2>1, ParamsStay
<1>3. CASE PlaceLocalField
  <2>1. UNCHANGED <<code, arrival>> /\ phase = "fields" /\ phase' = "fields"
    BY <1>3 DEF PlaceLocalField
  <2>2. DOMAIN locals' = DOMAIN locals /\ \A l \in DOMAIN locals : locals'[l] = locals[l] \/ locals'[l].kind # "register"
    BY <1>3 DEF PlaceLocalField, Placement, Nowhere
  <2>. QED  BY <2>1, <2>2, ParamsStay
<1>4. CASE Emission
  <2>1. UNCHANGED <<code, arrival, locals>> /\ phase # "arrival" /\ phase' # "arrival"
    BY <1>4, EmissionKeepsPlacement, EmissionAfterLiveness
  <2>. QED  BY <2>1, ParamsStay
<1>5. CASE UNCHANGED vars
  <2>1. UNCHANGED <<code, arrival, locals, phase>>
    BY <1>5 DEF vars, placementVars
  <2>2. \A p : ArrivalCells(p)' = ArrivalCells(p) /\ ParamHome(p)' = ParamHome(p)
    BY <2>1 DEF ArrivalCells, ParamHome, CellsOf
  <2>. QED  BY <2>1, <2>2 DEF ParamsInv
<1>. QED  BY <1>1, <1>2, <1>3, <1>4, <1>5, ParamsArrive, PlaceLocalParams DEF Next, Place, PlacementNext, Emission

-----------------------------------------------------------------------------
(* What the placement comes to. *)

(* No home is a scratch register, every alias is the register of its local,  *)
(* and the frame's fields are laid out apart, in every phase.               *)
THEOREM PlacementInvariant == Spec => [](IInv /\ HomesInv /\ RegistersInv /\ AliasInv /\ FieldsInv)
<1>1. Init => IInv /\ HomesInv /\ RegistersInv /\ AliasInv /\ FieldsInv
  BY InitIInv, InitHomes, InitRegisters, InitAlias, InitFields DEF Init
<1>2. IInv /\ HomesInv /\ RegistersInv /\ AliasInv /\ FieldsInv /\ [Next]_vars
        => (IInv /\ HomesInv /\ RegistersInv /\ AliasInv /\ FieldsInv)'
  BY NextIInv, NextHomes, NextRegisters, NextAlias, NextFields
<1>. QED  BY <1>1, <1>2, PTL DEF Spec

(* "An alias of a local": a temporary that is a local's register was loaded  *)
(* from that local, and no store to it comes while the temporary is wanted. *)
THEOREM AliasesStayTrue == Spec => []AliasInv
BY PlacementInvariant, PTL

(* Two temporaries are given one field of the frame only if neither is       *)
(* defined or read while the other is live or read.                          *)
FieldsKeptApart ==
  phase \in Laid =>
    \A t \in DOMAIN temps : \A u \in DOMAIN temps :
      temps[t].kind = "slot" /\ temps[u].kind = "slot" /\ Interferes(t, u) => temps[t].index # temps[u].index

(* Values that meet have fields of their own, with or without registers. *)
THEOREM FieldsKeepApart == Spec => []FieldsKeptApart
<1>1. FieldsInv => FieldsKeptApart
  <2>. SUFFICES ASSUME FieldsInv, phase \in Laid, NEW t \in DOMAIN temps, NEW u \in DOMAIN temps,
                       temps[t].kind = "slot", temps[u].kind = "slot", Interferes(t, u), temps[t].index = temps[u].index
                PROVE  FALSE
    BY DEF FieldsKeptApart
  <2>1. TempLaid(t) /\ TempLaid(u)
    BY DEF FieldsInv, TempsLaid, TempPassed, Passed
  <2>. QED  BY <2>1 DEF TempLaid, FieldsInv, FieldsApart
<1>. QED  BY <1>1, PlacementInvariant, PTL

(* When the liveness pass has run each block is in step with its successors: *)
(* what is live where it ends is what is live where they begin, and what is  *)
(* live where it begins is what it reads, or leaves alone and must still     *)
(* give.  The pass stops no sooner.                                          *)
LivenessSolved == PastLiveness => \A b \in Blocks(code) : Solved(b)

(* The fixpoint is reached for every function, loops included. *)
THEOREM LivenessIsSolved == RegisterAllocation /\ Spec => []LivenessSolved
<1>. DEFINE Solving == RegisterAllocation /\ IInv /\ HomesInv /\ LiveInv
<1>1. RegisterAllocation /\ Init => Solving
  BY InitIInv, InitHomes, InitLive DEF Init
<1>2. Solving /\ [Next]_vars => Solving'
  BY NextIInv, NextHomes, NextLive
<1>3. Solving => LivenessSolved
  BY DEF LiveInv, LivenessSolved
<1>. HIDE DEF Solving
<1>. QED  BY <1>1, <1>2, <1>3, PTL DEF Spec
=============================================================================
