------------------------- MODULE CallBoundaryProofs -------------------------
(***************************************************************************)
(* One call, proved for every number of argument registers, every set of   *)
(* argument lists, every prologue and every frame of the caller: what      *)
(* CallBoundary.tla checks on lists of four arguments.                     *)
(*                                                                         *)
(* The two ends number independently, so the heart of the invariant is     *)
(* the numbering's history: h[n] is the cursor state after n arguments.    *)
(* Each end's next slot is a function of the history and of the next       *)
(* argument alone; the callee therefore repeats the caller's first         *)
(* fixedArgCount slots, and the words it counted on the stack are where    *)
(* the caller's variadic tail begins.                                      *)
(***************************************************************************)
EXTENDS CallBoundary, TLAPS, WellFoundedInduction

CallerSlots == INSTANCE ArgSlotsProofs WITH used <- callerUsed, result <- callerSlots

Arg     == [bank : Bank, wide : BOOLEAN]
ArgSlot == [kind : Kind, index : Nat, wide : BOOLEAN]
Cursors == [Kind -> Nat]
End(s)  == s.index + Width(s.wide)

-----------------------------------------------------------------------------
(* What one turn of assignArgSlots()'s loop computes from the cursors u.   *)

Start(u, a) == IF a.wide THEN 2 * ((u[a.bank] + 1) \div 2) ELSE u[a.bank]
Fits(u, a)  == Start(u, a) + Width(a.wide) <= ArgRegisterCount

SlotFor(u, a, declared) ==
  IF declared /\ Fits(u, a)
    THEN [kind |-> a.bank, index |-> Start(u, a), wide |-> a.wide]
    ELSE [kind |-> "stack", index |-> u["stack"], wide |-> a.wide]

CursorsFor(u, a, declared) ==
  IF declared /\ Fits(u, a)
    THEN [u EXCEPT ![a.bank] = Start(u, a) + Width(a.wide)]
    ELSE IF declared
      THEN [u EXCEPT !["stack"] = @ + Width(a.wide), ![a.bank] = ArgRegisterCount]
      ELSE [u EXCEPT !["stack"] = @ + Width(a.wide)]

-----------------------------------------------------------------------------
(* The inductive invariant.                                                *)

(* h is the caller's numbering, cursor state by cursor state. *)
History(h) ==
  /\ h \in [0..Len(callerSlots) -> Cursors]
  /\ h[0] = [k \in Kind |-> 0]
  /\ \A j \in 1..Len(callerSlots) :
       /\ callerSlots[j] = SlotFor(h[j - 1], args[j], j <= fixedArgCount)
       /\ h[j] = CursorsFor(h[j - 1], args[j], j <= fixedArgCount)
  /\ \A j \in 0..Len(callerSlots) : h[j]["stack"] <= 2 * j
  /\ callerUsed = h[Len(callerSlots)]

(* The callee is somewhere along the caller's numbering, and va_arg's      *)
(* cursor is where the caller's numbering put the next tail argument.      *)
Follows(h) ==
  /\ calleeUsed = h[Len(paramArrival)]
  /\ phase = "body" => cursor = h[fixedArgCount + Len(tail)]["stack"]

NumberingInv ==
  /\ args \in ArgLists
  /\ fixedArgCount \in 0..Len(args)
  /\ params = SubSeq(args, 1, fixedArgCount)
  /\ CallerSlots!IInv
  /\ paramArrival \in Seq(ArgSlot)
  /\ Len(paramArrival) <= fixedArgCount
  /\ Len(paramArrival) <= Len(callerSlots)
  /\ \A j \in 1..Len(paramArrival) : paramArrival[j] = callerSlots[j]
  /\ phase # "number" =>
       Len(callerSlots) = Len(args) /\ Len(paramArrival) = fixedArgCount
  /\ fixedArgCount + Len(tail) <= Len(args)
  /\ \E h : History(h) /\ Follows(h)

(* Every argument moved so far is still where its slot says. *)
ArgumentsInPlace ==
  \A j \in 1..placed : \A c \in Cells(callerSlots[j]) :
    LET s == callerSlots[j] IN
    /\ s.kind \in Bank => regs[s.kind][c] = <<"arg", j, c - s.index>>
    /\ s.kind = "stack" => mem[c] = <<"arg", j, c - s.index>>

StackLevels ==
  /\ phase \in {"number", "setup", "returned"} => sp = 0
  /\ phase \in {"save", "ret"} => sp = -1
  /\ phase \in {"enter", "restore"} => sp = -1 - saved
  /\ phase \in {"settle", "body"} => sp = -3 - saved /\ fp = -2 - saved

(* The outgoing area is the larger of what the function's other calls need *)
(* and what this one does.                                                 *)
OutgoingFits ==
  \E o \in OtherCallWords :
    outgoing = IF phase = "number" \/ o >= callerUsed["stack"] THEN o ELSE callerUsed["stack"]

ReturnAddressKept ==
  /\ phase \in {"save", "enter", "settle", "body", "restore", "ret"} => mem[-1] = Mark("return")
  /\ phase = "returned" => popped = Mark("return")

(* The caller's fp and callee-saved registers are where they were, or in    *)
(* the words the prologue pushed.                                          *)
SavedWordsKept ==
  /\ phase \notin {"settle", "body", "restore"} => \A r \in 1..saved : kept[r] = CallersRegister(r)
  /\ phase \in {"enter", "settle", "body", "restore"} => \A r \in 1..saved : mem[-1 - r] = CallersRegister(r)
  /\ phase \notin {"number", "settle", "body"} => fp = outgoing + LocalWords
  /\ phase \in {"settle", "body"} => mem[-2 - saved] = FrameBase(outgoing + LocalWords)

Early  == {"number", "setup", "save", "enter"}
Landed == {"body", "restore", "ret", "returned"}
Run    == [1..1 -> Value] \cup [1..2 -> Value]

PlacedCount ==
  /\ phase = "number" => placed = 0
  /\ phase \notin {"number", "setup"} => placed = Len(args)

HomesInv ==
  /\ homes \in Seq(Run)
  /\ Len(homes) <= fixedArgCount
  /\ phase \in Early => homes = << >>
  /\ phase \in Landed => Len(homes) = fixedArgCount
  /\ \A p \in DOMAIN homes : homes[p] = ArgWords(p)

TailInv ==
  /\ tail \in Seq(Run)
  /\ phase \notin Landed => tail = << >>
  /\ TailArrives

FrameInv ==
  /\ MachineTypeOK
  /\ PlacedCount
  /\ ArgumentsInPlace
  /\ StackLevels
  /\ OutgoingFits
  /\ CallerLocalsKept
  /\ ReturnAddressKept
  /\ SavedWordsKept
  /\ HomesInv
  /\ TailInv

IInv == NumberingInv /\ FrameInv

-----------------------------------------------------------------------------
(* The operators.                                                          *)

(* Induction over the naturals, for a set instead of a predicate. *)
LEMMA NatSetInduction ==
  ASSUME NEW S, 0 \in S, \A n \in Nat : n \in S => n + 1 \in S
  PROVE  \A n \in Nat : n \in S
<1>. DEFINE T == {n \in Nat : n \notin S}
            R == OpToRel(<, Nat)
<1>. SUFFICES ASSUME T # {} PROVE FALSE
  OBVIOUS
<1>1. IsWellFoundedOn(R, Nat)
  BY NatLessThanWellFounded
<1>2. T \subseteq Nat
  OBVIOUS
<1>3. R = {ss \in Nat \X Nat : ss[1] < ss[2]}
  BY DEF OpToRel
<1>. HIDE DEF R
<1>4. PICK m \in T : \A y \in T : ~(<<y, m>> \in R)
  <2>. HIDE DEF T
  <2>. QED BY <1>1, <1>2, WFMin
<1>5. m \in Nat /\ m # 0
  OBVIOUS
<1>6. m - 1 \in T
  BY <1>5
<1>7. <<m - 1, m>> \in R
  <2>1. <<m - 1, m>> \in Nat \X Nat
    BY <1>5, <1>6
  <2>2. <<m - 1, m>>[1] < <<m - 1, m>>[2]
    BY <1>5
  <2>. QED BY <2>1, <2>2, <1>3
<1>. QED BY <1>4, <1>6, <1>7

LEMMA WidthIs == \A w \in BOOLEAN : Width(w) \in {1, 2}
BY DEF Width, Caller!Width

LEMMA BankIs == Bank = {"int", "float"} /\ Kind = {"int", "float", "stack"} /\ Bank \subseteq Kind
BY DEF Bank, Kind, Caller!Bank, Caller!Kind

(* The caller's argument lists are those the numbering is proved about. *)
LEMMA SlotsAssumption == CallerSlots!ArgSlotsAssumption
BY CallBoundaryAssumption
DEF CallerSlots!ArgSlotsAssumption, CallerSlots!Arg, CallerSlots!Bank, Caller!Arg, Caller!Bank

LEMMA NumberingTypes ==
  ASSUME NumberingInv
  PROVE  /\ args \in Seq(Arg) /\ Len(args) \in Nat /\ DOMAIN args = 1..Len(args)
         /\ \A j \in 1..Len(args) : args[j] \in Arg /\ args[j].bank \in Bank /\ args[j].wide \in BOOLEAN
         /\ fixedArgCount \in Nat /\ fixedArgCount <= Len(args)
         /\ Len(params) = fixedArgCount /\ DOMAIN params = 1..fixedArgCount
         /\ \A j \in 1..fixedArgCount : params[j] = args[j]
         /\ callerSlots \in Seq(ArgSlot) /\ Len(callerSlots) \in Nat /\ Len(callerSlots) <= Len(args)
         /\ callerUsed \in Cursors
         /\ Len(paramArrival) \in Nat
<1>1. Seq(Caller!Arg) = Seq(Arg)
  BY DEF Arg, Bank, Caller!Arg
<1>2. args \in Seq(Arg)
  <2>1. args \in ArgLists
    BY DEF NumberingInv
  <2>. QED BY <1>1, <2>1, CallBoundaryAssumption
<1>3. fixedArgCount \in 0..Len(args) /\ params = SubSeq(args, 1, fixedArgCount)
  BY DEF NumberingInv
<1>4. CallerSlots!TypeOK
  BY DEF NumberingInv, CallerSlots!IInv
<1>5. CallerSlots!ArgSlot = ArgSlot /\ CallerSlots!Kind = Kind
  BY DEF CallerSlots!ArgSlot, ArgSlot, CallerSlots!Kind, Kind, CallerSlots!Bank, Caller!Kind, Caller!Bank
<1>6. callerSlots \in Seq(ArgSlot) /\ Len(callerSlots) <= Len(args) /\ callerUsed \in Cursors
  BY <1>4, <1>5 DEF CallerSlots!TypeOK, Cursors
<1>7. paramArrival \in Seq(ArgSlot)
  BY DEF NumberingInv
<1>8. \A j \in 1..Len(args) : args[j] \in Arg
  BY <1>2
<1>9. \A a \in Arg : a.bank \in Bank /\ a.wide \in BOOLEAN
  BY DEF Arg
<1>. HIDE DEF Arg
<1>10. /\ Len(params) = fixedArgCount /\ DOMAIN params = 1..fixedArgCount
       /\ \A j \in 1..fixedArgCount : params[j] = args[j]
  BY <1>2, <1>3
<1>. QED BY <1>2, <1>3, <1>6, <1>7, <1>8, <1>9, <1>10

(* The caller's loop body, as a function of the cursors. *)
LEMMA CallerStep ==
  ASSUME NumberingInv, Caller!AssignOne
  PROVE  LET n == Len(callerSlots) IN
         /\ n < Len(args)
         /\ callerSlots' = Append(callerSlots, SlotFor(callerUsed, args[n + 1], n + 1 <= fixedArgCount))
         /\ callerUsed' = CursorsFor(callerUsed, args[n + 1], n + 1 <= fixedArgCount)
         /\ args' = args /\ fixedArgCount' = fixedArgCount
<1>. DEFINE n == Len(callerSlots)
<1>1. args \in Seq(Arg) /\ n \in Nat /\ fixedArgCount \in Nat
  BY NumberingTypes
<1>2. /\ Caller!i = n + 1 /\ Caller!i \in DOMAIN args /\ n < Len(args)
  BY <1>1 DEF Caller!AssignOne, Caller!AssignTail, Caller!AssignRegister, Caller!AssignStack, Caller!i
<1>3. CASE Caller!AssignTail
  BY <1>1, <1>2, <1>3 DEF Caller!AssignTail, Caller!Emit, SlotFor, CursorsFor, Width
<1>4. CASE Caller!AssignRegister
  BY <1>1, <1>2, <1>4
  DEF Caller!AssignRegister, Caller!Emit, Caller!FitsRegisters, Caller!StartRegister,
      SlotFor, CursorsFor, Fits, Start, Width
<1>5. CASE Caller!AssignStack
  BY <1>1, <1>2, <1>5
  DEF Caller!AssignStack, Caller!Emit, Caller!FitsRegisters, Caller!StartRegister,
      SlotFor, CursorsFor, Fits, Start, Width
<1>. QED BY <1>2, <1>3, <1>4, <1>5 DEF Caller!AssignOne

(* The callee's, on its declared parameters: there is no tail. *)
LEMMA CalleeStep ==
  ASSUME NumberingInv, Callee!AssignOne
  PROVE  LET n == Len(paramArrival) IN
         /\ n < fixedArgCount
         /\ paramArrival' = Append(paramArrival, SlotFor(calleeUsed, args[n + 1], TRUE))
         /\ calleeUsed' = CursorsFor(calleeUsed, args[n + 1], TRUE)
         /\ params' = params
<1>. DEFINE n == Len(paramArrival)
<1>1. /\ args \in Seq(Arg) /\ n \in Nat /\ fixedArgCount \in 0..Len(args)
      /\ Len(params) = fixedArgCount /\ DOMAIN params = 1..fixedArgCount
      /\ \A j \in 1..fixedArgCount : params[j] = args[j]
  BY NumberingTypes
<1>2. /\ Callee!i = n + 1 /\ Callee!i \in DOMAIN params /\ n < fixedArgCount /\ params[n + 1] = args[n + 1]
  BY <1>1 DEF Callee!AssignOne, Callee!AssignTail, Callee!AssignRegister, Callee!AssignStack, Callee!i
<1>3. ~Callee!AssignTail
  BY <1>1, <1>2 DEF Callee!AssignTail
<1>4. CASE Callee!AssignRegister
  BY <1>1, <1>2, <1>4
  DEF Callee!AssignRegister, Callee!Emit, Callee!FitsRegisters, Callee!StartRegister,
      SlotFor, CursorsFor, Fits, Start, Width, Callee!Width, Caller!Width
<1>5. CASE Callee!AssignStack
  BY <1>1, <1>2, <1>5
  DEF Callee!AssignStack, Callee!Emit, Callee!FitsRegisters, Callee!StartRegister,
      SlotFor, CursorsFor, Fits, Start, Width, Callee!Width, Caller!Width
<1>. QED BY <1>2, <1>3, <1>4, <1>5 DEF Callee!AssignOne

(* One turn moves the stack cursor exactly past the slot it hands out. *)
LEMMA StepTypes ==
  ASSUME NEW u \in Cursors, NEW a \in Arg, NEW declared \in BOOLEAN
  PROVE  LET s == SlotFor(u, a, declared)
             v == CursorsFor(u, a, declared) IN
         /\ s \in ArgSlot /\ s.wide = a.wide
         /\ v \in Cursors
         /\ s.kind = "stack" => s.index = u["stack"] /\ v["stack"] = u["stack"] + Width(a.wide)
         /\ s.kind # "stack" => v["stack"] = u["stack"]
         /\ ~declared => s.kind = "stack"
<1>1. a.bank \in Bank /\ a.wide \in BOOLEAN /\ a.bank \in Kind /\ "stack" \in Kind /\ a.bank # "stack"
  BY BankIs DEF Arg
<1>2. Width(a.wide) \in {1, 2}
  BY <1>1, WidthIs
<1>3. \A k \in Kind : u[k] \in Nat
  BY DEF Cursors
<1>4. Start(u, a) \in Nat
  BY <1>1, <1>3 DEF Start
<1>5. CASE declared /\ Fits(u, a)
  BY <1>1, <1>2, <1>3, <1>4, <1>5 DEF SlotFor, CursorsFor, ArgSlot, Cursors
<1>6. CASE ~(declared /\ Fits(u, a))
  <2>1. SlotFor(u, a, declared) = [kind |-> "stack", index |-> u["stack"], wide |-> a.wide]
    BY <1>6 DEF SlotFor
  <2>2. CASE declared
    BY <2>1, <2>2, <1>1, <1>2, <1>3, <1>6, CallBoundaryAssumption DEF CursorsFor, ArgSlot, Cursors
  <2>3. CASE ~declared
    BY <2>1, <2>3, <1>1, <1>2, <1>3 DEF CursorsFor, ArgSlot, Cursors
  <2>. QED BY <2>2, <2>3
<1>. QED BY <1>5, <1>6

(* What the numbering of ArgSlotsProofs.tla promises the caller. *)
LEMMA SlotFacts ==
  ASSUME NumberingInv
  PROVE  /\ \A j \in 1..Len(callerSlots) :
              /\ callerSlots[j] \in ArgSlot
              /\ callerSlots[j].kind \in Bank \cup {"stack"} /\ callerSlots[j].index \in Nat
              /\ callerSlots[j].wide = args[j].wide
              /\ Width(callerSlots[j].wide) \in {1, 2}
              /\ callerSlots[j].kind = "stack" => End(callerSlots[j]) <= callerUsed["stack"]
              /\ callerSlots[j].kind \in Bank => End(callerSlots[j]) <= ArgRegisterCount
         /\ \A j, k \in 1..Len(callerSlots) :
              (j # k /\ callerSlots[j].kind = callerSlots[k].kind)
                => Cells(callerSlots[j]) \cap Cells(callerSlots[k]) = {}
<1>1. CallerSlots!IInv
  BY DEF NumberingInv
<1>2. callerSlots \in Seq(ArgSlot) /\ DOMAIN callerSlots = 1..Len(callerSlots) /\ Len(callerSlots) \in Nat
  BY NumberingTypes
<1>3. \A s \in ArgSlot : s.kind \in Bank \cup {"stack"} /\ s.index \in Nat /\ s.wide \in BOOLEAN /\ Width(s.wide) \in {1, 2}
  BY BankIs, WidthIs DEF ArgSlot
<1>4. \A j \in 1..Len(callerSlots) : callerSlots[j] \in ArgSlot
  BY <1>2
<1>5. \A s : CallerSlots!End(s) = End(s)
  BY DEF CallerSlots!End, End, CallerSlots!Width, Width, Caller!Width
<1>6. \A j \in 1..Len(callerSlots) : callerSlots[j].wide = args[j].wide
  BY <1>1, <1>2 DEF CallerSlots!IInv, CallerSlots!SlotsMatch
<1>7. /\ \A b \in Bank : callerUsed[b] <= ArgRegisterCount
      /\ \A j \in 1..Len(callerSlots) : End(callerSlots[j]) <= callerUsed[callerSlots[j].kind]
  BY <1>1, <1>2, <1>5 DEF CallerSlots!IInv, CallerSlots!BelowCursor, CallerSlots!Bank, Bank, Caller!Bank
<1>8. \A b \in Bank : callerUsed[b] \in Nat
  BY NumberingTypes, BankIs DEF Cursors
<1>9. \A j \in 1..Len(callerSlots) : End(callerSlots[j]) \in Nat
  BY <1>3, <1>4 DEF End
<1>10. \A j \in 1..Len(callerSlots) : callerSlots[j].kind \in Bank => End(callerSlots[j]) <= ArgRegisterCount
  BY <1>7, <1>8, <1>9, CallBoundaryAssumption
<1>11. \A j, k \in 1..Len(callerSlots) :
          (j < k /\ callerSlots[j].kind = callerSlots[k].kind) => End(callerSlots[j]) <= callerSlots[k].index
  BY <1>1, <1>2, <1>5 DEF CallerSlots!IInv, CallerSlots!InOrder
<1>12. ASSUME NEW j \in 1..Len(callerSlots), NEW k \in 1..Len(callerSlots),
              j # k, callerSlots[j].kind = callerSlots[k].kind
       PROVE  Cells(callerSlots[j]) \cap Cells(callerSlots[k]) = {}
  <2>1. End(callerSlots[j]) <= callerSlots[k].index \/ End(callerSlots[k]) <= callerSlots[j].index
    BY <1>11, <1>12
  <2>2. /\ callerSlots[j].index \in Nat /\ Width(callerSlots[j].wide) \in Nat
        /\ callerSlots[k].index \in Nat /\ Width(callerSlots[k].wide) \in Nat
    BY <1>3, <1>4
  <2>3. /\ Cells(callerSlots[j]) = callerSlots[j].index .. (End(callerSlots[j]) - 1)
        /\ Cells(callerSlots[k]) = callerSlots[k].index .. (End(callerSlots[k]) - 1)
    BY <2>2 DEF Cells, Caller!Cells, Width, Caller!Width, End
  <2>4. End(callerSlots[j]) \in Nat /\ End(callerSlots[k]) \in Nat
    BY <1>9
  <2>. QED BY SMTT(30), <2>1, <2>2, <2>3, <2>4
<1>. QED BY <1>3, <1>4, <1>6, <1>7, <1>10, <1>12

LEMMA NumberArgumentKeepsNumbering ==
  ASSUME NumberingInv, NumberArgument
  PROVE  NumberingInv'
<1>. DEFINE n == Len(callerSlots)
            a == args[n + 1]
            declared == n + 1 <= fixedArgCount
<1>1. Caller!AssignOne /\ phase = "number" /\ phase' = phase /\ UNCHANGED <<calleeVars, tail, cursor>>
  BY DEF NumberArgument
<1>2. /\ n < Len(args) /\ n \in Nat
      /\ callerSlots' = Append(callerSlots, SlotFor(callerUsed, a, declared))
      /\ callerUsed' = CursorsFor(callerUsed, a, declared)
      /\ args' = args /\ fixedArgCount' = fixedArgCount
  BY <1>1, CallerStep, NumberingTypes
<1>3. a \in Arg /\ declared \in BOOLEAN /\ callerUsed \in Cursors
  BY <1>2, NumberingTypes
<1>. DEFINE s == SlotFor(callerUsed, a, declared)
            v == CursorsFor(callerUsed, a, declared)
<1>4. /\ s \in ArgSlot /\ v \in Cursors
      /\ v["stack"] <= callerUsed["stack"] + 2 /\ v["stack"] \in Nat
  <2>1. /\ s \in ArgSlot /\ v \in Cursors
        /\ s.kind = "stack" => v["stack"] = callerUsed["stack"] + Width(a.wide)
        /\ s.kind # "stack" => v["stack"] = callerUsed["stack"]
    BY <1>3, StepTypes
  <2>2. Width(a.wide) \in {1, 2} /\ callerUsed["stack"] \in Nat
    BY <1>3, WidthIs, BankIs DEF Arg, Cursors
  <2>3. v["stack"] \in Nat
    BY <2>1, BankIs DEF Cursors
  <2>. QED BY <2>1, <2>2, <2>3
<1>5. /\ Len(callerSlots') = n + 1
      /\ \A j \in 1..n : callerSlots'[j] = callerSlots[j]
      /\ callerSlots'[n + 1] = s
  BY <1>2, <1>4, NumberingTypes
<1>. HIDE DEF s, v, a, declared, n
<1>6. CallerSlots!IInv'
  <2>1. CallerSlots!AssignOne
    BY <1>1
    DEF Caller!AssignOne, Caller!AssignTail, Caller!AssignRegister, Caller!AssignStack, Caller!i,
        Caller!Emit, Caller!FitsRegisters, Caller!StartRegister, Caller!Width,
        CallerSlots!AssignOne, CallerSlots!AssignTail, CallerSlots!AssignRegister, CallerSlots!AssignStack,
        CallerSlots!i, CallerSlots!Emit, CallerSlots!FitsRegisters, CallerSlots!StartRegister, CallerSlots!Width
  <2>2. CallerSlots!IInv
    BY DEF NumberingInv
  <2>3. PICK slot \in CallerSlots!ArgSlot : CallerSlots!Places(slot)
    BY <2>1, <2>2, SlotsAssumption, CallerSlots!AssignOnePlaces
  <2>. QED BY <2>2, <2>3, SlotsAssumption, CallerSlots!PlacesKeepsIInv
<1>7. \E h : History(h)' /\ Follows(h)'
  <2>1. PICK h : History(h) /\ Follows(h)
    BY DEF NumberingInv
  <2>2. PICK g \in [0..(n + 1) -> Cursors] : (\A j \in 0..n : g[j] = h[j]) /\ g[n + 1] = v
    <3>. DEFINE g == [j \in 0..(n + 1) |-> IF j = n + 1 THEN v ELSE h[j]]
    <3>1. g \in [0..(n + 1) -> Cursors] /\ (\A j \in 0..n : g[j] = h[j]) /\ g[n + 1] = v
      BY <2>1, <1>2, <1>4 DEF History, n
    <3>. QED BY <3>1
  <2>3. h[n] = callerUsed /\ h[n]["stack"] <= 2 * n /\ h[n]["stack"] \in Nat
    BY <2>1, <1>2, <1>3, BankIs DEF History, n, Cursors
  <2>4. \A j \in 1..(n + 1) :
           /\ callerSlots'[j] = SlotFor(g[j - 1], args[j], j <= fixedArgCount)
           /\ g[j] = CursorsFor(g[j - 1], args[j], j <= fixedArgCount)
    <3>. SUFFICES ASSUME NEW j \in 1..(n + 1)
                  PROVE  /\ callerSlots'[j] = SlotFor(g[j - 1], args[j], j <= fixedArgCount)
                         /\ g[j] = CursorsFor(g[j - 1], args[j], j <= fixedArgCount)
      OBVIOUS
    <3>1. CASE j \in 1..n
      <4>1. /\ callerSlots[j] = SlotFor(h[j - 1], args[j], j <= fixedArgCount)
            /\ h[j] = CursorsFor(h[j - 1], args[j], j <= fixedArgCount)
        BY <2>1, <3>1 DEF History, n
      <4>2. g[j] = h[j] /\ g[j - 1] = h[j - 1]
        BY <2>2, <1>2, <3>1
      <4>. QED BY <4>1, <4>2, <1>5, <3>1
    <3>2. CASE j = n + 1
      <4>1. g[j - 1] = callerUsed
        BY <2>2, <2>3, <1>2, <3>2
      <4>. QED BY <4>1, <2>2, <1>5, <3>2 DEF s, v, a, declared
    <3>3. n \in Nat => (j \in 1..n \/ j = n + 1)
      OBVIOUS
    <3>. QED BY <3>1, <3>2, <3>3, <1>2
  <2>5. \A j \in 0..(n + 1) : g[j]["stack"] <= 2 * j
    <3>1. v["stack"] <= 2 * (n + 1)
      BY <2>3, <1>2, <1>4
    <3>2. \A j \in 0..n : g[j]["stack"] <= 2 * j
      BY <2>1, <2>2 DEF History, n
    <3>3. n \in Nat => \A j \in 0..(n + 1) : j \in 0..n \/ j = n + 1
      OBVIOUS
    <3>. QED BY <3>1, <3>2, <3>3, <2>2, <1>2
  <2>6. History(g)'
    <3>1. Len(callerSlots') = n + 1 /\ args' = args /\ fixedArgCount' = fixedArgCount
      BY <1>2, <1>5
    <3>2. callerUsed' = g[n + 1]
      BY <1>2, <2>2 DEF v
    <3>3. g[0] = [k \in Kind |-> 0]
      <4>1. h[0] = [k \in Kind |-> 0]
        BY <2>1 DEF History
      <4>. QED BY <4>1, <2>2, <1>2
    <3>4. g \in [0..(n + 1) -> Cursors]
      BY <2>2
    <3>. QED BY <3>1, <3>2, <3>3, <3>4, <2>4, <2>5 DEF History
  <2>7. Follows(g)'
    <3>1. Len(paramArrival) \in 0..n
      BY NumberingTypes DEF NumberingInv, n
    <3>. QED BY <3>1, <2>1, <2>2, <1>1 DEF Follows, calleeVars
  <2>. QED BY <2>6, <2>7
<1>8. /\ Len(paramArrival) <= Len(callerSlots')
      /\ \A j \in 1..Len(paramArrival) : paramArrival[j] = callerSlots'[j]
  BY <1>2, <1>5, NumberingTypes DEF NumberingInv, n
<1>. QED BY <1>1, <1>2, <1>6, <1>7, <1>8 DEF NumberingInv, calleeVars

LEMMA InitNumbering ==
  ASSUME Init
  PROVE  NumberingInv
<1>1. /\ args \in ArgLists /\ fixedArgCount \in 0..Len(args)
      /\ callerUsed = [k \in Caller!Kind |-> 0] /\ callerSlots = << >>
      /\ params = SubSeq(args, 1, fixedArgCount)
      /\ calleeUsed = [k \in Kind |-> 0] /\ paramArrival = << >>
      /\ phase = "number" /\ tail = << >>
  BY DEF Init, Caller!Init
<1>2. CallerSlots!IInv
  <2>1. CallerSlots!Init
    BY <1>1 DEF CallerSlots!Init, CallerSlots!Kind, CallerSlots!Bank, Caller!Kind, Caller!Bank
  <2>. QED BY <2>1, SlotsAssumption, CallerSlots!InitIInv
<1>. DEFINE zero == [k \in Kind |-> 0]
            h == [j \in 0..0 |-> zero]
<1>3. History(h) /\ Follows(h)
  <2>1. zero \in Cursors /\ zero["stack"] = 0
    BY BankIs DEF Cursors
  <2>2. callerUsed = zero /\ calleeUsed = zero /\ Len(callerSlots) = 0 /\ Len(paramArrival) = 0
    BY <1>1 DEF Kind
  <2>. HIDE DEF zero
  <2>3. h \in [0..0 -> Cursors] /\ h[0] = zero /\ 1..0 = {}
    BY <2>1
  <2>. HIDE DEF h
  <2>4. h[0] = [k \in Kind |-> 0]
    BY <2>3 DEF zero
  <2>. QED BY <2>1, <2>2, <2>3, <2>4, <1>1 DEF History, Follows
<1>. HIDE DEF h
<1>4. fixedArgCount + Len(tail) <= Len(args)
  BY <1>1, CallBoundaryAssumption
<1>. QED BY <1>1, <1>2, <1>3, <1>4 DEF NumberingInv

LEMMA NumberParameterKeepsNumbering ==
  ASSUME NumberingInv, NumberParameter
  PROVE  NumberingInv'
<1>. DEFINE n == Len(paramArrival)
            a == args[n + 1]
            s == SlotFor(calleeUsed, a, TRUE)
            v == CursorsFor(calleeUsed, a, TRUE)
<1>1. Callee!AssignOne /\ phase = "number" /\ phase' = phase /\ UNCHANGED <<callerVars, tail, cursor>>
  BY DEF NumberParameter
<1>2. Len(callerSlots) = Len(args)
  BY DEF NumberParameter, Caller!Done
<1>3. /\ n < fixedArgCount /\ n \in Nat /\ fixedArgCount \in Nat /\ fixedArgCount <= Len(args) /\ Len(args) \in Nat
      /\ paramArrival' = Append(paramArrival, s)
      /\ calleeUsed' = v /\ params' = params
  BY <1>1, CalleeStep, NumberingTypes
<1>4. /\ a \in Arg /\ n + 1 \in 1..Len(callerSlots) /\ n + 1 <= fixedArgCount /\ (n + 1) - 1 = n
      /\ paramArrival \in Seq(ArgSlot)
  BY <1>2, <1>3, NumberingTypes DEF NumberingInv
<1>. HIDE DEF s, v, a, n
<1>5. PICK h : History(h) /\ Follows(h)
  BY DEF NumberingInv
<1>6. calleeUsed = h[n]
  BY <1>5 DEF Follows, n
<1>7. callerSlots[n + 1] = s /\ h[n + 1] = v
  <2>1. /\ callerSlots[n + 1] = SlotFor(h[(n + 1) - 1], args[n + 1], n + 1 <= fixedArgCount)
        /\ h[n + 1] = CursorsFor(h[(n + 1) - 1], args[n + 1], n + 1 <= fixedArgCount)
    BY <1>4, <1>5 DEF History
  <2>2. (n + 1 <= fixedArgCount) = TRUE
    BY <1>4
  <2>. QED BY <2>1, <2>2, <1>4, <1>6 DEF s, v, a
<1>8. s \in ArgSlot
  BY <1>4, <1>7, SlotFacts
<1>9. /\ paramArrival' \in Seq(ArgSlot) /\ Len(paramArrival') = n + 1
      /\ \A j \in 1..n : paramArrival'[j] = paramArrival[j]
      /\ paramArrival'[n + 1] = s
  BY <1>3, <1>4, <1>8 DEF n
<1>10. \A j \in 1..(n + 1) : paramArrival'[j] = callerSlots[j]
  <2>1. n \in Nat => \A j \in 1..(n + 1) : j \in 1..n \/ j = n + 1
    OBVIOUS
  <2>2. \A j \in 1..n : paramArrival[j] = callerSlots[j]
    BY DEF NumberingInv, n
  <2>. QED BY <2>1, <2>2, <1>3, <1>7, <1>9
<1>11. CallerSlots!IInv'
  <2>1. CallerSlots!IInv /\ UNCHANGED CallerSlots!vars
    BY <1>1 DEF NumberingInv, callerVars, CallerSlots!vars
  <2>. QED BY <2>1, SlotsAssumption, CallerSlots!StutterKeepsIInv
<1>12. History(h)' /\ Follows(h)'
  BY <1>1, <1>3, <1>5, <1>7, <1>9 DEF History, Follows, callerVars
<1>. QED BY <1>1, <1>2, <1>3, <1>4, <1>9, <1>10, <1>11, <1>12 DEF NumberingInv, callerVars

(* Once both ends are numbered the numbering stays; only the va_list moves. *)
LEMMA NumberingKept ==
  ASSUME NumberingInv, UNCHANGED <<callerVars, calleeVars>>,
         phase' # "number" => (Len(callerSlots) = Len(args) /\ Len(paramArrival) = fixedArgCount),
         fixedArgCount + Len(tail') <= Len(args),
         \A h : (History(h) /\ Follows(h) /\ phase' = "body")
                  => cursor' = h[fixedArgCount + Len(tail')]["stack"]
  PROVE  NumberingInv'
<1>1. CallerSlots!IInv'
  <2>1. CallerSlots!IInv /\ UNCHANGED CallerSlots!vars
    BY DEF NumberingInv, callerVars, CallerSlots!vars
  <2>. QED BY <2>1, SlotsAssumption, CallerSlots!StutterKeepsIInv
<1>2. \E h : History(h)' /\ Follows(h)'
  <2>1. PICK h : History(h) /\ Follows(h)
    BY DEF NumberingInv
  <2>2. History(h)'
    BY <2>1 DEF History, callerVars
  <2>3. Follows(h)'
    BY <2>1 DEF Follows, callerVars, calleeVars
  <2>. QED BY <2>2, <2>3
<1>. QED BY <1>1, <1>2 DEF NumberingInv, callerVars, calleeVars

(* The words the callee counted on the stack end where the caller's        *)
(* numbering stood after the declared parameters.                          *)
LEMMA CountedWords ==
  ASSUME NumberingInv, Len(paramArrival) = fixedArgCount, NEW h, History(h)
  PROVE  FixedStackArgWords = h[fixedArgCount]["stack"]
<1>. DEFINE m == Len(paramArrival)
            words(j) == IF paramArrival[j].kind = "stack" THEN Width(paramArrival[j].wide) ELSE 0
            Sums(f) == f = [j \in 0..m |-> IF j = 0 THEN 0 ELSE f[j - 1] + words(j)]
            g == [j \in 0..m |-> h[j]["stack"]]
<1>1. m \in Nat /\ m <= Len(callerSlots) /\ Len(callerSlots) \in Nat
  BY NumberingTypes DEF NumberingInv
<1>2. \A j \in 0..m : h[j] \in Cursors /\ h[j]["stack"] \in Nat
  <2>1. \A j \in 0..m : j \in 0..Len(callerSlots)
    BY <1>1
  <2>2. \A j \in 0..m : h[j] \in Cursors
    BY <2>1 DEF History
  <2>. QED BY <2>2, BankIs DEF Cursors
<1>3. h[0]["stack"] = 0
  BY BankIs DEF History
<1>4. \A j \in 1..m : j - 1 \in 0..m /\ h[j]["stack"] = h[j - 1]["stack"] + words(j)
  <2>. SUFFICES ASSUME NEW j \in 1..m
                PROVE  j - 1 \in 0..m /\ h[j]["stack"] = h[j - 1]["stack"] + words(j)
    OBVIOUS
  <2>1. j \in 1..Len(callerSlots) /\ j - 1 \in 0..m /\ j \in 1..Len(args)
    BY <1>1, NumberingTypes
  <2>2. /\ paramArrival[j] = SlotFor(h[j - 1], args[j], j <= fixedArgCount)
        /\ h[j] = CursorsFor(h[j - 1], args[j], j <= fixedArgCount)
    BY <2>1 DEF NumberingInv, History
  <2>3. args[j] \in Arg /\ h[j - 1] \in Cursors /\ (j <= fixedArgCount) \in BOOLEAN /\ h[j - 1]["stack"] \in Nat
    BY <2>1, <1>2, NumberingTypes
  <2>4. /\ paramArrival[j].wide = args[j].wide
        /\ paramArrival[j].kind = "stack" => h[j]["stack"] = h[j - 1]["stack"] + Width(args[j].wide)
        /\ paramArrival[j].kind # "stack" => h[j]["stack"] = h[j - 1]["stack"]
    <3>. DEFINE a == args[j]
                u == h[j - 1]
                d == j <= fixedArgCount
    <3>. HIDE DEF a, u, d
    <3>1. a \in Arg /\ u \in Cursors /\ d \in BOOLEAN
      BY <2>3 DEF a, u, d
    <3>2. paramArrival[j] = SlotFor(u, a, d) /\ h[j] = CursorsFor(u, a, d)
      BY <2>2 DEF a, u, d
    <3>3. /\ paramArrival[j].wide = a.wide
          /\ paramArrival[j].kind = "stack" => h[j]["stack"] = u["stack"] + Width(a.wide)
          /\ paramArrival[j].kind # "stack" => h[j]["stack"] = u["stack"]
      BY <3>1, <3>2, StepTypes
    <3>. QED BY <3>3 DEF a, u
  <2>. QED BY <2>1, <2>3, <2>4
<1>. HIDE DEF m, words
<1>5. Sums(g)
  <2>1. \A j \in 0..m : g[j] = IF j = 0 THEN 0 ELSE g[j - 1] + words(j)
    BY <1>1, <1>3, <1>4
  <2>. QED BY <2>1
<1>. HIDE DEF Sums
<1>6. StackArgWords = CHOOSE f : Sums(f)
  BY DEF StackArgWords, Sums, m, words
<1>7. Sums(StackArgWords)
  BY <1>5, <1>6
<1>8. \A j \in 0..m : StackArgWords[j] = IF j = 0 THEN 0 ELSE StackArgWords[j - 1] + words(j)
  BY <1>7 DEF Sums
<1>. DEFINE S == {j \in Nat : j <= m => StackArgWords[j] = g[j]}
<1>9. \A j \in Nat : j \in S
  <2>1. 0 \in S
    BY <1>1, <1>3, <1>8
  <2>2. ASSUME NEW j \in Nat, j \in S PROVE j + 1 \in S
    <3>. SUFFICES ASSUME j + 1 <= m PROVE StackArgWords[j + 1] = g[j + 1]
      OBVIOUS
    <3>1. j + 1 \in 1..m /\ (j + 1) - 1 = j /\ j \in 0..m /\ j + 1 # 0
      BY <1>1
    <3>2. StackArgWords[j] = g[j] /\ g[j] = h[j]["stack"] /\ g[j + 1] = h[j + 1]["stack"]
      BY <2>2, <3>1
    <3>3. StackArgWords[j + 1] = StackArgWords[j] + words(j + 1)
      BY <1>8, <3>1
    <3>4. h[j + 1]["stack"] = h[j]["stack"] + words(j + 1)
      BY <1>4, <3>1
    <3>. QED BY <3>2, <3>3, <3>4
  <2>. HIDE DEF S
  <2>. QED BY <2>1, <2>2, NatSetInduction
<1>10. StackArgWords[m] = h[m]["stack"]
  <2>1. m \in S
    BY <1>1, <1>9
  <2>2. m \in 0..m /\ m <= m
    BY <1>1
  <2>3. StackArgWords[m] = g[m]
    BY <2>1, <2>2
  <2>. QED BY <2>2, <2>3
<1>. QED BY <1>10 DEF FixedStackArgWords, m

(* computeOutgoingSlotCount()'s maximum is the stack cursor itself. *)
LEMMA OutgoingWords ==
  ASSUME NumberingInv
  PROVE  StackWords(callerSlots) = callerUsed["stack"] /\ callerUsed["stack"] \in Nat
<1>. DEFINE W == {0} \cup {s.index + Width(s.wide) : s \in StackSlots(callerSlots)}
            u == callerUsed["stack"]
<1>1. u \in Nat
  BY NumberingTypes, BankIs DEF Cursors
<1>2. DOMAIN callerSlots = 1..Len(callerSlots)
  BY NumberingTypes
<1>3. ASSUME NEW s \in StackSlots(callerSlots) PROVE End(s) <= u /\ End(s) \in Nat
  <2>1. PICK j \in 1..Len(callerSlots) : s = callerSlots[j] /\ s.kind = "stack"
    BY <1>2 DEF StackSlots
  <2>2. End(s) \in Nat
    BY <2>1, SlotFacts DEF End
  <2>. QED BY <2>1, <2>2, SlotFacts
<1>4. \A x \in W : x \in Nat /\ x <= u
  BY <1>1, <1>3 DEF End
<1>5. u \in W
  <2>1. CASE u = 0
    BY <2>1
  <2>2. CASE u # 0
    <3>1. u - 1 \in 0..(u - 1)
      BY <1>1, <2>2
    <3>2. PICK j \in DOMAIN callerSlots : callerSlots[j].kind = "stack" /\ u - 1 \in CallerSlots!Cells(callerSlots[j])
      BY <3>1 DEF NumberingInv, CallerSlots!IInv, CallerSlots!CursorIsDense
    <3>3. /\ callerSlots[j] \in StackSlots(callerSlots)
          /\ callerSlots[j].index \in Nat /\ Width(callerSlots[j].wide) \in {1, 2}
      BY <3>2, <1>2, SlotFacts DEF StackSlots
    <3>4. u - 1 <= End(callerSlots[j]) - 1
      BY <3>2, <3>3 DEF CallerSlots!Cells, CallerSlots!Width, End, Width, Caller!Width
    <3>5. End(callerSlots[j]) <= u /\ End(callerSlots[j]) \in Nat
      BY <1>3, <3>3
    <3>6. End(callerSlots[j]) = u
      BY <1>1, <3>4, <3>5
    <3>. QED BY <3>3, <3>6 DEF End
  <2>. QED BY <2>1, <2>2
<1>6. Max(W) = u
  <2>. HIDE DEF W, u
  <2>1. u \in W /\ \A y \in W : u >= y
    BY <1>1, <1>4, <1>5
  <2>2. Max(W) \in W /\ \A y \in W : Max(W) >= y
    BY <2>1 DEF Max
  <2>3. Max(W) \in Nat /\ Max(W) <= u
    BY <1>4, <2>2
  <2>4. Max(W) >= u
    BY <2>1, <2>2
  <2>. QED BY <1>1, <2>3, <2>4
<1>. QED BY <1>1, <1>6 DEF StackWords

-----------------------------------------------------------------------------
(* The frames.                                                             *)

(* The stack cursor grows by at most two words an argument. *)
LEMMA StackCursorBound ==
  ASSUME NumberingInv
  PROVE  callerUsed["stack"] \in Nat /\ callerUsed["stack"] <= 2 * Len(args)
<1>1. PICK h : History(h) /\ Follows(h)
  BY DEF NumberingInv
<1>2. callerUsed = h[Len(callerSlots)] /\ h[Len(callerSlots)]["stack"] <= 2 * Len(callerSlots)
  BY <1>1, NumberingTypes DEF History
<1>3. callerUsed["stack"] \in Nat
  BY OutgoingWords
<1>. QED BY <1>2, <1>3, NumberingTypes

(* Every address the two frames use is one of the modelled words. *)
LEMMA FrameReach ==
  ASSUME NumberingInv, MachineTypeOK, OutgoingFits
  PROVE  /\ saved \in Nat /\ LocalWords \in Nat /\ outgoing \in Nat
         /\ phase # "number" => callerUsed["stack"] <= outgoing
         /\ -(3 + saved) .. (outgoing + LocalWords) \subseteq Words
         /\ -(3 + saved) .. (callerUsed["stack"] + LocalWords) \subseteq Words
<1>1. PICK o \in OtherCallWords :
        outgoing = IF phase = "number" \/ o >= callerUsed["stack"] THEN o ELSE callerUsed["stack"]
  BY DEF OutgoingFits
<1>2. saved \in SavedCounts /\ args \in ArgLists /\ outgoing \in Nat
  BY DEF MachineTypeOK, NumberingInv
<1>3. saved \in Nat /\ o \in Nat /\ LocalWords \in Nat
  BY <1>2, CallBoundaryAssumption
<1>4. callerUsed["stack"] \in Nat /\ callerUsed["stack"] <= 2 * Len(args) /\ Len(args) \in Nat
  BY StackCursorBound, NumberingTypes
<1>. DEFINE top == o + 2 * Len(args) + LocalWords
<1>5. -(3 + saved) .. top \subseteq Words
  BY <1>2, CallBoundaryAssumption
<1>6. top \in Nat /\ outgoing + LocalWords <= top /\ callerUsed["stack"] + LocalWords <= top
  BY <1>1, <1>3, <1>4
<1>7. \A x \in Int : x <= top => -(3 + saved) .. x \subseteq -(3 + saved) .. top
  BY <1>3, <1>6
<1>8. outgoing + LocalWords \in Int /\ callerUsed["stack"] + LocalWords \in Int
  BY <1>2, <1>3, <1>4
<1>9. phase # "number" => callerUsed["stack"] <= outgoing
  BY <1>1, <1>3, <1>4
<1>. HIDE DEF top
<1>. QED BY <1>2, <1>3, <1>5, <1>6, <1>7, <1>8, <1>9

(* The words and registers an argument's slot names. *)
LEMMA SlotCells ==
  ASSUME NumberingInv, MachineTypeOK, OutgoingFits, NEW j \in 1..Len(callerSlots),
         NEW c \in Cells(callerSlots[j])
  PROVE  /\ c \in Nat /\ c - callerSlots[j].index \in {0, 1}
         /\ callerSlots[j].kind = "stack" => c < callerUsed["stack"] /\ c \in Words
         /\ callerSlots[j].kind \in Bank => c \in 0..(ArgRegisterCount - 1)
<1>. DEFINE s == callerSlots[j]
<1>1. /\ s.index \in Nat /\ Width(s.wide) \in {1, 2}
      /\ s.kind = "stack" => End(s) <= callerUsed["stack"]
      /\ s.kind \in Bank => End(s) <= ArgRegisterCount
  BY SlotFacts
<1>2. Cells(s) = s.index .. (End(s) - 1) /\ End(s) = s.index + Width(s.wide)
  BY <1>1 DEF Cells, Caller!Cells, Width, Caller!Width, End
<1>. HIDE DEF s
<1>3. c \in s.index .. (End(s) - 1)
  BY <1>2 DEF s
<1>4. c \in Nat /\ c < End(s) /\ c - s.index \in {0, 1} /\ End(s) \in Nat
  BY <1>1, <1>2, <1>3
<1>5. s.kind = "stack" => c < callerUsed["stack"] /\ c \in Words
  <2>1. callerUsed["stack"] \in Nat /\ saved \in Nat /\ LocalWords \in Nat
        /\ -(3 + saved) .. (callerUsed["stack"] + LocalWords) \subseteq Words
    BY FrameReach, StackCursorBound
  <2>. QED BY <2>1, <1>1, <1>4
<1>6. s.kind \in Bank => c \in 0..(ArgRegisterCount - 1)
  BY <1>1, <1>4, CallBoundaryAssumption
<1>. QED BY <1>4, <1>5, <1>6 DEF s

LEMMA Values ==
  ASSUME args \in Seq(Arg)
  PROVE  /\ \A m \in {"none", "return", "local", "body"} : Mark(m) \in Value
         /\ \A r \in 1..saved : CallersRegister(r) \in Value
         /\ \A a \in Words : FrameBase(a) \in Value
         /\ \A j \in 1..Len(args), w \in {0, 1} : <<"arg", j, w>> \in Value
BY DEF Value, Mark

LEMMA InitFrame ==
  ASSUME Init
  PROVE  FrameInv
<1>1. NumberingInv
  BY InitNumbering
<1>. USE DEF Init
<1>2. args \in Seq(Arg) /\ Len(args) \in Nat /\ args \in ArgLists /\ fixedArgCount \in Nat /\ fixedArgCount <= Len(args)
  BY <1>1, NumberingTypes DEF NumberingInv
<1>3. OutgoingFits
  BY DEF OutgoingFits
<1>4. Mark("none") \in Value
  BY <1>2, Values
<1>5. saved \in Nat /\ outgoing \in Nat /\ LocalWords \in Nat /\ Words \subseteq Int
      /\ -(3 + saved) .. (outgoing + 2 * Len(args) + LocalWords) \subseteq Words
  BY <1>2, CallBoundaryAssumption
<1>6. 0 \in Words
  BY <1>2, <1>5
<1>7. MachineTypeOK
  BY <1>2, <1>4, <1>5, <1>6, Values DEF MachineTypeOK
<1>8. HomesInv /\ TailInv
  BY <1>2 DEF HomesInv, TailInv, TailArrives, Early, Landed
<1>. QED
  BY <1>3, <1>7, <1>8
  DEF FrameInv, PlacedCount, ArgumentsInPlace, StackLevels, CallerLocalsKept, ReturnAddressKept, SavedWordsKept

(* Numbering either end touches neither the machine nor the frames. *)
LEMMA NumberingKeepsFrame ==
  ASSUME NumberingInv, FrameInv, NumberArgument \/ NumberParameter
  PROVE  FrameInv'
<1>1. /\ phase = "number" /\ phase' = phase /\ args' = args /\ fixedArgCount' = fixedArgCount
      /\ UNCHANGED <<outgoing, regs, mem, sp, fp, saved, kept, placed, homes, cursor, tail, popped>>
  <2>1. CASE NumberArgument
    BY <2>1, CallerStep DEF NumberArgument
  <2>2. CASE NumberParameter
    BY <2>2 DEF NumberParameter, callerVars
  <2>. QED BY <2>1, <2>2
<1>2. MachineTypeOK' /\ PlacedCount'
  BY <1>1 DEF FrameInv, MachineTypeOK, PlacedCount, Value
<1>3. ArgumentsInPlace' /\ OutgoingFits'
  BY <1>1 DEF FrameInv, ArgumentsInPlace, OutgoingFits, PlacedCount
<1>4. HomesInv'
  BY <1>1 DEF FrameInv, HomesInv, ArgWords, Run, Value
<1>5. TailInv'
  BY <1>1 DEF FrameInv, TailInv, TailArrives, ArgWords, Run, Value
<1>. QED
  BY <1>1, <1>2, <1>3, <1>4, <1>5 DEF FrameInv, StackLevels, CallerLocalsKept, ReturnAddressKept, SavedWordsKept

(* What the callee has read stays read. *)
LEMMA ReadsKept ==
  ASSUME HomesInv, TailInv, UNCHANGED <<args, fixedArgCount, homes, tail, saved>>,
         phase' \in Early => phase \in Early,
         phase' \in Landed <=> phase \in Landed
  PROVE  HomesInv' /\ TailInv'
<1>1. HomesInv'
  BY DEF HomesInv, ArgWords, Run, Value
<1>2. TailInv'
  BY DEF TailInv, TailArrives, ArgWords, Run, Value
<1>. QED BY <1>1, <1>2

(* An argument once in place stays there as long as its registers and the  *)
(* outgoing words are left alone.                                          *)
LEMMA InPlaceKept ==
  ASSUME NumberingInv, MachineTypeOK, OutgoingFits, ArgumentsInPlace,
         UNCHANGED <<callerVars, placed, regs>>, placed <= Len(callerSlots),
         \A c \in Words : (c >= 0 /\ c < callerUsed["stack"]) => mem'[c] = mem[c]
  PROVE  ArgumentsInPlace'
<1>. SUFFICES ASSUME NEW j \in 1..placed, NEW c \in Cells(callerSlots[j])
              PROVE  /\ callerSlots[j].kind \in Bank => regs[callerSlots[j].kind][c] = <<"arg", j, c - callerSlots[j].index>>
                     /\ callerSlots[j].kind = "stack" => mem'[c] = <<"arg", j, c - callerSlots[j].index>>
  BY DEF ArgumentsInPlace, callerVars, Cells, Caller!Cells
<1>1. j \in 1..Len(callerSlots)
  BY NumberingTypes DEF MachineTypeOK
<1>2. /\ c \in Nat
      /\ callerSlots[j].kind = "stack" => c < callerUsed["stack"] /\ c \in Words
  BY <1>1, SlotCells
<1>3. callerSlots[j].kind = "stack" => mem'[c] = mem[c]
  BY <1>2
<1>4. /\ callerSlots[j].kind \in Bank => regs[callerSlots[j].kind][c] = <<"arg", j, c - callerSlots[j].index>>
      /\ callerSlots[j].kind = "stack" => mem[c] = <<"arg", j, c - callerSlots[j].index>>
  BY DEF ArgumentsInPlace
<1>. QED BY <1>3, <1>4

LEMMA OpenCallerFrameKeepsIInv ==
  ASSUME IInv, OpenCallerFrame
  PROVE  IInv'
<1>. USE DEF IInv, FrameInv
<1>1. /\ phase = "number" /\ phase' = "setup" /\ placed = 0
      /\ fp' = outgoing' + LocalWords
      /\ UNCHANGED <<callerVars, calleeVars, regs, sp, saved, kept, placed, homes, cursor, tail, popped>>
      /\ args' = args /\ fixedArgCount' = fixedArgCount /\ callerUsed' = callerUsed
  BY DEF OpenCallerFrame, PlacedCount, callerVars
<1>2. Len(callerSlots) = Len(args) /\ Len(paramArrival) = fixedArgCount
  BY NumberingTypes DEF OpenCallerFrame, Caller!Done, Callee!Done
<1>3. NumberingInv'
  <2>1. fixedArgCount + Len(tail') <= Len(args)
    BY <1>1 DEF NumberingInv
  <2>. QED BY <1>1, <1>2, <2>1, NumberingKept
<1>4. outgoing \in OtherCallWords /\ outgoing \in Nat /\ callerUsed["stack"] \in Nat
  BY <1>1, OutgoingWords, CallBoundaryAssumption DEF OutgoingFits
<1>5. outgoing' = IF outgoing >= callerUsed["stack"] THEN outgoing ELSE callerUsed["stack"]
  <2>. DEFINE u == callerUsed["stack"]
              S == {outgoing, u}
  <2>1. outgoing' = Max(S)
    BY OutgoingWords DEF OpenCallerFrame
  <2>2. \E x \in S : \A y \in S : x >= y
    BY <1>4
  <2>3. Max(S) \in S /\ \A y \in S : Max(S) >= y
    <3>. HIDE DEF S
    <3>. QED BY <2>2 DEF Max
  <2>. QED BY <2>1, <2>3, <1>4
<1>6. OutgoingFits' /\ outgoing' \in Nat
  BY <1>1, <1>4, <1>5 DEF OutgoingFits
<1>7. saved \in Nat /\ LocalWords \in Nat /\ -(3 + saved) .. (outgoing' + LocalWords) \subseteq Words
  BY <1>4, <1>5, FrameReach
<1>. DEFINE frame == outgoing' .. (outgoing' + LocalWords - 1)
<1>8. mem' = [a \in Words |-> IF a \in frame THEN Mark("local") ELSE mem[a]]
  BY DEF OpenCallerFrame
<1>9. Mark("local") \in Value
  BY NumberingTypes, Values
<1>10. mem' \in [Words -> Value]
  BY <1>8, <1>9 DEF MachineTypeOK
<1>11. MachineTypeOK'
  <2>1. fp' = outgoing' + LocalWords
    BY DEF OpenCallerFrame
  <2>2. \A x, z \in Nat : x \in -(3 + z) .. x
    OBVIOUS
  <2>3. outgoing' + LocalWords \in Nat
    <3>1. outgoing' \in Nat
      BY <1>6
    <3>2. LocalWords \in Nat
      BY <1>7
    <3>3. \A x, y \in Nat : x + y \in Nat
      OBVIOUS
    <3>. QED BY <3>1, <3>2, <3>3
  <2>4. fp' \in Words
    BY <1>7, <2>1, <2>2, <2>3
  <2>. QED BY <1>1, <1>6, <1>10, <2>4 DEF MachineTypeOK, Value
<1>12. CallerLocalsKept'
  <2>1. \A a \in frame : a \in Words
    <3>1. outgoing' \in Nat /\ LocalWords \in Nat /\ saved \in Nat
      BY <1>6, <1>7
    <3>2. \A x, y, z \in Nat : x .. (x + y - 1) \subseteq -(3 + z) .. (x + y)
      OBVIOUS
    <3>3. frame \subseteq -(3 + saved) .. (outgoing' + LocalWords)
      BY <3>1, <3>2
    <3>. QED BY <3>3, <1>7
  <2>. QED BY <2>1, <1>8 DEF CallerLocalsKept
<1>13. ArgumentsInPlace'
  BY <1>1 DEF ArgumentsInPlace
<1>14. HomesInv' /\ TailInv'
  BY <1>1, ReadsKept DEF Early, Landed
<1>. QED
  BY <1>1, <1>3, <1>6, <1>11, <1>12, <1>13, <1>14
  DEF PlacedCount, StackLevels, ReturnAddressKept, SavedWordsKept

(* Moving one argument into its registers. *)
LEMMA PlaceInRegisterKeepsIInv ==
  ASSUME IInv, PlaceInRegister
  PROVE  IInv'
<1>. USE DEF IInv, FrameInv
<1>. DEFINE n == placed + 1
            s == callerSlots[n]
<1>1. /\ phase = "setup" /\ phase' = phase /\ placed' = n /\ n \in DOMAIN args
      /\ UNCHANGED <<callerVars, calleeVars, outgoing, mem, sp, fp, saved, kept, homes, cursor, tail, popped>>
      /\ args' = args /\ fixedArgCount' = fixedArgCount /\ callerUsed' = callerUsed /\ callerSlots' = callerSlots
  BY DEF PlaceInRegister, callerVars, next
<1>2. NumberingInv'
  <2>1. fixedArgCount + Len(tail') <= Len(args) /\ Len(callerSlots) = Len(args) /\ Len(paramArrival) = fixedArgCount
    BY <1>1 DEF NumberingInv
  <2>. QED BY <1>1, <2>1, NumberingKept
<1>3. /\ placed \in Nat /\ n \in 1..Len(args) /\ n \in 1..Len(callerSlots) /\ Len(callerSlots) = Len(args)
      /\ args \in Seq(Arg)
  BY <1>1, NumberingTypes DEF MachineTypeOK, NumberingInv
<1>4. /\ s.kind \in Bank
      /\ regs' = [regs EXCEPT ![s.kind] = [r \in DOMAIN @ |-> IF r \in Cells(s) THEN <<"arg", n, r - s.index>> ELSE @[r]]]
  BY DEF PlaceInRegister, next
<1>5. \A c \in Cells(s) : c \in 0..(ArgRegisterCount - 1) /\ c - s.index \in {0, 1}
  BY <1>3, <1>4, SlotCells
<1>6. regs \in [Bank -> [0..(ArgRegisterCount - 1) -> Value]]
  BY DEF MachineTypeOK
<1>. HIDE DEF s, n
<1>7. /\ \A r \in 0..(ArgRegisterCount - 1) :
           regs'[s.kind][r] = IF r \in Cells(s) THEN <<"arg", n, r - s.index>> ELSE regs[s.kind][r]
      /\ \A b \in Bank : b # s.kind => regs'[b] = regs[b]
  BY <1>4, <1>6
<1>8. \A c \in Cells(s) : <<"arg", n, c - s.index>> \in Value
  BY <1>3, <1>5, Values
<1>9. regs' \in [Bank -> [0..(ArgRegisterCount - 1) -> Value]]
  <2>1. [r \in DOMAIN regs[s.kind] |-> IF r \in Cells(s) THEN <<"arg", n, r - s.index>> ELSE regs[s.kind][r]]
          \in [0..(ArgRegisterCount - 1) -> Value]
    BY <1>4, <1>6, <1>8
  <2>. QED BY <1>4, <1>6, <2>1
<1>10. MachineTypeOK'
  <2>1. Value' = Value
    BY <1>1 DEF Value
  <2>. QED BY <1>1, <1>3, <1>9, <2>1 DEF MachineTypeOK
<1>11. ArgumentsInPlace'
  <2>. SUFFICES ASSUME NEW j \in 1..n, NEW c \in Cells(callerSlots[j])
                PROVE  /\ callerSlots[j].kind \in Bank => regs'[callerSlots[j].kind][c] = <<"arg", j, c - callerSlots[j].index>>
                       /\ callerSlots[j].kind = "stack" => mem[c] = <<"arg", j, c - callerSlots[j].index>>
    BY <1>1 DEF ArgumentsInPlace, Cells, Caller!Cells
  <2>1. CASE j = n
    BY <2>1, <1>4, <1>5, <1>7, BankIs DEF s
  <2>2. CASE j # n
    <3>1. j \in 1..placed /\ j \in 1..Len(callerSlots)
      BY <2>2, <1>3 DEF n
    <3>2. /\ callerSlots[j].kind \in Bank => regs[callerSlots[j].kind][c] = <<"arg", j, c - callerSlots[j].index>>
          /\ callerSlots[j].kind = "stack" => mem[c] = <<"arg", j, c - callerSlots[j].index>>
      BY <3>1 DEF ArgumentsInPlace
    <3>3. callerSlots[j].kind = s.kind => c \notin Cells(s)
      BY <2>2, <3>1, <1>3, SlotFacts DEF s
    <3>4. callerSlots[j].kind \in Bank => c \in 0..(ArgRegisterCount - 1)
      BY <3>1, SlotCells
    <3>5. callerSlots[j].kind \in Bank => regs'[callerSlots[j].kind][c] = regs[callerSlots[j].kind][c]
      BY <3>3, <3>4, <1>7
    <3>. QED BY <3>2, <3>5
  <2>. QED BY <2>1, <2>2
<1>12. HomesInv' /\ TailInv'
  BY <1>1, ReadsKept
<1>. QED
  BY <1>1, <1>2, <1>10, <1>11, <1>12
  DEF PlacedCount, StackLevels, OutgoingFits, CallerLocalsKept, ReturnAddressKept, SavedWordsKept

(* Moving one argument into its outgoing words. *)
LEMMA PlaceOnStackKeepsIInv ==
  ASSUME IInv, PlaceOnStack
  PROVE  IInv'
<1>. USE DEF IInv, FrameInv
<1>. DEFINE n == placed + 1
            s == callerSlots[n]
<1>1. /\ phase = "setup" /\ phase' = phase /\ placed' = n /\ n \in DOMAIN args
      /\ UNCHANGED <<callerVars, calleeVars, outgoing, regs, sp, fp, saved, kept, homes, cursor, tail, popped>>
      /\ args' = args /\ fixedArgCount' = fixedArgCount /\ callerUsed' = callerUsed /\ callerSlots' = callerSlots
  BY DEF PlaceOnStack, callerVars, next
<1>2. NumberingInv'
  <2>1. fixedArgCount + Len(tail') <= Len(args) /\ Len(callerSlots) = Len(args) /\ Len(paramArrival) = fixedArgCount
    BY <1>1 DEF NumberingInv
  <2>. QED BY <1>1, <2>1, NumberingKept
<1>3. /\ placed \in Nat /\ n \in 1..Len(args) /\ n \in 1..Len(callerSlots) /\ Len(callerSlots) = Len(args)
      /\ args \in Seq(Arg)
  BY <1>1, NumberingTypes DEF MachineTypeOK, NumberingInv
<1>4. /\ s.kind = "stack" /\ sp = 0
      /\ mem' = [a \in Words |-> IF a - sp \in Cells(s) THEN <<"arg", n, a - sp - s.index>> ELSE mem[a]]
  BY <1>1 DEF PlaceOnStack, next, StackLevels
<1>5. \A c \in Cells(s) : c \in Nat /\ c \in Words /\ c < callerUsed["stack"] /\ c - s.index \in {0, 1}
  BY <1>3, <1>4, SlotCells
<1>6. mem \in [Words -> Value] /\ Words \subseteq Int
  BY CallBoundaryAssumption DEF MachineTypeOK
<1>. HIDE DEF s, n
<1>7. /\ DOMAIN mem' = Words
      /\ \A a \in Words : mem'[a] = IF a \in Cells(s) THEN <<"arg", n, a - s.index>> ELSE mem[a]
  <2>1. \A a \in Words : a - sp = a
    BY <1>4, <1>6
  <2>. QED BY <2>1, <1>4
<1>8. mem' \in [Words -> Value]
  <2>1. \A c \in Cells(s) : <<"arg", n, c - s.index>> \in Value
    BY <1>3, <1>5, Values
  <2>2. \A a \in Words : mem'[a] \in Value
    BY <2>1, <1>6, <1>7
  <2>. QED BY <2>2, <1>4
<1>9. MachineTypeOK'
  <2>1. Value' = Value
    BY <1>1 DEF Value
  <2>. QED BY <1>1, <1>3, <1>8, <2>1 DEF MachineTypeOK
<1>10. ArgumentsInPlace'
  <2>. SUFFICES ASSUME NEW j \in 1..n, NEW c \in Cells(callerSlots[j])
                PROVE  /\ callerSlots[j].kind \in Bank => regs[callerSlots[j].kind][c] = <<"arg", j, c - callerSlots[j].index>>
                       /\ callerSlots[j].kind = "stack" => mem'[c] = <<"arg", j, c - callerSlots[j].index>>
    BY <1>1 DEF ArgumentsInPlace, Cells, Caller!Cells
  <2>1. CASE j = n
    BY <2>1, <1>4, <1>5, <1>7, BankIs DEF s
  <2>2. CASE j # n
    <3>1. j \in 1..placed /\ j \in 1..Len(callerSlots)
      BY <2>2, <1>3 DEF n
    <3>2. /\ callerSlots[j].kind \in Bank => regs[callerSlots[j].kind][c] = <<"arg", j, c - callerSlots[j].index>>
          /\ callerSlots[j].kind = "stack" => mem[c] = <<"arg", j, c - callerSlots[j].index>>
      BY <3>1 DEF ArgumentsInPlace
    <3>3. callerSlots[j].kind = s.kind => c \notin Cells(s)
      BY <2>2, <3>1, <1>3, SlotFacts DEF s
    <3>4. callerSlots[j].kind = "stack" => c \in Words
      BY <3>1, SlotCells
    <3>5. callerSlots[j].kind = "stack" => mem'[c] = mem[c]
      BY <3>3, <3>4, <1>4, <1>7
    <3>. QED BY <3>2, <3>5
  <2>. QED BY <2>1, <2>2
<1>11. CallerLocalsKept'
  <2>1. /\ callerUsed["stack"] <= outgoing /\ outgoing \in Nat /\ callerUsed["stack"] \in Nat
        /\ saved \in Nat /\ LocalWords \in Nat
        /\ -(3 + saved) .. (outgoing + LocalWords) \subseteq Words
    BY <1>1, FrameReach, OutgoingWords
  <2>2. \A a \in outgoing .. (outgoing + LocalWords - 1) : a \in Words /\ a \notin Cells(s)
    BY <2>1, <1>5
  <2>. QED BY <2>2, <1>1, <1>7 DEF CallerLocalsKept
<1>12. HomesInv' /\ TailInv'
  BY <1>1, ReadsKept
<1>. QED
  BY <1>1, <1>2, <1>9, <1>10, <1>11, <1>12
  DEF PlacedCount, StackLevels, OutgoingFits, ReturnAddressKept, SavedWordsKept

(* The prologue only writes below the caller's frame.                      *)
LEMMA BelowFrameKept ==
  ASSUME IInv, UNCHANGED <<callerVars, placed, regs, outgoing>>, phase # "number", phase' # "number",
         \A a \in Words : a >= 0 => mem'[a] = mem[a]
  PROVE  ArgumentsInPlace' /\ CallerLocalsKept' /\ OutgoingFits'
<1>1. /\ outgoing \in Nat /\ LocalWords \in Nat /\ saved \in Nat
      /\ -(3 + saved) .. (outgoing + LocalWords) \subseteq Words
  BY FrameReach DEF IInv, FrameInv
<1>2. \A x, y, z \in Nat : x .. (x + y - 1) \subseteq -(3 + z) .. (x + y)
  OBVIOUS
<1>3. \A a \in outgoing .. (outgoing + LocalWords - 1) : a \in Words /\ a >= 0
  BY <1>1, <1>2
<1>4. CallerLocalsKept'
  BY <1>3 DEF IInv, FrameInv, CallerLocalsKept
<1>5. ArgumentsInPlace'
  <2>1. placed <= Len(callerSlots)
    BY NumberingTypes DEF IInv, NumberingInv, FrameInv, MachineTypeOK
  <2>. QED BY <2>1, InPlaceKept DEF IInv, FrameInv
<1>6. OutgoingFits'
  BY DEF IInv, FrameInv, OutgoingFits, callerVars
<1>. QED BY <1>4, <1>5, <1>6

(* A step of the callee that moves no va_list keeps the numbering.         *)
LEMMA CalleeKeepsNumbering ==
  ASSUME IInv, UNCHANGED <<callerVars, calleeVars, tail>>, phase # "number", phase' # "body"
  PROVE  NumberingInv'
<1>1. /\ Len(callerSlots) = Len(args) /\ Len(paramArrival) = fixedArgCount
      /\ fixedArgCount + Len(tail') <= Len(args)
  BY DEF IInv, NumberingInv
<1>. QED BY <1>1, NumberingKept DEF IInv

LEMMA CallKeepsIInv ==
  ASSUME IInv, Call
  PROVE  IInv'
<1>1. /\ phase = "setup" /\ phase' = "save" /\ placed = Len(args) /\ sp' = sp - 1 /\ sp = 0
      /\ mem' = [mem EXCEPT ![sp - 1] = Mark("return")]
      /\ UNCHANGED <<callerVars, calleeVars, outgoing, regs, fp, saved, kept, placed, homes, cursor, tail, popped>>
      /\ args' = args /\ fixedArgCount' = fixedArgCount
  BY DEF Call, callerVars, IInv, FrameInv, StackLevels
<1>2. NumberingInv'
  BY <1>1, CalleeKeepsNumbering
<1>3. saved \in Nat /\ outgoing \in Nat /\ LocalWords \in Nat /\ -(3 + saved) .. (outgoing + LocalWords) \subseteq Words
  BY FrameReach DEF IInv, FrameInv
<1>4. -1 \in Words /\ Words \subseteq Int
  BY <1>3, CallBoundaryAssumption
<1>5. mem \in [Words -> Value] /\ Mark("return") \in Value
  BY NumberingTypes, Values DEF IInv, FrameInv, MachineTypeOK
<1>6. /\ mem' \in [Words -> Value] /\ mem'[-1] = Mark("return")
      /\ \A a \in Words : a >= 0 => mem'[a] = mem[a]
  BY <1>1, <1>4, <1>5
<1>7. ArgumentsInPlace' /\ CallerLocalsKept' /\ OutgoingFits'
  BY <1>1, <1>6, BelowFrameKept
<1>8. MachineTypeOK'
  BY <1>1, <1>4, <1>6 DEF IInv, FrameInv, MachineTypeOK, Value
<1>9. HomesInv' /\ TailInv'
  BY <1>1, ReadsKept DEF IInv, FrameInv, Early, Landed
<1>10. PlacedCount' /\ StackLevels' /\ ReturnAddressKept' /\ SavedWordsKept'
  BY <1>1, <1>6 DEF PlacedCount, StackLevels, ReturnAddressKept, SavedWordsKept, IInv, FrameInv
<1>. QED BY <1>2, <1>7, <1>8, <1>9, <1>10 DEF IInv, FrameInv

LEMMA SaveRegistersKeepsIInv ==
  ASSUME IInv, SaveRegisters
  PROVE  IInv'
<1>1. /\ phase = "save" /\ phase' = "enter" /\ sp' = sp - saved /\ sp = -1
      /\ mem' = [a \in Words |-> IF a \in (sp - saved)..(sp - 1) THEN kept[sp - a] ELSE mem[a]]
      /\ kept \in [1..saved -> Value] /\ \A r \in 1..saved : kept[r] = CallersRegister(r)
      /\ UNCHANGED <<callerVars, calleeVars, outgoing, regs, fp, saved, kept, placed, homes, cursor, tail, popped>>
      /\ args' = args /\ fixedArgCount' = fixedArgCount
  BY DEF SaveRegisters, callerVars, IInv, FrameInv, StackLevels, SavedWordsKept, MachineTypeOK
<1>2. NumberingInv'
  BY <1>1, CalleeKeepsNumbering
<1>3. saved \in Nat /\ outgoing \in Nat /\ LocalWords \in Nat /\ -(3 + saved) .. (outgoing + LocalWords) \subseteq Words
  BY FrameReach DEF IInv, FrameInv
<1>4. -1 \in Words /\ -1 - saved \in Words /\ Words \subseteq Int
  BY <1>3, CallBoundaryAssumption
<1>5. /\ mem \in [Words -> Value]
      /\ \A a \in Words : a \in (sp - saved)..(sp - 1) => sp - a \in 1..saved
  BY <1>1, <1>3, <1>4 DEF IInv, FrameInv, MachineTypeOK
<1>6. \A a \in Words : (a >= 0 \/ a = -1) => mem'[a] = mem[a]
  BY <1>1, <1>3, <1>4
<1>7. mem' \in [Words -> Value]
  BY <1>1, <1>5
<1>8. mem[-1] = Mark("return") /\ mem'[-1] = mem[-1]
  BY <1>1, <1>4, <1>6 DEF IInv, FrameInv, ReturnAddressKept
<1>9. ArgumentsInPlace' /\ CallerLocalsKept' /\ OutgoingFits'
  BY <1>1, <1>6, BelowFrameKept
<1>10. MachineTypeOK'
  BY <1>1, <1>4, <1>7 DEF IInv, FrameInv, MachineTypeOK, Value
<1>11. HomesInv' /\ TailInv'
  BY <1>1, ReadsKept DEF IInv, FrameInv, Early, Landed
<1>12. PlacedCount'
  BY <1>1 DEF IInv, FrameInv, PlacedCount
<1>13. StackLevels' /\ ReturnAddressKept'
  BY <1>1, <1>8 DEF StackLevels, ReturnAddressKept
<1>14. SavedWordsKept'
  <2>1. \A r \in 1..saved : mem'[-1 - r] = CallersRegister(r)
    <3>. SUFFICES ASSUME NEW r \in 1..saved PROVE mem'[-1 - r] = CallersRegister(r)
      OBVIOUS
    <3>1. -1 - r \in (sp - saved)..(sp - 1) /\ -1 - r \in Words /\ sp - (-1 - r) = r
      BY <1>1, <1>3
    <3>2. mem'[-1 - r] = kept[sp - (-1 - r)]
      BY <3>1, <1>1
    <3>. QED BY <3>1, <3>2, <1>1
  <2>. QED BY <2>1, <1>1 DEF SavedWordsKept, IInv, FrameInv
<1>. QED BY <1>2, <1>9, <1>10, <1>11, <1>12, <1>13, <1>14 DEF IInv, FrameInv

LEMMA EnterKeepsIInv ==
  ASSUME IInv, Enter
  PROVE  IInv'
<1>1. /\ phase = "enter" /\ phase' = "settle" /\ fp' = sp - 1 /\ sp' = sp - 2 /\ sp = -1 - saved
      /\ mem' = [mem EXCEPT ![sp - 1] = FrameBase(fp), ![sp - 2] = Mark("body")]
      /\ kept' = [r \in 1..saved |-> Mark("body")] /\ fp \in Words
      /\ UNCHANGED <<callerVars, calleeVars, outgoing, regs, saved, placed, homes, cursor, tail, popped>>
      /\ args' = args /\ fixedArgCount' = fixedArgCount
  BY DEF Enter, callerVars, IInv, FrameInv, StackLevels, MachineTypeOK
<1>2. NumberingInv'
  BY <1>1, CalleeKeepsNumbering
<1>3. saved \in Nat /\ outgoing \in Nat /\ LocalWords \in Nat /\ -(3 + saved) .. (outgoing + LocalWords) \subseteq Words
  BY FrameReach DEF IInv, FrameInv
<1>4. -1 \in Words /\ sp - 1 \in Words /\ sp - 2 \in Words /\ Words \subseteq Int
      /\ sp - 1 < -1 /\ sp - 2 < -1
  BY <1>1, <1>3, CallBoundaryAssumption
<1>5. mem \in [Words -> Value] /\ FrameBase(fp) \in Value /\ Mark("body") \in Value
  BY <1>1, NumberingTypes, Values DEF IInv, FrameInv, MachineTypeOK
<1>6. \A a \in Words : (a >= 0 \/ a = -1) => mem'[a] = mem[a]
  BY <1>1, <1>4, <1>5
<1>7. mem' \in [Words -> Value]
  BY <1>1, <1>5
<1>8. mem[-1] = Mark("return") /\ mem'[-1] = mem[-1]
  BY <1>1, <1>4, <1>6 DEF IInv, FrameInv, ReturnAddressKept
<1>9. ArgumentsInPlace' /\ CallerLocalsKept' /\ OutgoingFits'
  BY <1>1, <1>6, BelowFrameKept
<1>10. MachineTypeOK'
  <2>1. kept' \in [1..saved -> Value] /\ Value' = Value
    BY <1>1, <1>5 DEF Value
  <2>. QED BY <1>1, <1>4, <1>7, <2>1 DEF IInv, FrameInv, MachineTypeOK
<1>11. HomesInv' /\ TailInv'
  BY <1>1, ReadsKept DEF IInv, FrameInv, Early, Landed
<1>12. PlacedCount'
  BY <1>1 DEF IInv, FrameInv, PlacedCount
<1>13. StackLevels' /\ ReturnAddressKept'
  BY <1>1, <1>3, <1>8 DEF StackLevels, ReturnAddressKept
<1>14. SavedWordsKept'
  <2>1. \A r \in 1..saved : mem'[-1 - r] = CallersRegister(r)
    <3>. SUFFICES ASSUME NEW r \in 1..saved PROVE mem'[-1 - r] = CallersRegister(r)
      OBVIOUS
    <3>1. -1 - r \in Words /\ -1 - r # sp - 1 /\ -1 - r # sp - 2
      BY <1>1, <1>3
    <3>2. mem'[-1 - r] = mem[-1 - r]
      BY <3>1, <1>1, <1>5
    <3>. QED BY <3>2, <1>1 DEF IInv, FrameInv, SavedWordsKept
  <2>2. mem'[-2 - saved] = FrameBase(fp)
    <3>1. sp - 1 = -2 - saved /\ sp - 1 # sp - 2
      BY <1>1, <1>3
    <3>. QED BY <3>1, <1>1, <1>4, <1>5
  <2>3. fp = outgoing + LocalWords
    BY <1>1 DEF IInv, FrameInv, SavedWordsKept
  <2>. QED BY <2>1, <2>2, <2>3, <1>1 DEF SavedWordsKept
<1>. QED BY <1>2, <1>9, <1>10, <1>11, <1>12, <1>13, <1>14 DEF IInv, FrameInv

(* A parameter's slot holds the words of its argument when it is read.     *)
LEMMA SettleParameterKeepsIInv ==
  ASSUME IInv, SettleParameter
  PROVE  IInv'
<1>. DEFINE p == Len(homes) + 1
            s == paramArrival[p]
<1>1. /\ phase = "settle" /\ phase' = phase /\ Len(homes) < Len(params)
      /\ homes' = Append(homes, Arrived(s))
      /\ UNCHANGED <<callerVars, calleeVars, outgoing, regs, mem, sp, fp, saved, kept, placed, cursor, tail, popped>>
      /\ args' = args /\ fixedArgCount' = fixedArgCount
  BY DEF SettleParameter, callerVars
<1>2. NumberingInv'
  BY <1>1, CalleeKeepsNumbering
<1>3. /\ Len(homes) \in Nat /\ p \in 1..fixedArgCount /\ p \in 1..Len(callerSlots) /\ p \in 1..Len(args) /\ p \in 1..placed
      /\ s = callerSlots[p] /\ args \in Seq(Arg)
  BY <1>1, NumberingTypes DEF IInv, NumberingInv, FrameInv, PlacedCount, HomesInv
<1>. HIDE DEF s, p
<1>4. /\ s.kind \in Bank \cup {"stack"} /\ s.index \in Nat /\ s.wide = args[p].wide /\ Width(s.wide) \in {1, 2}
  BY <1>3, SlotFacts DEF IInv
<1>5. \A x \in Int : Incoming(x) = x
  <2>1. fp = -2 - saved /\ saved \in Nat
    BY <1>1, FrameReach DEF IInv, FrameInv, StackLevels
  <2>. QED BY <2>1 DEF Incoming
<1>6. \A w \in 1..Width(s.wide) :
         (IF s.kind \in Bank THEN regs[s.kind][s.index + w - 1] ELSE mem[Incoming(s.index + w - 1)]) = <<"arg", p, w - 1>>
  <2>. SUFFICES ASSUME NEW w \in 1..Width(s.wide)
                PROVE  (IF s.kind \in Bank THEN regs[s.kind][s.index + w - 1] ELSE mem[Incoming(s.index + w - 1)]) = <<"arg", p, w - 1>>
    OBVIOUS
  <2>. DEFINE c == s.index + w - 1
  <2>1. c \in s.index .. (s.index + Width(s.wide) - 1) /\ c \in Int /\ c - s.index = w - 1
    BY <1>4
  <2>2. c \in Cells(callerSlots[p])
    BY <2>1, <1>3 DEF Cells, Caller!Cells, Width
  <2>3. /\ s.kind \in Bank => regs[s.kind][c] = <<"arg", p, c - s.index>>
        /\ s.kind = "stack" => mem[c] = <<"arg", p, c - s.index>>
    BY <2>2, <1>3 DEF IInv, FrameInv, ArgumentsInPlace
  <2>4. Incoming(c) = c
    BY <2>1, <1>5
  <2>. HIDE DEF c
  <2>5. (IF s.kind \in Bank THEN regs[s.kind][c] ELSE mem[Incoming(c)]) = <<"arg", p, w - 1>>
    BY <2>1, <2>3, <2>4, <1>4
  <2>. QED BY <2>5 DEF c
<1>7. Arrived(s) = ArgWords(p)
  BY <1>4, <1>6 DEF Arrived, ArgWords
<1>8. ArgWords(p) \in Run
  <2>1. \A w \in 1..2 : <<"arg", p, w - 1>> \in Value
    <3>1. \A w \in 1..2 : w - 1 \in {0, 1}
      OBVIOUS
    <3>. QED BY <3>1, <1>3, Values
  <2>. QED BY <2>1, <1>4 DEF ArgWords, Run
<1>9. HomesInv'
  <2>1. homes \in Seq(Run) /\ Len(homes) < fixedArgCount /\ \A q \in DOMAIN homes : homes[q] = ArgWords(q)
    BY <1>1, NumberingTypes DEF IInv, FrameInv, HomesInv
  <2>2. homes' = Append(homes, ArgWords(p))
    BY <1>1, <1>7 DEF s
  <2>3. /\ homes' \in Seq(Run) /\ Len(homes') = p /\ DOMAIN homes' = 1..p
        /\ \A q \in 1..p : homes'[q] = IF q = p THEN ArgWords(p) ELSE homes[q]
        /\ \A q \in 1..p : q # p => q \in DOMAIN homes
    BY <2>1, <2>2, <1>8 DEF p
  <2>4. \A q \in 1..p : homes'[q] = ArgWords(q)
    BY <2>1, <2>3
  <2>5. Run' = Run /\ \A q : ArgWords(q)' = ArgWords(q)
    BY <1>1 DEF Run, Value, ArgWords
  <2>. QED BY <2>3, <2>4, <2>5, <1>1, <1>3 DEF HomesInv, Early, Landed
<1>10. TailInv'
  BY <1>1 DEF IInv, FrameInv, TailInv, TailArrives, Run, Value, ArgWords
<1>11. MachineTypeOK' /\ PlacedCount'
  BY <1>1 DEF IInv, FrameInv, MachineTypeOK, PlacedCount, Value
<1>12. ArgumentsInPlace' /\ OutgoingFits' /\ CallerLocalsKept'
  BY <1>1, BelowFrameKept
<1>13. StackLevels' /\ ReturnAddressKept' /\ SavedWordsKept'
  BY <1>1 DEF IInv, FrameInv, StackLevels, ReturnAddressKept, SavedWordsKept
<1>. QED BY <1>2, <1>9, <1>10, <1>11, <1>12, <1>13 DEF IInv, FrameInv

(* Every stack cursor of the numbering is an address the va_list may hold. *)
LEMMA CursorReach ==
  ASSUME NumberingInv, MachineTypeOK, NEW h, History(h), NEW j \in 0..Len(callerSlots), OutgoingFits
  PROVE  h[j]["stack"] \in Nat /\ h[j]["stack"] \in Words
<1>1. h[j]["stack"] \in Nat /\ h[j]["stack"] <= 2 * j
  BY BankIs DEF History, Cursors
<1>2. PICK o \in OtherCallWords : TRUE
  BY DEF OutgoingFits
<1>3. saved \in SavedCounts /\ args \in ArgLists
  BY DEF MachineTypeOK, NumberingInv
<1>4. saved \in Nat /\ o \in Nat /\ LocalWords \in Nat /\ Len(args) \in Nat /\ j \in Nat /\ j <= Len(args)
  BY <1>3, NumberingTypes, CallBoundaryAssumption
<1>5. -(3 + saved) .. (o + 2 * Len(args) + LocalWords) \subseteq Words
  BY <1>3, CallBoundaryAssumption
<1>. QED BY <1>1, <1>4, <1>5

LEMMA VaStartKeepsIInv ==
  ASSUME IInv, VaStart
  PROVE  IInv'
<1>1. /\ phase = "settle" /\ phase' = "body" /\ Len(homes) = Len(params) /\ tail = << >>
      /\ cursor' = Incoming(FixedStackArgWords)
      /\ UNCHANGED <<callerVars, calleeVars, outgoing, regs, mem, sp, fp, saved, kept, placed, homes, tail, popped>>
      /\ args' = args /\ fixedArgCount' = fixedArgCount
  BY DEF VaStart, callerVars, IInv, FrameInv, TailInv, Landed
<1>2. /\ Len(callerSlots) = Len(args) /\ Len(paramArrival) = fixedArgCount
      /\ fixedArgCount \in 0..Len(callerSlots) /\ fixedArgCount + Len(tail') = fixedArgCount
  BY <1>1, NumberingTypes DEF IInv, NumberingInv
<1>3. \A x \in Int : Incoming(x) = x
  <2>1. fp = -2 - saved /\ saved \in Nat
    BY <1>1, FrameReach DEF IInv, FrameInv, StackLevels
  <2>. QED BY <2>1 DEF Incoming
<1>4. ASSUME NEW h, History(h)
      PROVE  cursor' = h[fixedArgCount]["stack"] /\ cursor' \in Words
  <2>1. FixedStackArgWords = h[fixedArgCount]["stack"]
    BY <1>2, <1>4, CountedWords DEF IInv
  <2>2. h[fixedArgCount]["stack"] \in Nat /\ h[fixedArgCount]["stack"] \in Words
    BY <1>2, <1>4, CursorReach DEF IInv, FrameInv
  <2>. QED BY <2>1, <2>2, <1>1, <1>3
<1>5. NumberingInv'
  <2>1. fixedArgCount + Len(tail') <= Len(args)
    BY <1>2, NumberingTypes DEF IInv
  <2>. QED BY <1>1, <1>2, <1>4, <2>1, NumberingKept DEF IInv
<1>6. cursor' \in Words
  BY <1>4 DEF IInv, NumberingInv
<1>7. MachineTypeOK' /\ PlacedCount'
  BY <1>1, <1>6 DEF IInv, FrameInv, MachineTypeOK, PlacedCount, Value
<1>8. ArgumentsInPlace' /\ OutgoingFits' /\ CallerLocalsKept'
  BY <1>1, BelowFrameKept
<1>9. HomesInv'
  BY <1>1, NumberingTypes DEF IInv, FrameInv, HomesInv, ArgWords, Run, Value, Early, Landed
<1>10. TailInv'
  BY <1>1 DEF IInv, FrameInv, TailInv, TailArrives, ArgWords, Run, Value, Landed
<1>11. StackLevels' /\ ReturnAddressKept' /\ SavedWordsKept'
  BY <1>1 DEF IInv, FrameInv, StackLevels, ReturnAddressKept, SavedWordsKept
<1>. QED BY <1>5, <1>7, <1>8, <1>9, <1>10, <1>11 DEF IInv, FrameInv

(* One va_arg: the cursor stands at the next tail argument's first word.   *)
LEMMA VaArgKeepsIInv ==
  ASSUME IInv, VaArg
  PROVE  IInv'
<1>. DEFINE t == fixedArgCount + Len(tail) + 1
            width == Width(args[t].wide)
<1>1. /\ phase = "body" /\ phase' = phase /\ fixedArgCount + Len(tail) < Len(args)
      /\ tail' = Append(tail, [w \in 1..width |-> mem[cursor + w - 1]])
      /\ cursor' = cursor + width
      /\ UNCHANGED <<callerVars, calleeVars, outgoing, regs, mem, sp, fp, saved, kept, placed, homes, popped>>
      /\ args' = args /\ fixedArgCount' = fixedArgCount
  BY DEF VaArg, callerVars
<1>2. /\ tail \in Seq(Run) /\ Len(tail) \in Nat /\ args \in Seq(Arg)
      /\ Len(callerSlots) = Len(args) /\ placed = Len(args) /\ Len(paramArrival) = fixedArgCount
      /\ t \in 1..Len(args) /\ t - 1 \in 0..Len(args) /\ t - 1 = fixedArgCount + Len(tail)
      /\ t > fixedArgCount /\ fixedArgCount \in Nat
  BY <1>1, NumberingTypes DEF IInv, NumberingInv, FrameInv, TailInv, PlacedCount
<1>. HIDE DEF t
<1>3. args[t] \in Arg /\ args[t].wide \in BOOLEAN /\ width \in {1, 2}
  BY <1>2, NumberingTypes, WidthIs DEF IInv
<1>. HIDE DEF width
<1>4. ASSUME NEW h, History(h), Follows(h)
      PROVE  /\ callerSlots[t].kind = "stack" /\ callerSlots[t].index = cursor /\ callerSlots[t].wide = args[t].wide
             /\ cursor \in Nat /\ cursor' = h[t]["stack"] /\ cursor' \in Words
  <2>. DEFINE u == h[t - 1]
              a == args[t]
              d == t <= fixedArgCount
  <2>1. u \in Cursors /\ d = FALSE /\ d \in BOOLEAN
    BY <1>2, <1>4 DEF History
  <2>2. callerSlots[t] = SlotFor(u, a, d) /\ h[t] = CursorsFor(u, a, d)
    BY <1>2, <1>4 DEF History
  <2>3. cursor = u["stack"]
    BY <1>1, <1>2, <1>4 DEF Follows
  <2>4. a \in Arg
    BY <1>3
  <2>. HIDE DEF u, a, d
  <2>5. /\ callerSlots[t].kind = "stack" /\ callerSlots[t].index = u["stack"] /\ callerSlots[t].wide = a.wide
        /\ h[t]["stack"] = u["stack"] + Width(a.wide)
    BY <2>1, <2>2, <2>4, StepTypes
  <2>6. u["stack"] \in Nat
    BY <2>1, BankIs DEF Cursors
  <2>7. t \in 0..Len(callerSlots)
    BY <1>2
  <2>8. h[t]["stack"] \in Words
    BY <2>7, <1>4, CursorReach DEF IInv, FrameInv
  <2>. QED BY <2>3, <2>5, <2>6, <2>8, <1>1 DEF a, width
<1>5. PICK h : History(h) /\ Follows(h)
  BY DEF IInv, NumberingInv
<1>6. /\ callerSlots[t].kind = "stack" /\ callerSlots[t].index = cursor /\ callerSlots[t].wide = args[t].wide
      /\ cursor \in Nat /\ cursor' \in Words
  BY <1>4, <1>5
<1>7. [w \in 1..width |-> mem[cursor + w - 1]] = ArgWords(t)
  <2>1. ASSUME NEW w \in 1..width PROVE mem[cursor + w - 1] = <<"arg", t, w - 1>>
    <3>. DEFINE c == cursor + w - 1
    <3>1. c \in cursor .. (cursor + width - 1) /\ c - cursor = w - 1
      BY <1>3, <1>6
    <3>2. c \in Cells(callerSlots[t])
      BY <3>1, <1>6 DEF Cells, Caller!Cells, Width, width
    <3>3. mem[c] = <<"arg", t, c - cursor>>
      BY <3>2, <1>2, <1>6 DEF IInv, FrameInv, ArgumentsInPlace
    <3>. QED BY <3>1, <3>3
  <2>. QED BY <2>1 DEF ArgWords, width
<1>8. ArgWords(t) \in Run
  <2>1. \A w \in 1..2 : <<"arg", t, w - 1>> \in Value
    <3>1. \A w \in 1..2 : w - 1 \in {0, 1}
      OBVIOUS
    <3>. QED BY <3>1, <1>2, Values
  <2>. QED BY <2>1, <1>3 DEF ArgWords, Run, width
<1>9. TailInv'
  <2>1. tail' = Append(tail, ArgWords(t))
    BY <1>1, <1>7
  <2>2. \A q \in DOMAIN tail : tail[q] = ArgWords(fixedArgCount + q)
    BY DEF IInv, FrameInv, TailInv, TailArrives
  <2>3. /\ tail' \in Seq(Run) /\ DOMAIN tail' = 1..(Len(tail) + 1)
        /\ \A q \in 1..(Len(tail) + 1) : tail'[q] = IF q = Len(tail) + 1 THEN ArgWords(t) ELSE tail[q]
        /\ \A q \in 1..(Len(tail) + 1) : q # Len(tail) + 1 => q \in DOMAIN tail
    BY <2>1, <1>2, <1>8
  <2>4. fixedArgCount + (Len(tail) + 1) = t
    BY <1>2 DEF t
  <2>5. \A q \in 1..(Len(tail) + 1) : tail'[q] = ArgWords(fixedArgCount + q)
    BY <2>2, <2>3, <2>4
  <2>6. Run' = Run /\ \A q : ArgWords(q)' = ArgWords(q)
    BY <1>1 DEF Run, Value, ArgWords
  <2>. QED BY <2>3, <2>5, <2>6, <1>1 DEF TailInv, TailArrives, Landed
<1>10. Len(tail') = Len(tail) + 1 /\ fixedArgCount + Len(tail') = t
  <2>1. Len(tail') = Len(tail) + 1
    BY <1>1, <1>2
  <2>. QED BY <2>1, <1>2 DEF t
<1>11. NumberingInv'
  <2>1. fixedArgCount + Len(tail') <= Len(args)
    BY <1>2, <1>10
  <2>2. \A g : (History(g) /\ Follows(g) /\ phase' = "body") => cursor' = g[fixedArgCount + Len(tail')]["stack"]
    BY <1>4, <1>10
  <2>. QED BY <1>1, <1>2, <2>1, <2>2, NumberingKept DEF IInv
<1>12. MachineTypeOK' /\ PlacedCount'
  BY <1>1, <1>6 DEF IInv, FrameInv, MachineTypeOK, PlacedCount, Value
<1>13. ArgumentsInPlace' /\ OutgoingFits' /\ CallerLocalsKept'
  BY <1>1, BelowFrameKept
<1>14. HomesInv'
  BY <1>1 DEF IInv, FrameInv, HomesInv, ArgWords, Run, Value
<1>15. StackLevels' /\ ReturnAddressKept' /\ SavedWordsKept'
  BY <1>1 DEF IInv, FrameInv, StackLevels, ReturnAddressKept, SavedWordsKept
<1>. QED BY <1>9, <1>11, <1>12, <1>13, <1>14, <1>15 DEF IInv, FrameInv

(* The epilogue moves sp back level by level, reads back what was saved and *)
(* writes no word.                                                         *)
LEMMA EpilogueKeepsIInv ==
  ASSUME IInv, Leave \/ RestoreRegisters \/ Ret
  PROVE  IInv'
<1>1. /\ phase \in {"body", "restore", "ret"} /\ phase' \in {"restore", "ret", "returned"}
      /\ UNCHANGED <<callerVars, calleeVars, outgoing, regs, mem, saved, placed, homes, cursor, tail>>
      /\ args' = args /\ fixedArgCount' = fixedArgCount
  BY DEF Leave, RestoreRegisters, Ret, callerVars
<1>2. NumberingInv'
  BY <1>1, CalleeKeepsNumbering
<1>3. saved \in Nat /\ outgoing \in Nat /\ LocalWords \in Nat /\ -(3 + saved) .. (outgoing + LocalWords) \subseteq Words
  BY FrameReach DEF IInv, FrameInv
<1>4. -1 \in Words /\ 0 \in Words /\ -1 - saved \in Words
  BY <1>3
<1>5. StackLevels' /\ sp' \in Words /\ fp' \in Words
  <2>1. CASE Leave
    <3>1. fp = -2 - saved /\ fp' = mem[-2 - saved][2]
      BY <2>1 DEF Leave, IInv, FrameInv, StackLevels
    <3>2. fp' = outgoing + LocalWords
      BY <3>1, <2>1 DEF Leave, IInv, FrameInv, SavedWordsKept, FrameBase
    <3>. QED BY <2>1, <1>3, <1>4, <3>1, <3>2 DEF Leave, StackLevels
  <2>2. CASE RestoreRegisters
    BY <2>2, <1>3, <1>4 DEF RestoreRegisters, IInv, FrameInv, StackLevels, MachineTypeOK
  <2>3. CASE Ret
    BY <2>3, <1>3, <1>4 DEF Ret, IInv, FrameInv, StackLevels, MachineTypeOK
  <2>. QED BY <2>1, <2>2, <2>3
<1>6. ReturnAddressKept' /\ popped' \in Value
  <2>1. CASE Leave \/ RestoreRegisters
    BY <2>1 DEF Leave, RestoreRegisters, IInv, FrameInv, ReturnAddressKept, MachineTypeOK
  <2>2. CASE Ret
    <3>1. popped' = Mark("return")
      BY <2>2 DEF Ret, IInv, FrameInv, ReturnAddressKept, StackLevels
    <3>. QED BY <3>1, <2>2, NumberingTypes, Values DEF Ret, ReturnAddressKept, IInv
  <2>. QED BY <2>1, <2>2
<1>7. SavedWordsKept' /\ kept' \in [1..saved -> Value]
  <2>1. CASE Leave
    <3>1. fp' = outgoing + LocalWords
      BY <2>1 DEF Leave, IInv, FrameInv, StackLevels, SavedWordsKept, FrameBase
    <3>. QED BY <3>1, <2>1, <1>1 DEF Leave, IInv, FrameInv, SavedWordsKept, MachineTypeOK
  <2>2. CASE RestoreRegisters
    <3>1. sp = -1 - saved /\ kept' = [r \in 1..saved |-> mem[sp + saved - r]]
      BY <2>2 DEF RestoreRegisters, IInv, FrameInv, StackLevels
    <3>2. \A r \in 1..saved : sp + saved - r = -1 - r
      BY <3>1, <1>3
    <3>3. \A r \in 1..saved : mem[-1 - r] = CallersRegister(r) /\ CallersRegister(r) \in Value
      BY <2>2, NumberingTypes, Values DEF RestoreRegisters, IInv, FrameInv, SavedWordsKept
    <3>4. kept' \in [1..saved -> Value] /\ \A r \in 1..saved : kept'[r] = CallersRegister(r)
      BY <3>1, <3>2, <3>3
    <3>. QED BY <3>4, <2>2, <1>1 DEF RestoreRegisters, IInv, FrameInv, SavedWordsKept
  <2>3. CASE Ret
    BY <2>3, <1>1 DEF Ret, IInv, FrameInv, SavedWordsKept, MachineTypeOK
  <2>. QED BY <2>1, <2>2, <2>3
<1>8. MachineTypeOK' /\ PlacedCount'
  <2>1. Value' = Value
    BY <1>1 DEF Value
  <2>. QED BY <1>1, <1>5, <1>6, <1>7, <2>1 DEF IInv, FrameInv, MachineTypeOK, PlacedCount
<1>9. ArgumentsInPlace' /\ OutgoingFits' /\ CallerLocalsKept'
  BY <1>1, BelowFrameKept
<1>10. HomesInv' /\ TailInv'
  BY <1>1, ReadsKept DEF IInv, FrameInv, Early, Landed
<1>. QED BY <1>2, <1>5, <1>6, <1>7, <1>8, <1>9, <1>10 DEF IInv, FrameInv

LEMMA StutterKeepsIInv ==
  ASSUME IInv, UNCHANGED vars
  PROVE  IInv'
<1>1. /\ UNCHANGED <<callerVars, calleeVars, phase, outgoing, regs, mem, sp, fp, saved, kept, placed, homes, cursor, tail, popped>>
      /\ args' = args /\ fixedArgCount' = fixedArgCount /\ callerUsed' = callerUsed /\ callerSlots' = callerSlots
  BY DEF vars, callerVars
<1>2. NumberingInv'
  <2>1. \A h : (History(h) /\ Follows(h) /\ phase' = "body") => cursor' = h[fixedArgCount + Len(tail')]["stack"]
    BY <1>1 DEF Follows
  <2>2. fixedArgCount + Len(tail') <= Len(args)
        /\ (phase' # "number" => (Len(callerSlots) = Len(args) /\ Len(paramArrival) = fixedArgCount))
    BY <1>1 DEF IInv, NumberingInv
  <2>. QED BY <1>1, <2>1, <2>2, NumberingKept DEF IInv
<1>3. HomesInv' /\ TailInv'
  BY <1>1, ReadsKept DEF IInv, FrameInv
<1>4. MachineTypeOK' /\ PlacedCount'
  BY <1>1 DEF IInv, FrameInv, MachineTypeOK, PlacedCount, Value
<1>5. ArgumentsInPlace' /\ OutgoingFits' /\ CallerLocalsKept' /\ StackLevels' /\ ReturnAddressKept' /\ SavedWordsKept'
  BY <1>1 DEF IInv, FrameInv, ArgumentsInPlace, OutgoingFits, CallerLocalsKept, StackLevels, ReturnAddressKept, SavedWordsKept,
              Cells, Caller!Cells
<1>. QED BY <1>2, <1>3, <1>4, <1>5 DEF IInv, FrameInv

-----------------------------------------------------------------------------
(* The strengthened invariant holds in every state of every call. *)
THEOREM CallBoundaryInvariant == Spec => []IInv
<1>1. Init => IInv
  BY InitNumbering, InitFrame DEF IInv
<1>2. IInv /\ [Next]_vars => IInv'
  <2>. SUFFICES ASSUME IInv, Next PROVE IInv'
    BY StutterKeepsIInv
  <2>1. CASE NumberArgument
    BY <2>1, NumberArgumentKeepsNumbering, NumberingKeepsFrame DEF IInv
  <2>2. CASE NumberParameter
    BY <2>2, NumberParameterKeepsNumbering, NumberingKeepsFrame DEF IInv
  <2>3. CASE OpenCallerFrame
    BY <2>3, OpenCallerFrameKeepsIInv
  <2>4. CASE PlaceInRegister
    BY <2>4, PlaceInRegisterKeepsIInv
  <2>5. CASE PlaceOnStack
    BY <2>5, PlaceOnStackKeepsIInv
  <2>6. CASE Call
    BY <2>6, CallKeepsIInv
  <2>7. CASE SaveRegisters
    BY <2>7, SaveRegistersKeepsIInv
  <2>8. CASE Enter
    BY <2>8, EnterKeepsIInv
  <2>9. CASE SettleParameter
    BY <2>9, SettleParameterKeepsIInv
  <2>10. CASE VaStart
    BY <2>10, VaStartKeepsIInv
  <2>11. CASE VaArg
    BY <2>11, VaArgKeepsIInv
  <2>12. CASE Leave \/ RestoreRegisters \/ Ret
    BY <2>12, EpilogueKeepsIInv
  <2>. QED
    BY <2>1, <2>2, <2>3, <2>4, <2>5, <2>6, <2>7, <2>8, <2>9, <2>10, <2>11, <2>12 DEF Next
<1>. QED BY <1>1, <1>2, PTL DEF Spec

(* Both numberings, the registers, the stack and the pointers keep their   *)
(* types: no address the two frames use leaves the modelled stack.         *)
THEOREM CallBoundaryTypeCorrect == Spec => []TypeOK
<1>1. IInv => TypeOK
  <2>. SUFFICES ASSUME IInv PROVE TypeOK
    OBVIOUS
  <2>1. /\ args \in Seq(Caller!Arg) /\ fixedArgCount \in 0..Len(args)
        /\ callerUsed \in [Caller!Kind -> Nat] /\ callerSlots \in Seq(Caller!ArgSlot)
        /\ Len(callerSlots) <= Len(args)
    BY CallBoundaryAssumption
    DEF IInv, NumberingInv, CallerSlots!IInv, CallerSlots!TypeOK, CallerSlots!ArgSlot, CallerSlots!Kind,
        CallerSlots!Bank, Caller!ArgSlot, Caller!Kind, Caller!Bank
  <2>2. PICK h : History(h) /\ Follows(h)
    BY DEF IInv, NumberingInv
  <2>3. calleeUsed \in Cursors
    <3>1. Len(paramArrival) \in 0..Len(callerSlots)
      BY NumberingTypes DEF IInv, NumberingInv
    <3>. QED BY <3>1, <2>2 DEF History, Follows
  <2>4. /\ params \in Seq(Caller!Arg) /\ Len(params) = fixedArgCount /\ fixedArgCount \in Nat
        /\ paramArrival \in Seq(ArgSlot) /\ Len(paramArrival) <= fixedArgCount
    BY <2>1, NumberingTypes DEF IInv, NumberingInv
  <2>5. Caller!TypeOK
    BY <2>1 DEF Caller!TypeOK
  <2>6. Callee!TypeOK
    BY <2>3, <2>4
    DEF Callee!TypeOK, Callee!Arg, Callee!Bank, Callee!Kind, Callee!ArgSlot, Caller!Arg, Caller!Bank,
        Cursors, Kind, Caller!Kind, ArgSlot
  <2>. QED BY <2>5, <2>6 DEF TypeOK, IInv, FrameInv
<1>. QED BY <1>1, CallBoundaryInvariant, PTL

(* Whatever the argument list, wherever the two ends put each argument, a  *)
(* declared parameter settles with the words its argument was passed as.   *)
THEOREM EveryParameterArrives == Spec => []ParametersArrive
<1>1. IInv => ParametersArrive
  BY DEF IInv, FrameInv, HomesInv, ParametersArrive
<1>. QED BY <1>1, CallBoundaryInvariant, PTL

(* va_arg walks the tail in order, for any declared parameters before it   *)
(* and any number of callee-saved registers pushed under it.               *)
THEOREM EveryTailArrives == Spec => []TailArrives
<1>1. IInv => TailArrives
  BY DEF IInv, FrameInv, TailInv
<1>. QED BY <1>1, CallBoundaryInvariant, PTL

(* No argument set-up and no prologue reaches the caller's own locals.     *)
THEOREM CallerKeepsItsLocals == Spec => []CallerLocalsKept
<1>1. IInv => CallerLocalsKept
  BY DEF IInv, FrameInv
<1>. QED BY <1>1, CallBoundaryInvariant, PTL

(* The call comes back through the address it pushed, with sp and fp as     *)
(* they were and every callee-saved register holding the caller's value.   *)
THEOREM CallRestoresTheStack == Spec => []StackRestored
<1>1. IInv => StackRestored
  BY DEF IInv, FrameInv, StackLevels, ReturnAddressKept, SavedWordsKept, StackRestored
<1>. QED BY <1>1, CallBoundaryInvariant, PTL

=============================================================================
