--------------------------- MODULE ArgSlotsProofs ---------------------------
(***************************************************************************)
(* The numbering of ArgSlots.tla, proved for every number of argument      *)
(* registers and every set of argument lists.  The inductive invariant     *)
(* IInv says what the loop's three cursors mean: every slot handed out     *)
(* lies below its kind's cursor, slots of one kind come in argument order, *)
(* and a bank with a spilled declared argument has no register left.       *)
(***************************************************************************)
EXTENDS ArgSlots, TLAPS

End(slot) == slot.index + Width(slot.wide)

(* Each slot is of its argument's bank or on the stack, and as wide. *)
SlotsMatch ==
  \A j \in DOMAIN result :
    /\ result[j].kind \in {args[j].bank, "stack"}
    /\ result[j].wide = args[j].wide

BelowCursor ==
  /\ \A b \in Bank : used[b] <= ArgRegisterCount
  /\ \A j \in DOMAIN result : End(result[j]) <= used[result[j].kind]

InOrder ==
  \A j, k \in DOMAIN result :
    (j < k /\ result[j].kind = result[k].kind) => End(result[j]) <= result[k].index

Aligned ==
  \A j \in DOMAIN result :
    (result[j].kind \in Bank /\ result[j].wide) => result[j].index % 2 = 0

SpillSpendsBank ==
  \A j \in DOMAIN result :
    result[j].kind = "stack" =>
      \/ j > fixedArgCount
      \/ used[args[j].bank] = ArgRegisterCount

CursorIsDense ==
  \A c \in 0..(used["stack"] - 1) :
    \E k \in DOMAIN result : result[k].kind = "stack" /\ c \in Cells(result[k])

IInv ==
  /\ TypeOK
  /\ SlotsMatch
  /\ BelowCursor
  /\ InOrder
  /\ Aligned
  /\ SpillSpendsBank
  /\ SpentBankStaysSpent
  /\ CursorIsDense
  /\ StackIsDense

-----------------------------------------------------------------------------

(* What the fields of a slot are. *)
LEMMA SlotShape ==
  \A s \in ArgSlot : /\ s.kind \in Kind /\ s.index \in Nat /\ s.wide \in BOOLEAN
                     /\ Width(s.wide) \in {1, 2} /\ End(s) \in Nat
<1>. SUFFICES ASSUME NEW s \in ArgSlot
              PROVE  /\ s.kind \in Kind /\ s.index \in Nat /\ s.wide \in BOOLEAN
                     /\ Width(s.wide) \in {1, 2} /\ End(s) \in Nat
  OBVIOUS
<1>1. s.kind \in Kind /\ s.index \in Nat /\ s.wide \in BOOLEAN
  BY DEF ArgSlot
<1>2. Width(s.wide) \in {1, 2}
  BY DEF Width
<1>. QED BY <1>1, <1>2 DEF End

(* An even cursor bound survives rounding a cursor up to an even register. *)
LEMMA StartRegisterBounds ==
  ASSUME TypeOK, BelowCursor, NEW arg \in Arg
  PROVE  /\ StartRegister(arg) \in Nat
         /\ used[arg.bank] <= StartRegister(arg)
         /\ StartRegister(arg) <= ArgRegisterCount
         /\ arg.wide => StartRegister(arg) % 2 = 0
<1>1. /\ arg.bank \in Bank /\ arg.bank \in Kind /\ arg.wide \in BOOLEAN
  BY DEF Arg, Kind
<1>2. used[arg.bank] \in Nat /\ used[arg.bank] <= ArgRegisterCount
  BY <1>1 DEF TypeOK, BelowCursor
<1>. QED BY <1>1, <1>2, ArgSlotsAssumption DEF StartRegister

LEMMA InitIInv == Init => IInv
<1>. SUFFICES ASSUME Init PROVE IInv
  OBVIOUS
<1>1. args \in Seq(Arg)
  BY ArgSlotsAssumption DEF Init
<1>2. result = << >> /\ DOMAIN result = {} /\ Len(result) = 0
  BY DEF Init
<1>3. TypeOK
  BY <1>1, <1>2 DEF Init, TypeOK
<1>4. \A b \in Kind : used[b] = 0
  BY DEF Init
<1>5. BelowCursor
  BY <1>2, <1>4, ArgSlotsAssumption DEF BelowCursor, Kind
<1>6. CursorIsDense
  BY <1>4 DEF CursorIsDense, Kind
<1>. QED
  BY <1>2, <1>3, <1>5, <1>6
  DEF IInv, SlotsMatch, InOrder, Aligned, SpillSpendsBank, SpentBankStaysSpent, StackIsDense

(* What every branch of the loop has in common: one slot is appended, at   *)
(* or above its kind's cursor, and the cursors only grow.                  *)
Places(slot) ==
  /\ i \in DOMAIN args
  /\ slot \in ArgSlot
  /\ slot.kind \in {args[i].bank, "stack"}
  /\ slot.wide = args[i].wide
  /\ slot.index >= used[slot.kind]
  /\ slot.kind = "stack" => slot.index = used["stack"]
  /\ result' = Append(result, slot)
  /\ args' = args /\ fixedArgCount' = fixedArgCount
  /\ used' \in [Kind -> Nat]
  /\ \A k \in Kind : used[k] <= used'[k]
  /\ End(slot) = used'[slot.kind]
  /\ slot.kind # "stack" => used'["stack"] = used["stack"]
  /\ \A b \in Bank : used'[b] <= ArgRegisterCount
  /\ (slot.kind \in Bank /\ slot.wide) => slot.index % 2 = 0
  /\ slot.kind = "stack" => (i > fixedArgCount \/ used'[args[i].bank] = ArgRegisterCount)
  /\ slot.kind \in Bank => (i <= fixedArgCount /\ used[slot.kind] < ArgRegisterCount)

LEMMA AssignOnePlaces ==
  ASSUME IInv, AssignOne
  PROVE  \E slot \in ArgSlot : Places(slot)
<1>. DEFINE a == args[i]
<1>1. i \in DOMAIN args /\ a \in Arg /\ i \in Nat
  BY DEF IInv, TypeOK, AssignOne, AssignTail, AssignRegister, AssignStack, i
<1>2. a.bank \in Bank /\ a.bank \in Kind /\ a.bank # "stack" /\ a.wide \in BOOLEAN /\ "stack" \in Kind /\ Bank \subseteq Kind
  BY <1>1 DEF Arg, Bank, Kind
<1>3. Width(a.wide) \in {1, 2}
  BY DEF Width
<1>4. /\ StartRegister(a) \in Nat
      /\ used[a.bank] <= StartRegister(a)
      /\ StartRegister(a) <= ArgRegisterCount
      /\ a.wide => StartRegister(a) % 2 = 0
  BY <1>1, StartRegisterBounds DEF IInv
<1>5. used \in [Kind -> Nat] /\ fixedArgCount \in Nat /\ \A b \in Bank : used[b] <= ArgRegisterCount
  BY DEF IInv, TypeOK, BelowCursor
<1>. HIDE DEF a
<1>6. CASE AssignTail
  <2>. DEFINE s == [kind |-> "stack", index |-> used["stack"], wide |-> a.wide]
  <2>1. s \in ArgSlot
    BY <1>2, <1>5 DEF ArgSlot
  <2>2. used' = [used EXCEPT !["stack"] = @ + Width(a.wide)] /\ result' = Append(result, s)
        /\ args' = args /\ fixedArgCount' = fixedArgCount /\ i > fixedArgCount
    BY <1>6 DEF AssignTail, Emit, a
  <2>3. /\ used' \in [Kind -> Nat]
        /\ used'["stack"] = used["stack"] + Width(a.wide)
        /\ \A k \in Kind : k # "stack" => used'[k] = used[k]
        /\ \A k \in Kind : used[k] <= used'[k]
    BY <2>2, <1>2, <1>3, <1>5
  <2>4. \A b \in Bank : used'[b] <= ArgRegisterCount
    BY <2>3, <1>5 DEF Bank, Kind
  <2>5. Places(s)
    BY <2>1, <2>2, <2>3, <2>4, <1>1, <1>2, <1>3, <1>5 DEF Places, End, a, Bank
  <2>. QED BY <2>1, <2>5
<1>7. CASE AssignRegister
  <2>. DEFINE s == [kind |-> a.bank, index |-> StartRegister(a), wide |-> a.wide]
  <2>1. s \in ArgSlot
    BY <1>2, <1>4 DEF ArgSlot
  <2>2. used' = [used EXCEPT ![a.bank] = StartRegister(a) + Width(a.wide)] /\ result' = Append(result, s)
        /\ args' = args /\ fixedArgCount' = fixedArgCount /\ i <= fixedArgCount
        /\ StartRegister(a) + Width(a.wide) <= ArgRegisterCount
    BY <1>7 DEF AssignRegister, Emit, FitsRegisters, a
  <2>3. /\ used' \in [Kind -> Nat]
        /\ used'[a.bank] = StartRegister(a) + Width(a.wide)
        /\ \A k \in Kind : k # a.bank => used'[k] = used[k]
        /\ \A k \in Kind : used[k] <= used'[k]
    BY <2>2, <1>2, <1>3, <1>4, <1>5
  <2>4. \A b \in Bank : used'[b] <= ArgRegisterCount
    BY <2>2, <2>3, <1>5, <1>2
  <2>5. used[a.bank] < ArgRegisterCount
    BY <2>2, <1>3, <1>4, <1>5, <1>2, ArgSlotsAssumption
  <2>6. Places(s)
    BY <2>1, <2>2, <2>3, <2>4, <2>5, <1>1, <1>2, <1>3, <1>4, <1>5 DEF Places, End, a
  <2>. QED BY <2>1, <2>6
<1>8. CASE AssignStack
  <2>. DEFINE s == [kind |-> "stack", index |-> used["stack"], wide |-> a.wide]
  <2>1. s \in ArgSlot
    BY <1>2, <1>5 DEF ArgSlot
  <2>2. used' = [used EXCEPT !["stack"] = @ + Width(a.wide), ![a.bank] = ArgRegisterCount]
        /\ result' = Append(result, s)
        /\ args' = args /\ fixedArgCount' = fixedArgCount
    BY <1>8 DEF AssignStack, Emit, a
  <2>3. /\ used' \in [Kind -> Nat]
        /\ used'["stack"] = used["stack"] + Width(a.wide)
        /\ used'[a.bank] = ArgRegisterCount
        /\ \A k \in Kind : (k # "stack" /\ k # a.bank) => used'[k] = used[k]
    BY <2>2, <1>2, <1>3, <1>5, ArgSlotsAssumption
  <2>4. \A b \in Bank : used'[b] <= ArgRegisterCount
    BY <2>3, <1>5, <1>2, ArgSlotsAssumption DEF Bank, Kind
  <2>5. \A k \in Kind : used[k] <= used'[k]
    BY <2>3, <1>2, <1>3, <1>5 DEF Kind
  <2>6. Places(s)
    BY <2>1, <2>2, <2>3, <2>4, <2>5, <1>1, <1>2, <1>3, <1>5 DEF Places, End, a, Bank
  <2>. QED BY <2>1, <2>6
<1>. QED BY <1>6, <1>7, <1>8 DEF AssignOne

LEMMA PlacesKeepsIInv ==
  ASSUME IInv, NEW slot \in ArgSlot, Places(slot)
  PROVE  IInv'
<1>. DEFINE n == Len(result)
<1>1. /\ args \in Seq(Arg) /\ result \in Seq(ArgSlot) /\ n \in Nat
      /\ fixedArgCount \in Nat /\ used \in [Kind -> Nat]
      /\ i = n + 1 /\ i \in DOMAIN args /\ i <= Len(args) /\ n < Len(args)
  BY DEF IInv, TypeOK, Places, i
<1>2. /\ result' \in Seq(ArgSlot) /\ Len(result') = n + 1
      /\ DOMAIN result' = DOMAIN result \cup {n + 1}
      /\ DOMAIN result = 1..n
      /\ \A j \in DOMAIN result : result'[j] = result[j] /\ j < n + 1 /\ j \in Nat /\ j \in DOMAIN args
      /\ result'[n + 1] = slot
  BY <1>1 DEF Places
<1>3. /\ slot.kind \in Kind /\ slot.index \in Nat /\ slot.wide \in BOOLEAN
      /\ Width(slot.wide) \in {1, 2}
      /\ \A j \in DOMAIN result : /\ result[j].kind \in Kind /\ result[j].index \in Nat
                                  /\ Width(result[j].wide) \in {1, 2}
                                  /\ End(result[j]) \in Nat
  <2>1. \A j \in DOMAIN result : result[j] \in ArgSlot
    BY <1>1
  <2>2. \A s \in ArgSlot : /\ s.kind \in Kind /\ s.index \in Nat /\ s.wide \in BOOLEAN
                           /\ Width(s.wide) \in {1, 2} /\ End(s) \in Nat
    BY SlotShape
  <2>. QED BY <2>1, <2>2
<1>4. \A j \in DOMAIN args : args[j].bank \in Bank /\ args[j].bank \in Kind
  <2>1. \A j \in DOMAIN args : args[j] \in Arg
    BY <1>1
  <2>. QED BY <2>1 DEF Arg, Kind
<1>5. \A k \in Kind : used[k] \in Nat /\ used'[k] \in Nat /\ used[k] <= used'[k]
  BY <1>1 DEF Places
<1>6. TypeOK'
  BY <1>1, <1>2 DEF IInv, TypeOK, Places
<1>7. SlotsMatch'
  BY <1>1, <1>2 DEF IInv, SlotsMatch, Places
<1>8. BelowCursor'
  <2>1. \A j \in DOMAIN result : End(result[j]) <= used'[result[j].kind]
    BY <1>3, <1>5 DEF IInv, BelowCursor
  <2>2. End(slot) <= used'[slot.kind]
    BY <1>3, <1>5 DEF Places
  <2>. QED BY <2>1, <2>2, <1>2 DEF BelowCursor, Places
<1>9. InOrder'
  <2>1. \A j \in DOMAIN result : result[j].kind = slot.kind => End(result[j]) <= slot.index
    BY <1>3, <1>5 DEF IInv, BelowCursor, Places
  <2>. QED BY <2>1, <1>1, <1>2 DEF IInv, InOrder
<1>10. Aligned'
  BY <1>2 DEF IInv, Aligned, Places
<1>11. SpillSpendsBank'
  <2>1. ASSUME NEW j \in DOMAIN result, result[j].kind = "stack", ~(j > fixedArgCount)
        PROVE  used'[args[j].bank] = ArgRegisterCount
    <3>1. used[args[j].bank] = ArgRegisterCount
      BY <2>1 DEF IInv, SpillSpendsBank
    <3>2. used'[args[j].bank] <= ArgRegisterCount /\ used[args[j].bank] <= used'[args[j].bank]
      BY <1>2, <1>4, <1>5 DEF Places
    <3>. QED BY <3>1, <3>2, <1>2, <1>4, <1>5, ArgSlotsAssumption
  <2>. QED BY <2>1, <1>1, <1>2 DEF SpillSpendsBank, Places
<1>12. SpentBankStaysSpent'
  <2>1. ASSUME NEW j \in DOMAIN result, args[j].bank = args[n + 1].bank, result[j].kind = "stack"
        PROVE  slot.kind = "stack"
    <3>1. CASE j > fixedArgCount
      BY <3>1, <1>1, <1>2, <1>4 DEF Places
    <3>2. CASE ~(j > fixedArgCount)
      <4>1. used[args[n + 1].bank] = ArgRegisterCount
        BY <2>1, <3>2 DEF IInv, SpillSpendsBank
      <4>. QED BY <4>1, <1>1, <1>4, ArgSlotsAssumption DEF Places, Bank
    <3>. QED BY <3>1, <3>2
  <2>. QED BY <2>1, <1>1, <1>2 DEF IInv, SpentBankStaysSpent, Places
<1>13. CursorIsDense'
  <2>. SUFFICES ASSUME NEW c \in 0..(used'["stack"] - 1)
                PROVE  \E k \in DOMAIN result' : result'[k].kind = "stack" /\ c \in Cells(result'[k])
    BY DEF CursorIsDense
  <2>0. "stack" \in Kind
    BY DEF Kind
  <2>1. CASE c \in 0..(used["stack"] - 1)
    <3>1. PICK k \in DOMAIN result : result[k].kind = "stack" /\ c \in Cells(result[k])
      BY <2>1 DEF IInv, CursorIsDense
    <3>. QED BY <3>1, <1>2
  <2>2. CASE c \notin 0..(used["stack"] - 1)
    <3>1. slot.kind = "stack"
      BY <2>2, <2>0 DEF Places
    <3>2. c \in Cells(slot)
      BY <3>1, <2>0, <2>2, <1>3, <1>5 DEF Places, Cells, End
    <3>. QED BY <3>1, <3>2, <1>2
  <2>. QED BY <2>1, <2>2
<1>14. StackIsDense'
  <2>1. ASSUME slot.kind = "stack", NEW c \in 0..(slot.index - 1)
        PROVE  \E k \in 1..n : result[k].kind = "stack" /\ c \in Cells(result[k])
    BY <2>1, <1>2 DEF IInv, CursorIsDense, Places
  <2>2. ASSUME NEW j \in DOMAIN result, result[j].kind = "stack", NEW c \in 0..(result[j].index - 1)
        PROVE  \E k \in 1..(j - 1) : result'[k].kind = "stack" /\ c \in Cells(result'[k])
    <3>1. PICK k \in 1..(j - 1) : result[k].kind = "stack" /\ c \in Cells(result[k])
      BY <2>2 DEF IInv, StackIsDense
    <3>2. k \in DOMAIN result
      BY <1>1, <1>2
    <3>. QED BY <3>1, <3>2, <1>2
  <2>3. ASSUME slot.kind = "stack", NEW c \in 0..(slot.index - 1)
        PROVE  \E k \in 1..((n + 1) - 1) : result'[k].kind = "stack" /\ c \in Cells(result'[k])
    <3>1. PICK k \in 1..n : result[k].kind = "stack" /\ c \in Cells(result[k])
      BY <2>1, <2>3
    <3>. QED BY <3>1, <1>1, <1>2
  <2>. QED BY <2>2, <2>3, <1>2 DEF StackIsDense
<1>. QED
  BY <1>6, <1>7, <1>8, <1>9, <1>10, <1>11, <1>12, <1>13, <1>14 DEF IInv

LEMMA StutterKeepsIInv == IInv /\ UNCHANGED vars => IInv'
BY DEF vars, IInv, TypeOK, SlotsMatch, BelowCursor, InOrder, Aligned, SpillSpendsBank,
       SpentBankStaysSpent, CursorIsDense, StackIsDense

(* The strengthened invariant holds in every reachable state. *)
THEOREM IInvHolds == Spec => []IInv
<1>1. IInv /\ [Next]_vars => IInv'
  <2>1. ASSUME IInv, Next PROVE IInv'
    <3>1. PICK slot \in ArgSlot : Places(slot)
      BY <2>1, AssignOnePlaces DEF Next
    <3>. QED BY <2>1, <3>1, PlacesKeepsIInv
  <2>. QED BY <2>1, StutterKeepsIInv
<1>. QED BY InitIInv, <1>1, PTL DEF Spec

(* assignArgSlots() keeps its cursors natural numbers and returns at most  *)
(* one slot per argument, for every bank size and argument list.           *)
THEOREM ArgSlotsTypeCorrect == Spec => []TypeOK
BY IInvHolds, PTL DEF IInv

(* No two arguments of a call are given one register or one stack word. *)
THEOREM ArgSlotsNeverOverlap == Spec => []NoOverlap
<1>1. IInv => NoOverlap
  <2>. SUFFICES ASSUME IInv, NEW j \in DOMAIN result, NEW k \in DOMAIN result,
                       j # k, result[j].kind = result[k].kind
                PROVE  Cells(result[j]) \cap Cells(result[k]) = {}
    BY DEF NoOverlap
  <2>1. /\ j \in Nat /\ k \in Nat
        /\ result[j].index \in Nat /\ result[k].index \in Nat
        /\ Width(result[j].wide) \in {1, 2} /\ Width(result[k].wide) \in {1, 2}
    <3>1. result \in Seq(ArgSlot)
      BY DEF IInv, TypeOK
    <3>2. result[j] \in ArgSlot /\ result[k] \in ArgSlot /\ j \in Nat /\ k \in Nat
      BY <3>1
    <3>. QED BY <3>2, SlotShape
  <2>2. End(result[j]) <= result[k].index \/ End(result[k]) <= result[j].index
    BY <2>1 DEF IInv, InOrder
  <2>. QED BY <2>1, <2>2 DEF Cells, End
<1>. QED BY <1>1, IInvHolds, PTL

(* Every register slot exists, and a 64-bit one is an aligned pair. *)
THEOREM ArgSlotsRegistersExist == Spec => []RegistersExist
<1>1. IInv => RegistersExist
  <2>. SUFFICES ASSUME IInv, NEW j \in DOMAIN result, result[j].kind \in Bank
                PROVE  /\ result[j].index + Width(result[j].wide) <= ArgRegisterCount
                       /\ result[j].wide => result[j].index % 2 = 0
    BY DEF RegistersExist
  <2>1. /\ result[j].index \in Nat /\ Width(result[j].wide) \in {1, 2}
        /\ used[result[j].kind] \in Nat
    <3>1. result \in Seq(ArgSlot) /\ used \in [Kind -> Nat]
      BY DEF IInv, TypeOK
    <3>2. result[j] \in ArgSlot
      BY <3>1
    <3>. QED BY <3>1, <3>2, SlotShape
  <2>2. End(result[j]) <= used[result[j].kind] /\ used[result[j].kind] <= ArgRegisterCount
    BY DEF IInv, BelowCursor
  <2>3. result[j].wide => result[j].index % 2 = 0
    BY DEF IInv, Aligned
  <2>. QED BY <2>1, <2>2, <2>3, ArgSlotsAssumption DEF End
<1>. QED BY <1>1, IInvHolds, PTL

(* A declared argument that spills keeps every later one of its bank out   *)
(* of the registers.                                                       *)
THEOREM ArgSlotsSpentBank == Spec => []SpentBankStaysSpent
BY IInvHolds, PTL DEF IInv

(* The outgoing words, and with them the variadic tail, have no gap. *)
THEOREM ArgSlotsStackDense == Spec => []StackIsDense
BY IInvHolds, PTL DEF IInv
=============================================================================
