---------------------------- MODULE CallBoundary ----------------------------
(***************************************************************************)
(* Both ends of one call, at the level of the words the generated code     *)
(* moves.  The caller numbers the call's arguments and stores each where   *)
(* its slot says (codegen.cpp, case IrOpcode::Call), in a frame whose      *)
(* outgoing area computeOutgoingSlotCount() sized; the callee numbers its  *)
(* own declared parameters, saves registers, opens its frame, settles each *)
(* parameter from where it arrived (generateFunction) and walks its        *)
(* variadic tail (IrOpcode::VaStart, IrBuilder's va_arg).                  *)
(*                                                                         *)
(* Addresses are word numbers relative to the caller's sp while it sets    *)
(* the arguments up, so outgoing word n is address n; the callee pushes    *)
(* below 0.  A word holds <<"arg", a, w>>, the word w of argument a, the   *)
(* caller's value of a callee-saved register, a frame pointer, or a Mark:  *)
(* a return address, somebody's local.                                     *)
(***************************************************************************)
EXTENDS Integers, Sequences, FiniteSetsExt

CONSTANTS
  ArgRegisterCount, ArgLists,
  SavedCounts,      \* how many callee-saved registers the callee may push
  OtherCallWords,   \* outgoing words the caller's other calls may need
  LocalWords,       \* words of locals the caller's frame holds above them
  Words             \* the addresses of the stack that are modelled

VARIABLES
  phase,
  args, fixedArgCount, callerUsed, callerSlots,   \* the Params of the call
  params, calleeUsed, paramArrival,               \* the callee's own list
  outgoing,                                       \* words of the outgoing area
  regs, mem, sp, fp, saved,
  kept,                                           \* the callee-saved registers, as pushed
  placed,                                         \* arguments the caller has moved
  homes,                                          \* what each parameter settled with
  cursor, tail,                                   \* the va_list and what it read
  popped                                          \* what `ret` jumped to
callerVars == <<args, fixedArgCount, callerUsed, callerSlots>>
calleeVars == <<params, calleeUsed, paramArrival>>
vars == <<phase, callerVars, calleeVars, outgoing, regs, mem, sp, fp, saved, kept, placed, homes, cursor, tail, popped>>

Caller == INSTANCE ArgSlots WITH used <- callerUsed, result <- callerSlots
Callee == INSTANCE ArgSlots WITH args <- params, fixedArgCount <- Len(params),
                                 used <- calleeUsed, result <- paramArrival

(* The stack is modelled deep and high enough for one call; how the caller *)
(* sizes its frame, and what the callee pushes, is what is checked.        *)
ASSUME CallBoundaryAssumption ==
  /\ ArgRegisterCount \in Nat /\ ArgRegisterCount % 2 = 0
  /\ ArgLists \subseteq Seq(Caller!Arg)
  /\ SavedCounts \subseteq Nat
  /\ OtherCallWords \subseteq Nat
  /\ LocalWords \in Nat
  /\ Words \subseteq Int
  /\ \A n \in SavedCounts, o \in OtherCallWords, list \in ArgLists :
       -(3 + n) .. (o + 2 * Len(list) + LocalWords) \subseteq Words

Bank     == Caller!Bank
Kind     == Caller!Kind
Cells(s) == Caller!Cells(s)
Width(w) == Caller!Width(w)

Mark(m) == <<m, 0, 0>>
CallersRegister(r) == <<"register", r, 0>>
FrameBase(a)       == <<"fp", a, 0>>
Value == {Mark(m) : m \in {"none", "return", "local", "body"}}
           \cup ({"arg"} \X (1..Len(args)) \X {0, 1})
           \cup {CallersRegister(r) : r \in 1..saved} \cup {FrameBase(a) : a \in Words}
ArgWords(a) == [w \in 1..Width(args[a].wide) |-> <<"arg", a, w - 1>>]

StackSlots(slots) == {s \in {slots[j] : j \in DOMAIN slots} : s.kind = "stack"}
(* Mutant of StackWords: a 64-bit argument sized as one word.              *)
StackWordsNarrow(slots) == Max({0} \cup {s.index + 1 : s \in StackSlots(slots)})
StackWords(slots) == Max({0} \cup {s.index + Width(s.wide) : s \in StackSlots(slots)})

(* Mutant of FixedStackArgWords: the parameters counted, not their words.   *)
FixedStackArgCount ==
  Cardinality({j \in DOMAIN paramArrival : paramArrival[j].kind = "stack"})

(* generateFunction's _fixedStackArgWords: the words the callee's own      *)
(* parameters took, where the variadic tail begins; summed in order.       *)
StackArgWords[j \in 0..Len(paramArrival)] ==
  IF j = 0 THEN 0
  ELSE StackArgWords[j - 1]
         + (IF paramArrival[j].kind = "stack" THEN Width(paramArrival[j].wide) ELSE 0)
FixedStackArgWords == StackArgWords[Len(paramArrival)]

(* Mutant of Incoming: the registers pushed before `enter` are forgotten.    *)
IncomingPastFrame(index) == fp + 2 + index

(* [fp + 8 + 4 * _calleeSavedWords + 4 * index]: past the saved fp and the *)
(* return address, and past the callee-saved copies pushed in between.     *)
Incoming(index) == fp + 2 + saved + index

(* The types of the machine and of the two frames. *)
MachineTypeOK ==
  /\ phase \in {"number", "setup", "save", "enter", "settle", "body", "restore", "ret", "returned"}
  /\ outgoing \in Nat
  /\ regs \in [Bank -> [0..(ArgRegisterCount - 1) -> Value]]
  /\ mem \in [Words -> Value]
  /\ sp \in Words /\ fp \in Words
  /\ saved \in SavedCounts
  /\ kept \in [1..saved -> Value]
  /\ placed \in 0..Len(args)
  /\ cursor \in Words
  /\ popped \in Value

TypeOK == Caller!TypeOK /\ Callee!TypeOK /\ MachineTypeOK

Init ==
  /\ phase = "number"
  /\ Caller!Init
  /\ params = SubSeq(args, 1, fixedArgCount)
  /\ calleeUsed = [k \in Kind |-> 0]
  /\ paramArrival = << >>
  /\ outgoing \in OtherCallWords
  /\ regs = [b \in Bank |-> [r \in 0..(ArgRegisterCount - 1) |-> Mark("none")]]
  /\ mem = [a \in Words |-> Mark("none")]
  /\ sp = 0 /\ fp = 0
  /\ saved \in SavedCounts
  /\ kept = [r \in 1..saved |-> CallersRegister(r)]
  /\ placed = 0
  /\ homes = << >>
  /\ cursor = 0
  /\ tail = << >>
  /\ popped = Mark("none")

-----------------------------------------------------------------------------
(* The caller.                                                             *)

NumberArgument ==
  /\ phase = "number"
  /\ Caller!AssignOne
  /\ UNCHANGED <<phase, calleeVars, outgoing, regs, mem, sp, fp, saved, kept, placed, homes, cursor, tail, popped>>

NumberParameter ==
  /\ phase = "number"
  /\ Caller!Done
  /\ Callee!AssignOne
  /\ UNCHANGED <<phase, callerVars, outgoing, regs, mem, sp, fp, saved, kept, placed, homes, cursor, tail, popped>>

(* The caller's frame: the outgoing area is as large as the largest call   *)
(* of the function needs, its locals start right above it, and fp stands   *)
(* above them.                                                             *)
OpenCallerFrame ==
  /\ phase = "number"
  /\ Caller!Done /\ Callee!Done
  /\ phase' = "setup"
  /\ outgoing' = Max({outgoing, StackWords(callerSlots)})
  /\ mem' = [a \in Words |-> IF a \in outgoing' .. (outgoing' + LocalWords - 1) THEN Mark("local") ELSE mem[a]]
  /\ fp' = outgoing' + LocalWords
  /\ UNCHANGED <<callerVars, calleeVars, regs, sp, saved, kept, placed, homes, cursor, tail, popped>>

(* The arguments are moved in order. *)
next == placed + 1

PlaceInRegister ==
  /\ phase = "setup"
  /\ next \in DOMAIN args
  /\ LET s == callerSlots[next] IN
       /\ s.kind \in Bank
       /\ regs' = [regs EXCEPT ![s.kind] = [r \in DOMAIN @ |->
                     IF r \in Cells(s) THEN <<"arg", next, r - s.index>> ELSE @[r]]]
  /\ placed' = next
  /\ UNCHANGED <<phase, callerVars, calleeVars, outgoing, mem, sp, fp, saved, kept, homes, cursor, tail, popped>>

PlaceOnStack ==
  /\ phase = "setup"
  /\ next \in DOMAIN args
  /\ LET s == callerSlots[next] IN
       /\ s.kind = "stack"
       /\ mem' = [a \in Words |-> IF a - sp \in Cells(s) THEN <<"arg", next, a - sp - s.index>> ELSE mem[a]]
  /\ placed' = next
  /\ UNCHANGED <<phase, callerVars, calleeVars, outgoing, regs, sp, fp, saved, kept, homes, cursor, tail, popped>>

(* `call f` pushes the return address. *)
Call ==
  /\ phase = "setup"
  /\ placed = Len(args)
  /\ phase' = "save"
  /\ sp' = sp - 1
  /\ mem' = [mem EXCEPT ![sp - 1] = Mark("return")]
  /\ UNCHANGED <<callerVars, calleeVars, outgoing, regs, fp, saved, kept, placed, homes, cursor, tail, popped>>

-----------------------------------------------------------------------------
(* The callee.                                                             *)

(* pushm / fpushm of the callee-saved registers it uses, before `enter`.   *)
SaveRegisters ==
  /\ phase = "save"
  /\ phase' = "enter"
  /\ sp' = sp - saved
  /\ mem' = [a \in Words |-> IF a \in (sp - saved)..(sp - 1) THEN kept[sp - a] ELSE mem[a]]
  /\ UNCHANGED <<callerVars, calleeVars, outgoing, regs, fp, saved, kept, placed, homes, cursor, tail, popped>>

(* `enter` pushes fp; the registers saved are the body's from here on.     *)
Enter ==
  /\ phase = "enter"
  /\ phase' = "settle"
  /\ fp' = sp - 1
  /\ sp' = sp - 2          \* a frame of one word
  /\ mem' = [mem EXCEPT ![sp - 1] = FrameBase(fp), ![sp - 2] = Mark("body")]
  /\ kept' = [r \in 1..saved |-> Mark("body")]
  /\ UNCHANGED <<callerVars, calleeVars, outgoing, regs, saved, placed, homes, cursor, tail, popped>>

(* One parameter, in declaration order, from its arrival register (pair)   *)
(* or from its incoming stack word(s).                                     *)
Arrived(s) ==
  [w \in 1..Width(s.wide) |->
     IF s.kind \in Bank THEN regs[s.kind][s.index + w - 1] ELSE mem[Incoming(s.index + w - 1)]]

SettleParameter ==
  /\ phase = "settle"
  /\ Len(homes) < Len(params)
  /\ homes' = Append(homes, Arrived(paramArrival[Len(homes) + 1]))
  /\ UNCHANGED <<phase, callerVars, calleeVars, outgoing, regs, mem, sp, fp, saved, kept, placed, cursor, tail, popped>>

VaStart ==
  /\ phase = "settle"
  /\ Len(homes) = Len(params)
  /\ phase' = "body"
  /\ cursor' = Incoming(FixedStackArgWords)
  /\ UNCHANGED <<callerVars, calleeVars, outgoing, regs, mem, sp, fp, saved, kept, placed, homes, tail, popped>>

(* One va_arg of the type that was passed: read, then advance the cursor. *)
VaArg ==
  /\ phase = "body"
  /\ fixedArgCount + Len(tail) < Len(args)
  /\ LET width == Width(args[fixedArgCount + Len(tail) + 1].wide) IN
       /\ tail' = Append(tail, [w \in 1..width |-> mem[cursor + w - 1]])
       /\ cursor' = cursor + width
  /\ UNCHANGED <<phase, callerVars, calleeVars, outgoing, regs, mem, sp, fp, saved, kept, placed, homes, popped>>

(* Mutant of Leave: the saved fp stays on the stack.                        *)
LeaveFrameOnly ==
  /\ phase = "body"
  /\ fixedArgCount + Len(tail) = Len(args)
  /\ phase' = "restore"
  /\ sp' = fp /\ UNCHANGED fp
  /\ UNCHANGED <<callerVars, calleeVars, outgoing, regs, mem, saved, kept, placed, homes, cursor, tail, popped>>

(* The epilogue undoes the prologue in reverse: `leave` pops fp, then the   *)
(* registers come back, the last one pushed first.                         *)
Leave ==
  /\ phase = "body"
  /\ fixedArgCount + Len(tail) = Len(args)
  /\ phase' = "restore"
  /\ sp' = fp + 1 /\ fp' = mem[fp][2]
  /\ UNCHANGED <<callerVars, calleeVars, outgoing, regs, mem, saved, kept, placed, homes, cursor, tail, popped>>

RestoreRegisters ==
  /\ phase = "restore"
  /\ phase' = "ret"
  /\ sp' = sp + saved
  /\ kept' = [r \in 1..saved |-> mem[sp + saved - r]]
  /\ UNCHANGED <<callerVars, calleeVars, outgoing, regs, mem, fp, saved, placed, homes, cursor, tail, popped>>

Ret ==
  /\ phase = "ret"
  /\ phase' = "returned"
  /\ popped' = mem[sp]
  /\ sp' = sp + 1
  /\ UNCHANGED <<callerVars, calleeVars, outgoing, regs, mem, fp, saved, kept, placed, homes, cursor, tail>>

Next ==
  \/ NumberArgument \/ NumberParameter \/ OpenCallerFrame
  \/ PlaceInRegister \/ PlaceOnStack \/ Call
  \/ SaveRegisters \/ Enter \/ SettleParameter \/ VaStart \/ VaArg
  \/ Leave \/ RestoreRegisters \/ Ret

Spec == Init /\ [][Next]_vars /\ WF_vars(Next)

-----------------------------------------------------------------------------
(* Properties.                                                             *)

(* A declared parameter settles with the very words its argument was       *)
(* passed as, wherever the two ends put it.                                *)
ParametersArrive ==
  phase \in {"settle", "body", "restore", "ret", "returned"} =>
    \A p \in DOMAIN homes : homes[p] = ArgWords(p)

(* va_arg reads the tail in order, starting past the parameters the callee *)
(* took from the stack, however many registers the prologue saved.         *)
TailArrives ==
  \A t \in DOMAIN tail : tail[t] = ArgWords(fixedArgCount + t)

(* Setting up the arguments never leaves the outgoing area: the caller's   *)
(* own locals right above it keep their values.                            *)
CallerLocalsKept ==
  phase # "number" =>
    \A a \in outgoing .. (outgoing + LocalWords - 1) : mem[a] = Mark("local")

(* The call comes back through the address it pushed, to a caller whose sp, *)
(* fp and callee-saved registers are what they were.                       *)
StackRestored ==
  phase = "returned" =>
    /\ sp = 0 /\ popped = Mark("return")
    /\ fp = outgoing + LocalWords
    /\ \A r \in 1..saved : kept[r] = CallersRegister(r)

Returns == <>(phase = "returned")
=============================================================================
