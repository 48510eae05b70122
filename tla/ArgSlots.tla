------------------------------ MODULE ArgSlots ------------------------------
(***************************************************************************)
(* Where the arguments of one call land: assignArgSlots() of               *)
(* libs/codegen/src/frame_layout.cpp.  The loop over the arguments is a    *)
(* state machine, one step per argument, with one action per branch of the *)
(* loop body: the variadic tail, an argument register (or an aligned pair  *)
(* of them), the outgoing stack area.                                      *)
(*                                                                         *)
(* The caller numbers the Params of a Call with it and the callee numbers  *)
(* its own declared parameters with it, so what the two ends agree on is   *)
(* exactly what this loop computes; CallBoundary.tla composes them.        *)
(***************************************************************************)
EXTENDS Integers, Sequences

CONSTANTS
  ArgRegisterCount,  \* argument registers per bank: r0-r3 and f0-f3, so 4
  ArgLists           \* the argument lists considered, each a sequence of Arg

Bank == {"int", "float"}
Arg  == [bank : Bank, wide : BOOLEAN]

ASSUME ArgSlotsAssumption ==
  /\ ArgRegisterCount \in Nat
  /\ ArgRegisterCount % 2 = 0
  /\ ArgLists \subseteq Seq(Arg)

Kind    == Bank \cup {"stack"}
ArgSlot == [kind : Kind, index : Nat, wide : BOOLEAN]

Width(wide) == IF wide THEN 2 ELSE 1

VARIABLES
  args,           \* the argument list being numbered
  fixedArgCount,  \* where the declared parameters end; Len(args) when no tail
  used,           \* [int, float, stack |-> next free register or stack word]
  result          \* the slots assigned so far, one per argument
vars == <<args, fixedArgCount, used, result>>

TypeOK ==
  /\ args \in Seq(Arg)
  /\ fixedArgCount \in 0..Len(args)
  /\ used \in [Kind -> Nat]
  /\ result \in Seq(ArgSlot)
  /\ Len(result) <= Len(args)

Init ==
  /\ args \in ArgLists
  /\ fixedArgCount \in 0..Len(args)
  /\ used = [k \in Kind |-> 0]
  /\ result = << >>

-----------------------------------------------------------------------------
(* One argument: the loop body.                                            *)

i == Len(result) + 1

(* The register a fixed argument would start at: a 64-bit one rounds its   *)
(* bank's cursor up to an even register.                                   *)
StartRegister(arg) ==
  IF arg.wide THEN 2 * ((used[arg.bank] + 1) \div 2) ELSE used[arg.bank]

FitsRegisters(arg) ==
  StartRegister(arg) + Width(arg.wide) <= ArgRegisterCount

Emit(kind, index) ==
  result' = Append(result, [kind |-> kind, index |-> index, wide |-> args[i].wide])

(* Mutant of AssignTail: a 64-bit tail argument aligned to 8 bytes.         *)
AssignTailAligned ==
  /\ i \in DOMAIN args
  /\ i > fixedArgCount
  /\ LET start == IF args[i].wide THEN 2 * ((used["stack"] + 1) \div 2) ELSE used["stack"] IN
       /\ Emit("stack", start)
       /\ used' = [used EXCEPT !["stack"] = start + Width(args[i].wide)]
  /\ UNCHANGED <<args, fixedArgCount>>

(* frame_layout.cpp's variadic branch: stack, whatever registers are free. *)
AssignTail ==
  /\ i \in DOMAIN args
  /\ i > fixedArgCount
  /\ Emit("stack", used["stack"])
  /\ used' = [used EXCEPT !["stack"] = @ + Width(args[i].wide)]
  /\ UNCHANGED <<args, fixedArgCount>>

AssignRegister ==
  /\ i \in DOMAIN args
  /\ i <= fixedArgCount
  /\ FitsRegisters(args[i])
  /\ Emit(args[i].bank, StartRegister(args[i]))
  /\ used' = [used EXCEPT ![args[i].bank] =
                StartRegister(args[i]) + Width(args[i].wide)]
  /\ UNCHANGED <<args, fixedArgCount>>

(* Mutants of AssignStack: the bank is not marked as spent; a 64-bit       *)
(* argument advances the stack by one word.                                *)
AssignStackKeepsBank ==
  /\ i \in DOMAIN args
  /\ i <= fixedArgCount
  /\ ~FitsRegisters(args[i])
  /\ Emit("stack", used["stack"])
  /\ used' = [used EXCEPT !["stack"] = @ + Width(args[i].wide)]
  /\ UNCHANGED <<args, fixedArgCount>>
AssignStackOneWord ==
  /\ i \in DOMAIN args
  /\ i <= fixedArgCount
  /\ ~FitsRegisters(args[i])
  /\ Emit("stack", used["stack"])
  /\ used' = [used EXCEPT !["stack"] = @ + 1, ![args[i].bank] = ArgRegisterCount]
  /\ UNCHANGED <<args, fixedArgCount>>

(* No register (pair) is left: the stack, and the bank counts as spent.    *)
AssignStack ==
  /\ i \in DOMAIN args
  /\ i <= fixedArgCount
  /\ ~FitsRegisters(args[i])
  /\ Emit("stack", used["stack"])
  /\ used' = [used EXCEPT !["stack"] = @ + Width(args[i].wide),
                          ![args[i].bank] = ArgRegisterCount]
  /\ UNCHANGED <<args, fixedArgCount>>

AssignOne == AssignTail \/ AssignRegister \/ AssignStack

Done == Len(result) = Len(args)

Next == AssignOne
Spec == Init /\ [][Next]_vars /\ WF_vars(Next)

-----------------------------------------------------------------------------
(* Properties.                                                             *)

(* The words or registers a slot takes. *)
Cells(slot) == slot.index .. (slot.index + Width(slot.wide) - 1)

(* No two arguments share a register or a stack word: the moves a call     *)
(* makes before it jumps never overwrite an argument already in place.     *)
NoOverlap ==
  \A j, k \in DOMAIN result :
    (j # k /\ result[j].kind = result[k].kind)
      => Cells(result[j]) \cap Cells(result[k]) = {}

(* A register slot names registers that exist, and a 64-bit one an aligned *)
(* pair: codegen turns `index / 2` into x0, x1, d0 or d1.                  *)
RegistersExist ==
  \A j \in DOMAIN result :
    result[j].kind \in Bank =>
      /\ result[j].index + Width(result[j].wide) <= ArgRegisterCount
      /\ result[j].wide => result[j].index % 2 = 0

(* Arguments of one bank never overtake each other: once a declared        *)
(* argument spilled to the stack, no later one of its bank takes a         *)
(* register, not even the odd one a 64-bit argument skipped.               *)
SpentBankStaysSpent ==
  \A j, k \in DOMAIN result :
    (j < k /\ args[j].bank = args[k].bank /\ result[j].kind = "stack")
      => result[k].kind = "stack"

(* The stack words are handed out in argument order without a gap, and the *)
(* tail is one contiguous run: va_arg only adds 4 or 8 to its cursor.      *)
StackIsDense ==
  \A j \in DOMAIN result :
    result[j].kind = "stack" =>
      \A c \in 0..(result[j].index - 1) :
        \E k \in 1..(j - 1) : result[k].kind = "stack" /\ c \in Cells(result[k])

(* The numbering loop ends with one slot per argument, whatever the list. *)
NumbersEveryArgument == <>[]Done
=============================================================================
