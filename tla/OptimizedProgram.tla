-------------------------- MODULE OptimizedProgram --------------------------
(***************************************************************************)
(* A unit through the optimizer, one pass a step, and then run.             *)
(*                                                                         *)
(* optimize() inlines once, then treats each function in rounds of sixteen  *)
(* passes until a round changes nothing, at most RoundLimit of them, and     *)
(* drops the functions nothing calls.  The set of passes that are on is     *)
(* chosen by Init, as -f options choose it.                                 *)
(***************************************************************************)
EXTENDS LoweredProgram, FlowPasses

CONSTANTS
  OptionSets,                         \* the sets of options that units are compiled with
  RoundLimit,                         \* kMaxRounds
  PassOn(_, _, _),                    \* a pass, by its number, on a function
  Inlined(_, _, _), Pruned(_, _)      \* what is done to a unit before the passes and after them

VARIABLES
  options,    \* the passes that are on
  todo,       \* the functions still to be treated, the current one first
  pass,       \* the pass that comes next, 0 before inlining
  round,      \* the round of the current function
  changed     \* whether a pass of this round changed anything
work == <<options, todo, pass, round, changed>>
allVars == <<vars, work>>

Passes == 1..16
NamesOf(unit) == [n \in DOMAIN unit |-> unit[n].name]
machine == <<program, promise, oracle, control, temps, frames, base, memory, args, log>>

InitCompile ==
  /\ NothingRuns
  /\ options \in OptionSets
  /\ code = Compile(Programs[program])
  /\ todo = << >> /\ pass = 0 /\ round = 0 /\ changed = FALSE

Inline ==
  /\ result = Idle /\ pass = 0
  /\ code' = Inlined(code, NamesOf(Programs[program]), options)
  /\ todo' = NamesOf(Programs[program])
  /\ pass' = 1 /\ round' = 1
  /\ UNCHANGED <<machine, options, changed, result>>

RunPass ==
  /\ result = Idle /\ todo # << >> /\ pass \in Passes
  /\ code' = [code EXCEPT ![todo[1]] = PassOn(pass, code[todo[1]], options)]
  /\ changed' = (changed \/ code' # code)
  /\ pass' = pass + 1
  /\ UNCHANGED <<machine, options, todo, round, result>>

(* The round is over. *)
EndRound ==
  /\ result = Idle /\ todo # << >> /\ pass \notin Passes \cup {0}
  /\ pass' = 1 /\ changed' = FALSE
  /\ IF changed /\ round < RoundLimit THEN round' = round + 1 /\ todo' = todo
     ELSE round' = 1 /\ todo' = Tail(todo)
  /\ UNCHANGED <<machine, options, code, result>>

(* What is left is run. *)
StartOptimized == result = Idle /\ todo = << >> /\ pass # 0 /\ CallMain(Pruned(code, options)) /\ UNCHANGED work

Compile1 == Inline \/ RunPass \/ EndRound \/ StartOptimized
Execute1 == Step /\ UNCHANGED work
Execute1Routine == RunCarriedRoutine /\ UNCHANGED work
NextCompile == Compile1 \/ Execute1 \/ Execute1Routine

SpecCompile == InitCompile /\ [][NextCompile]_allVars /\ WF_allVars(NextCompile)

-----------------------------------------------------------------------------
(* Between two passes every function is one the next pass and the code      *)
(* generator can take: blocks end once and lead to blocks that are still    *)
(* there, control cannot run past the last one, what is read is defined     *)
(* somewhere, and each call is preceded by as many Params as it takes.      *)
Waiting(instrs) ==
  LET step(n, instr) == CASE instr.op = "param" -> n + 1 [] instr.op = "call" -> n - instr.num [] OTHER -> n
  IN  Scan(step, 0, instrs)
IsWellFormed(f) ==
  /\ Cardinality(Listed(f)) = Len(f.order)
  /\ \A b \in Listed(f) :
       /\ SuccessorsOf(f, b) \subseteq Listed(f)
       /\ \A n \in DOMAIN f.blocks[b] : f.blocks[b][n].op \in Terminators => n = Len(f.blocks[b])
       /\ Waiting(f.blocks[b]) = 0
  /\ IsTerminated(f.blocks[f.order[Len(f.order)]])
  /\ ReadIn(Listing(f)) \subseteq DefinedIn(Listing(f))
  /\ DefinedIn(Listing(f)) \subseteq Temps(f)
StaysWellFormed == result = Idle => \A n \in DOMAIN code : IsWellFormed(code[n])

(* The rounds of a function end because a round changed nothing, never      *)
(* because RoundLimit of them are over (ir_optimizer.cpp:19-22).             *)
RoundsSettle == result = Idle /\ round = RoundLimit /\ pass \notin Passes => ~changed
=============================================================================
