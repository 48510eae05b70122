----------------------------- MODULE CommandLine -----------------------------
(***************************************************************************)
(* The ceresc command line (options.cpp): words read from left to right     *)
(* into Options, a later word outranking an earlier one, and the options    *)
(* that make no sense together refused.  Also where Ceres is looked for      *)
(* (ceres_locator.cpp).                                                     *)
(*                                                                         *)
(* A word is a tuple, its option first; a joined value (-Idir) and one that  *)
(* follows (-I dir) are the same word, and a word whose value is not there   *)
(* has none.                                                               *)
(***************************************************************************)
EXTENDS Naturals, Sequences, SequencesExt, FiniteSets

(* The switches of -f and -O (optimization.h), by their spelling. *)
LaterOff == {"inline"}                                     \* what -O1 leaves out
Switches == {"const-fold", "algebraic", "branch-simplify", "dce", "unreachable-blocks", "jump-threading", "inline",
  "local-slot-reuse", "copy-propagation", "load-forwarding", "dead-stores", "unused-functions", "jump-tables",
  "strength-reduction", "cse", "block-layout", "tail-calls", "min-max", "sccp", "loop-invariant", "induction-vars",
  "loop-idioms", "frameless-leaf", "regalloc", "cmp-branch-fusion", "immediates", "fallthrough", "address-folding"}
ForLevel(level) ==
  CASE level = "0"        -> {}
    [] level = "1"        -> Switches \ LaterOff
    [] level \in {"2", "3"} -> Switches
    [] level = "s"        -> Switches \ (LaterOff \cup {"jump-tables"})
    [] level = "g"        -> Switches \ (LaterOff \cup {"local-slot-reuse", "tail-calls", "induction-vars", "loop-idioms"})

Nowhere == "nowhere"      \* the empty string, where a place or a path is expected
NoPath  == [dir |-> Nowhere, stem |-> Nowhere, ext |-> Nowhere]

InitialOptions ==
  [ok |-> TRUE, inputs |-> << >>, decls |-> << >>, emitDecls |-> NoPath, output |-> NoPath, stop |-> {}, run |-> FALSE,
   clean |-> "no", ceresPath |-> Nowhere, werror |-> FALSE, libraryDirectories |-> << >>, libraries |-> << >>,
   stdlib |-> FALSE, switches |-> ForLevel("1"), linkOptions |-> {}, runArguments |-> << >>, programArguments |-> << >>]

Refused(options) == [options EXCEPT !.ok = FALSE]

TakesValue == {"-o", "-L", "-l", "--decls", "--emit-decls", "--ceres-path", "--run-arg"}
(* What one word does. *)
Effect(options, word) ==
  IF word[1] \in TakesValue /\ Len(word) < 2 THEN Refused(options)
  ELSE CASE word[1] \in {"--emit-ast", "--emit-ir", "-E"} -> [options EXCEPT !.stop = @ \cup {word[1]}]
         [] word[1] = "-S"                -> [options EXCEPT !.run = FALSE]
         [] word[1] = "--run"             -> [options EXCEPT !.run = TRUE]
         [] word[1] = "--clean"           -> [options EXCEPT !.clean = "all"]
         [] word[1] = "--clean-keep-casm" -> [options EXCEPT !.clean = "keep"]
         [] word[1] = "-Werror"           -> [options EXCEPT !.werror = TRUE]
         [] word[1] \in {"--symtab", "--gc-sections"} -> [options EXCEPT !.linkOptions = @ \cup {word[1]}]
         [] word[1] = "-O"                -> [options EXCEPT !.switches = ForLevel(word[2])]
         [] word[1] = "-f" /\ word[2] \in Switches    -> [options EXCEPT !.switches = @ \cup {word[2]}]
         [] word[1] = "-fno-" /\ word[2] \in Switches -> [options EXCEPT !.switches = @ \ {word[2]}]
         [] word[1] = "-o"                -> [options EXCEPT !.output = word[2]]
         [] word[1] = "-L"                -> [options EXCEPT !.libraryDirectories = Append(@, word[2])]
         [] word[1] = "-l"                -> [options EXCEPT !.libraries = Append(@, word[2])]
         [] word[1] = "--decls"           -> [options EXCEPT !.decls = Append(@, word[2])]
         [] word[1] = "--emit-decls"      -> [options EXCEPT !.emitDecls = word[2]]
         [] word[1] = "--run-arg"         -> [options EXCEPT !.runArguments = Append(@, word[2])]
         [] word[1] = "--"                -> [options EXCEPT !.programArguments = Tail(word)]
         [] word[1] = "--ceres-path"      -> [options EXCEPT !.ceresPath = word[2]]
         [] word[1] = "--stdlib"          -> [options EXCEPT !.stdlib = TRUE]
         [] word[1] = "input"             -> [options EXCEPT !.inputs = Append(@, word[2])]
         [] OTHER                         -> Refused(options)

(* What only a build that links can use. *)
NeedsRun(options) == options.clean # "no" \/ options.programArguments # << >> \/ options.linkOptions # {}

(* From left to right, up to the first word that is refused. *)
ReadOptions(words) ==
  LET read[n \in 0..Len(words)] ==
        IF n = 0 THEN InitialOptions ELSE IF read[n - 1].ok THEN Effect(read[n - 1], words[n]) ELSE read[n - 1]
  IN  read[Len(words)]

ParseOptions(words) ==
  LET options == ReadOptions(words)
  IN  IF options.ok /\ (options.inputs = << >> \/ (NeedsRun(options) /\ ~options.run)) THEN Refused(options) ELSE options

-----------------------------------------------------------------------------
(* An installation: the place CERES_PATH names, the one ceresc is in, those *)
(* of PATH, and the places that hold the ceres executable and the C library. *)

(* A place that is given decides, whether it holds ceres or not.            *)
LocateCeres(explicit, environment) ==
  LET given == IF explicit # Nowhere THEN explicit ELSE environment.ceresPath
      search == SelectSeq(<<environment.own>> \o environment.path, LAMBDA place : place \in environment.withCeres)
  IN  IF given # Nowhere THEN IF given \in environment.withCeres THEN given ELSE Nowhere
      ELSE IF search = << >> THEN Nowhere ELSE search[1]

LocateStdlib(explicit, environment) ==
  LET places == IF explicit # Nowhere THEN <<explicit>> ELSE <<environment.ceresPath, environment.own>>
      found  == SelectSeq(places, LAMBDA place : place # Nowhere /\ place \in environment.withLibrary)
  IN  IF found = << >> THEN Nowhere ELSE found[1]
=============================================================================
