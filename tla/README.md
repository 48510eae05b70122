# Ceres-C in TLA+

Ceres-C compiles a subset of C to CeresASM, the assembly of a small 32-bit
machine, and drives the `ceres` assembler, linker and VM on the result. This
directory specifies the parts of the compiler whose correctness depends on many
steps agreeing with one another, checks them with TLC on small instances and
proves some of what is checked for every instance with TLAPS.

The compiler is a sequential program. What makes it hard is not concurrency but
*two places deciding the same thing apart from each other* (the two ends of a
call; an optimizer that predicts what the code generator will emit), *state that
outlives what it described* (slots, registers, policies), and *long sequences of
legal steps* whose result is only visible when the compiled program runs.

## 1. Inventory

Paths are relative to the repository root; `libs/<lib>` has `src` and
`include/ceresc/<lib>`.

| Component | State | Operations | Talks to | What makes it correct |
|---|---|---|---|---|
| `support` (arena, string pool, source manager, diagnostics, line map, warning policy) | recorded diagnostics, error count, policy changes by line | `report`, `actionFor`, `append`, `registerBuffer` | everyone reports; the preprocessor writes the policy, the driver installs it | a warning obeys the pragmas above it and those only |
| `preprocessor` | macro table, include stack, pragma-once list, conditional stack, output text and line map | `run`, `expandFile`, directives, `expandMacros`, `applyWarningPragma` | reads files, writes text, line map and policy | one line-map entry per output line; groups nest; includes end |
| `lexer`, `parser` | cursor; lookahead; scopes of typedef names | `next`, `parse*`, `synchronize*` | parser pulls tokens, builds AST in an arena | recovery always consumes; precedence |
| `sema` | scope stack, current function, last expression type | `visit(...)` per node | annotates the AST in place | every name resolved in the right scope; layouts |
| `ast` | the tree | - | shared by sema and the builder | - |
| `ir_builder` | current block, scope stack and free slots, break/continue targets, label blocks, last value | `visit(...)` per node, `lowerCondition`, `emit*` | AST in, IR out | the IR means what the C means |
| `ir_optimizer` | the functions of a module, rewritten in place | ~20 passes, repeated at most `kMaxRounds` times | IR in, IR out | each pass keeps the meaning; rounds settle |
| `codegen`: frame layout | argument slots, outgoing words | `assignArgSlots`, `computeOutgoingSlotCount` | called by emission and placement | both ends of a call number alike |
| `codegen`: value placement | register pools, reservations per block, callee-saved masks | constructor of `ValuePlacement` | IR in; emission asks `registerOf` | no two live values share a register; calls keep what they must |
| `codegen`: emission | current function, scratch registers, pending Params | `generateInstr`, `generateFunction` | IR and placement in, text out | emitted code does what the IR says |
| `driver` | units compiled so far, files written, the policy and line map installed | the loop over units; write, assemble, link, run, clean | all of the above; subprocesses | a failure stops the build and says so; what is linked is what was compiled; no input is overwritten |
| `options`, `ceres_locator` | options record; candidate paths | parse, search | driver | - |
| printers, `apps`, tests, examples | - | - | - | - |

**Hard behaviours.** Interleaving does not occur inside the process. Ordering
does: argument moves that must not overwrite one another, `Param` sequences
around nested calls, pragma changes replayed by line. Stale state does: slots of
closed scopes, values in registers across calls, predictions of the emitter's
decisions, pointers to a unit's policy. Partial failure belongs to the driver
(files and subprocesses). Liveness: the optimizer's rounds must settle, lowered
loops must leave, parser recovery must progress.

## 2. Plan

| Order | Modules | Subject | State |
|---|---|---|---|
| 1 | `ArgSlots`, `ArgSlotsProofs` | numbering of arguments | checked, proved |
| 2 | `CallBoundary`, `CallBoundaryProofs` | both ends of a call, composing two `ArgSlots` | checked, proved |
| 3 | `Ir`, `CProgram`, `IrBuilder`, `LoweredProgram` | lowering of C to IR, run against the meaning of the C | checked |
| 4 | `BlockLayout`, `BlockLayoutProofs` | the optimizer's block order against the emitter's jumps | checked, proved |
| 5 | `ValuePlacement`, `PlacedCode`, `ValuePlacementProofs`, `PlacedCodeProofs` | registers for values and locals; the placed code followed value by value | checked, proved with register allocation on |
| 6 | `Macros`, `DiagnosticPolicy`, `Preprocessor`, `PreprocessorProofs`, `PreprocessorOutcome` | directives, includes, splicing, macro expansion, line map, warning pragmas | checked, proved in part |
| 7 | `CommandLine`, `Driver`, `DriverProofs` | units, files, subprocesses, failure | checked, proved |
| 8 | `IrPass`, `ConstantPasses`, `MemoryPasses`, `FlowPasses`, `InductionPass`, `IdiomPasses`, `Inliner`, `Optimizer`, `OptimizedProgram` | the optimizer pass by pass, its output run by `LoweredProgram` | checked |
| 9 | - | 64-bit values and the attributes of functions in the optimizer; floats in the builder | open |
| 10 | - | error recovery of the parser | open |

No theorem is planned of the builder and the passes of the optimizer: they are recursive
and stay with TLC.

## 3. Modules and the code

**`ArgSlots`** (`frame_layout.cpp`, `assignArgSlots`). One action per turn of the
loop and branch of its body: `AssignTail` (past the declared parameters),
`AssignRegister`, `AssignStack`. `used` holds the three cursors (`intUsed`,
`floatUsed`, `stackUsed`), `result` the slots pushed back so far. The argument
list and the point where it turns variadic are chosen by `Init`.

**`CallBoundary`** (`codegen.cpp`, `IrOpcode::Call`, `Return`, `VaStart`,
`generateFunction`; `IrBuilder::visit(VaExpr&)`). Two instances of `ArgSlots`,
one for the caller's whole list, one for the callee's declared parameters. The
stack is a function from word addresses to tokens `<<"arg", a, w>>`, so that a
word found where another belongs is visible; so are the caller's frame pointer and
callee-saved registers, which the prologue pushes and the epilogue reads back from the
stack. Actions follow the emitted instructions: open the frame, move each argument, `call`, `pushm`, `enter`,
settle each parameter, `va_start`, `va_arg`, `leave`, `popm`, `ret`.

**`Ir`**, **`CProgram`**: the data the modules share. `Ir` has the instructions
(records with the field names of the payload structs), their operands and
results, blocks and local slots. `CProgram` has the expressions and statements,
the types (int, unsigned int, signed and unsigned bytes, pairs, pointers to words
and bytes) and `Meaning`, C's own evaluation of a unit: the value it returns, the
calls and volatile accesses it makes and what it leaves in memory. `Meaning` is a
reference definition, not a translation. A byte has 2 bits here, a word four
bytes, a pair two words: conversions lose what they lose within range of TLC.

**`IrBuilder`** (`ir_builder.cpp`). A function from a C unit to IR functions,
written as a state-passing translation: the builder's members (`_currentBlock`,
scopes, free slots, break and continue targets, label blocks) are a record, each
`visit` is an operator from a record to a record. Recursive because the source
is; so nothing is proved about it, all is model-checked.

**`LoweredProgram`**: runs the IR one instruction a step. The machine is not in
this repository (external in the map); it is modelled from what the IR's
comments and the emitter require of it: memory of words, a frame for each call,
two-word slots, calls of other units answered by an oracle. The routines the
compiler carries for fills, copies and searches run as one step each.

**`ProgramFamilies`**: the units that are compiled, by families (section 4).

**The optimizer** (`ir_optimizer.cpp`). A pass is an operator from a function and
the options to a function; it "changes" the function exactly when the result
differs, which is what the source's passes report. `IrPass` has what passes share
(definitions, uses, constants, purity, which locals no pointer reaches).
`ConstantPasses` folds, propagates conditional constants, reduces strength and
removes common subexpressions; `MemoryPasses` propagates copies, forwards loads
(also through `restrict` pointers), deletes dead stores and dead code and prunes
functions; `FlowPasses` threads jumps, removes and lays out blocks, finds loops and
hoists out of them; `InductionPass` keeps addresses in pointers of their own;
`IdiomPasses` turns loops into calls of `__cc_memset`, `__cc_memcpy`, `__cc_strlen`
and `__cc_memchr_index`; `Inliner` splices bodies. `Optimizer` is the order of a
round. `OptimizedProgram` is `optimize()` as a machine, one pass a step (`Inline`,
`RunPass`, `EndRound`, `StartOptimized`), and goes on with `LoweredProgram`: what comes out
is run.

**`BlockLayout`** (`layoutBlocks` and the round loop of `optimize`). A block is
its terminator. `Place` and `StartTrace` are the two loops of the pass, `Commit`
its end, `Refuse` its early return. `EmitsJump` is the code generator's own
decision (`IrOpcode::Jump`, `CondJump`), against which the pass's forecast
`IsExplicit` is held; they differ for branches on floats (section 6).

**`ValuePlacement`** (`value_placement.cpp`). The constructor as a state machine:
`phase` is the pass, `cursor` where it stands, and one step places one value.
`arrival` numbers the parameters (an instance of `ArgSlots`); `locals` hands
registers to locals, those declared `register` first; `liveness` is the backward
fixpoint, one block a step; `alias` turns loads of register-resident locals into
names of the register; `crossing` reserves registers over blocks; `block`/`scan`
walk each block, handing out (`Grant`) and taking back (`Release`) registers from
three pools in the order of the code; `fields` lays out the frame. A pool maps its
registers to their places in the code's vector, because the last is the one taken. The front end is the
constant operator `Compile`, so that nothing here reaches a recursive operator.

**`PlacedCode`** (`codegen.cpp`: `generateFunction`, `generateInstr`, `findTailCall`,
`argReferencesFrame`). Continues the state machine with the emitted code. The
machine tracks values and computes none: a register, a word of a frame field or
an outgoing word holds the set of tokens (`Temp(t, w)`, `Local(l, w)`,
`Caller(r)`, `Address(l)`) that name what it contains, and both arms of a branch
are taken. A definition of a temporary removes its token everywhere but in its
home; a call empties r0-r7 and r12; scratch registers are emptied wherever the
emitter may use them. Prologue moves, argument moves (numbered by `ArgSlots`, one
a step), fused comparisons, immediates and tail calls are the code's own. The
machine itself is outside the repository (external in the map). `WellFormed` says what
the emitter relies on of a function it is given - every block is listed and ends once,
every instruction has the operands of its operation (`OperandPlaces`), the Params of
a call come right before it, a pair is a pair wherever it is defined or passed on,
memory is a local reached by its own address and what is loaded is a temporary of its own -
and `CodeAssumption` that the front end
gives no other; TLC evaluates it for every program of the runs. `ValuesFlowForward`, at the
end of the module, is what the proofs ask besides, and what the code does not ensure.

**`PlacementPrograms`**: the functions placed, built with `CProgram` and lowered
with `IrBuilder`.

**`DiagnosticPolicy`** (`diagnostic_policy.h`). The list of changes and `ActionFor`,
the replay that answers for a line. **`Macros`** (`preprocessor.cpp`): a line is a
sequence of tokens; where its comments lie, whether it leaves a macro call open,
and `Expand`, the passes of `expandMacros` with their two limits. `ReadAs` follows
comments as C does, `Expand` as the code does, which is not always the same.

**`Preprocessor`** (`preprocessor.cpp`). `run` and `expandFile` as a state machine:
`stack` has a frame per file being expanded (the locals of `expandFile`: position,
conditional stack, comment flag, result), `phase` is the place in its loop
(reading a line, splicing, interpreting, joining an open macro call, taking a
list of warning numbers) and there is one action per directive, `SkipInactive`
for those of a group that is skipped, and one for text. A file has no content
beforehand: a line is chosen from a vocabulary when it is first read and is the
same whenever the file is read again, so a run stands for every program of the
vocabulary. `Blank` is the empty line most directives leave, with its entry in
the line map. History in `out`, `stack` and `inForce` (the physical line an entry
stands for, what the branches of a group came to, the action in force) is written
and never read by an action; the properties compare the code's own data with it.

**`CommandLine`** (`options.cpp`, `ceres_locator.cpp`). Words are folded into
`Options` from left to right; what contradicts itself is refused. Where ceres and
its library are looked for, in order.

**`Driver`** (`driver.cpp`, `run`). `at` is the statement of `run()` that comes next,
`turn` the turn of the loop it is in. `FindStdlib`, `FindLibrary` and `CheckGiven` are
the checks before any work; `Preprocess` to `Generate` the turn of a unit, each phase
free to report one diagnostic, or for the preprocessor to fail; then `Declare`,
`Publish`, `WriteUnit` (each may fail before or halfway through the file) and
`Assemble`, `Link`, `RunProgram` (each a subprocess that may not start, or end with
any code), `Clean`. A file holds what it was made of (`Code`, `Object`, `Program`,
`Given`, `Leftover`, `Torn`), so that the program that is linked can be compared with
what was compiled. `policy` and `lineMap` are whose objects the engine and the
printer point to; a policy of a unit that is over answers anything
(`ActionsFor`). `Returned` is the end of the process.

Each `MC` module gives the constants their values and adds nothing to the
behaviour.

## 4. Runs

| Run | Question | Bounds |
|---|---|---|
| `arg_slots` | is every numbering sound? | every list of up to 6 arguments of 4 kinds, every split; 4 registers per bank. Six is enough for both banks to fill, for an odd register to be skipped and for two arguments to follow on the stack |
| `call_boundary` | does every word arrive, and does the call leave the stack as it was? | lists of up to 4 in which the integer bank already spills, 0 or 2 saved registers, 0 or 3 words needed by other calls |
| `lowered_program` | does lowered code return what C says, make the calls C says and leave in memory what C leaves? | 1,470 units in nine families and two that divide by zero, inputs -2 and 1, two places for each pointer, two oracles |
| `block_layout` | does layout keep every block, cost nothing and settle? | every graph of 3 blocks over return, open, jump, table and conditional jumps on integers, floats and fused float comparisons; two rounds |
| `placed_code` | does every instruction, argument and return find its values where the placement says, and does the caller get its registers back? | 7 families of functions, each with every pair of 16 values in its two holes: 1,792 functions, every path |
| `placed_across_call` | does nothing stay in a caller-saved register over a call? (no) | one function |
| `placed_pointer_tail_call` | does no address into a frame outlive it? (no) | one function |
| `preprocessor` | do the line map and the warning policy describe the text they go with, is the active branch the first that holds, are comments followed, does a run fail for a reason and only then? | every program of 4 lines over a main file, two headers and one that cannot be opened, in 6 languages; includes 3 deep, 3 passes, lines of 7 tokens: 570,883 states |
| `optimized_program` | does the optimizer's output mean what C says, is it well formed between any two passes, and do rounds end because nothing changes? | 393 units of seven families, each at -O2 and -Og; the 16 passes in up to 8 rounds, the source's own bound |
| `optimized_idioms` | ... also for seven units that resemble the loop idioms, or read a byte back with the other sign? (no) | the seven |
| `driver` | is what is linked what was compiled, what is declared what is defined, what is printed printed once and by the right line map, what 0 promises done, and what was given kept? | 24 command lines over two C units, a `.casm`, two `.cobj`, a library and declarations files; 6 installations; every subset of two leftover files; every phase, write and subprocess free to fail: 223,812 states |
| `driver_given` | ... also where a C source and a `.casm` share their name? (no) | two command lines |

The nine families of `lowered_program` are loops (each kind, with every pair of
moves out of or within them), switches (chains, ranges, trees, tables, nested,
entered past a declaration, 64-bit), gotos (backwards, into a loop, into a
switch, over code), conditions (short circuits as test, value, argument),
scopes (hiding, shared slots, widths, calls within the arguments of calls),
counting loops (for termination),
arithmetic (every operator between every two of five types, as a value and as an
update), pointers (bytes and words read, written, stepped, subtracted, aliased,
handed to a callee) and units (functions that call one another, recursion
excepted). Two corners of `arithmetic` are a family of their own (`conversions`,
section 6) and are in no run.

`optimized_program` takes units, gotos and some pointers of these and adds loops over
a buffer (`turns`: what the idiom, induction and hoisting passes take for theirs,
and what resembles it: other starts, steps, tests, bounds, bodies), numbers the
compiler can know (`known`: every operator on the boundary numbers, 0 and the
least integer among them), `volatile` and `restricted` (stores and loads through
restrict pointers). Each pass changes some unit of the run, and each of its branches
that rewrites is taken. Thinned families name the keys they keep in `Chosen`, so
that each run ends in minutes. `StaysWellFormed` is asked between any two passes,
since each relies on what the last left; `ReturnsItsMeaning` of the code that comes
out of all of them.

The command lines of `driver` have one, two or three inputs, so that a unit comes
after another (whose policy and map were installed), a failure comes halfway, and
declarations are shared; the exports of the two units contain each pair of
declaration, tentative definition and definition in both orders.

The families of `placed_code` are a sum, a call with a word, a pair and a word
(whose last parameter arrives on the stack), a tail call, a loop, more locals
than registers, a local whose address escapes, and a jump table. The sixteen
values that fill them need no instruction, several, several blocks or calls, in
words and in pairs, with and without side effects on what the other hole reads.
All registers of both pools are there (3 caller-saved, 4 callee-saved, 4
argument), so the pools really run out. The functions of the two violation runs
are kept out of the families: each takes a `&&` whose right arm calls or a pointer
variable handed on, which no family does; nor does any discard a merged value.
The `ternary` with a call in an arm is in them, and is placed soundly because its
arms are emitted before the block that joins them.

Each language of `preprocessor` has the lines one part of it works on: conditional
groups (with conditions that hold, do not and cannot be read), `__has_include`
(closed, not closed and without a target, of a file that is there and of one that is
not), includes (once,
cyclic, unreadable, missing, within a group), warning pragmas (push, pop, lists
with numbers that name nothing, across an include), macros (recursive, growing,
with too few arguments, split over lines, badly defined) and comments (opened,
closed and hidden in literals, in skipped groups, in calls and on spliced lines).
The properties are about pairs: a push and its pop, an #if and its #endif, an
include and the file that follows it, a call and the line that closes it. Four lines
are enough for each pair with a line within it and one after. The limits of the
source (64 includes, 32 passes, 1 MiB) are constants, small enough for each to be
reached within those lines.

Thresholds of the switch lowering are constants (`SwitchTableMinCases`,
`SwitchTableMaxEntries`, `SwitchTreeMinCases`): 5, 256 and 8 in the source, 2, 4
and 3 in the runs, so that all three forms occur with few cases. `MaxInlineInstrs` and
`MaxRounds` are the source's.

**Fairness.** Where a run has a liveness property, the specification is
`Init /\ [][Next]_vars /\ WF_vars(Next)`: one thread executes a loop or an
instruction stream and nothing else can hold it up. No action has fairness of its
own; in `LoweredProgram` only the steps of a running main are fair, not the call
of main. `Preprocessor` and `Driver` state none: their runs ask for safety, and end in
a step that changes nothing (`Finished`, `Returned`), so that TLC's search for
deadlocks shows that nothing else stops them. The other runs say
`CHECK_DEADLOCK FALSE`, since the system stops: a loop that has ended, a function
that has returned.

## 5. Proofs

**`ArgSlotsProofs`**: for every even number of argument registers and every set
of argument lists, `TypeOK`, `NoOverlap`, `RegistersExist`,
`SpentBankStaysSpent` and `StackIsDense`. None but the first is inductive:
`NoOverlap` needs that slots lie below their cursor (`BelowCursor`) and come in
order (`InOrder`); `SpentBankStaysSpent` needs that a spill leaves the bank's
cursor at the end (`SpillSpendsBank`); density needs the stack cursor covered
(`CursorIsDense`). `IInv` is their conjunction; `StartRegisterBounds` is where
evenness of the register count is used. The liveness of the loop
(`NumbersEveryArgument`) stays with TLC.

**`BlockLayoutProofs`**: for every number of blocks and every set of terminators,
types, `PlacedOnce`, `BlocksKept`, `NothingRefused`, `SuccessorsKept`, and
`NeverTradesFallThrough`: no reordering costs more jumps than the function has branches
on floats. The bound is needed: without it TLC finds a committed order that costs a jump
with `Tests = {"int", "fused"}` and with `Tests = {"int", "float"}` in `MCBlockLayout.cfg`.
`Misreckoned` compares the two counts: a fused comparison is emitted and not charged, a
float tested against zero charged and not emitted, and an order lists each block once.
`CompleteOrderLength` (a sequence without repetition that leaves nothing out has
N places) is the counting fact behind `NothingRefused`; `FirstIsEntry` is the
strengthening `PlacedOnce` needs. Settling (`SecondRoundIdle`) and termination
stay with TLC.

**`ValuePlacementProofs`**, of the placement: `LocalsKeepTheirRegisters` and
`CalleeSavedNoted`, for every function the front end may give (these two assume nothing of
`Compile`) and every two disjoint register pools (`PoolsAssumption`). `CalleeSavedNoted` is
inductive. `LocalsKeepTheirRegisters` is not: that a temporary's register is no
local's has to be known before the temporary asks for it. `IInv` says so of
everything registers come from: what the locals have is apart from what is still
free and from the argument registers a calling function lends its temporaries
(`LocalsApart`, `FreeApart`); the pools of the block being scanned are parts of
that (`PoolsFree`); what a value holds came from the pool it will go back to
(`HeldFromPools`); and no temporary has a register before the locals have theirs
(`TempsGiven`). Lemmas about the choices (`PairIsWhole`, `LocalTakesFree`,
`CrossingTakesFree`, `OfferIsInPool`) carry the steps that give registers out.

For functions that are `WellFormed`, the rest of the placement. `LivenessIsSolved`: past the
liveness pass every block meets its two equations, loops included; no induction over the
rounds is needed, since a pass that changes nothing has shown each block behind the cursor in
step (`LiveInv`). `AliasesStayTrue` and `FieldsKeepApart`: a temporary that is a local's register was
loaded from that local and no store comes while it is wanted, and temporaries share a field
of the frame only if they never meet. They are parts of `PlacementInvariant`, with `HomesInv`
(below) and `RegistersInv`: no home is a scratch register, the locals of a function that
calls are in callee-saved registers, a value passed to a call is in no argument register.

**`PlacedCodeProofs`**. Of the emitted code, for every function that is `WellFormed` and every choice of pools and
options in which a call keeps the callee-saved registers and no pool has a scratch register (`ConventionAssumption`):
`CallerRegistersBack` outright, and `ReturnsCleanly` and `ArgumentsInPlace` wherever
`ReadsItsOwnValue` holds throughout. The invariant is `RunInv /\ FrameInv`. `HomesInv`: a
home is as wide as every value put there, an alias is all of its local, a virtual
address is of a local that never escapes, and the prologue saves the registers of every
home, aliases included. `NumberedInv` and `CursorInv`: the code is at an instruction of the
function, and the numbering at hand is the one of the parameters or of the Params before the
call, so it is an execution of `ArgSlots`, whose invariant it inherits (`Slots`, an instance
of `ArgSlotsProofs`). `FrameInv`: a callee-saved register is either in the save area or has
not been touched since entry (`Spared`); r12 may be in the save area as well, since
`markCalleeSaved` notes it when it is given to a value that crosses blocks. What keeps it is that nothing the emitter writes is
spared (`Harmless`): a home, because it was noted (`SavedHomes`); an argument, because
r0-r3 are not callee-saved; scratch registers and what calls clobber, by convention.
Arguments stay put (`PlacedInv`) because two of them never share a cell
(`ArgumentsApart`, from `ArgSlots`' order), the moves' scratch registers are r4 and r5, and
a tail call, which leaves its frame first, has all of them in registers that popm does not
restore, the mask being of r8 and up (`JumpCarriesArguments`). The result survives the epilogue the same way
(`LeavingBringsResult`).

`RegisterAllocationIsSound`: with register allocation on, `ReadsItsOwnValue` holds of every function whose
values flow forward, on every path, and with it `ReturnsCleanly` and `ArgumentsInPlace`
(`AllocatedCodeReturnsCleanly`, `AllocatedCallsFindArguments`); nothing live after a call is
in a register it clobbers (`CallsSpareLiveValues`). The invariant is `SoundInv`, in two layers.

*The placement.* Liveness is solved (`LiveInv`). Values that are wanted together have no
register in common (`ApartInv`): a value that lives across blocks has its registers reserved
in each block where it is live (`CrossingInv`); a value of one block shares none with those,
nor with one defined while it is still to be read (`BlockValuesInv`), because the scan holds
every value it has yet to read and what is held is in no pool (`ScanInv`). Aliases, fields and parameters keep
apart (`AliasInv`, `FieldsInv`, `ParamsInv`: a parameter's register is the one it arrives in
or one in which none arrives). From these, a definition, a store, a settled parameter and a
call each write only to cells that hold nothing wanted (`DefineSpares`, `StoreSpares`,
`LiveOverCall`, `LocalsOutliveCalls`).

*The code.* Before instruction k of block b, everything in `Pending(b, k)` is in its home
(`RunHolds`): what is live there, what a fused branch at k or k + 1 compares, and what the
Params just before k pass. It is more than liveness because a `cmp` that is fused and a
`param` emit nothing, and their operands are read later. So is every local (`LocalsHold`); in
a call, every argument still to move (`CallHolds`); before the body, every parameter still to
settle where it arrived (`SettleHolds`).

The hypothesis `ValuesFlowForward` speaks of the function's values and not of where they are put, and has three parts, each for a reason:

| Part | What the placement takes for granted | Where it fails |
|---|---|---|
| `DefinitionsReachTheEnd` | a value of several definitions, or wanted by another block, is live at the end of every block that defines it | a value written twice and never read (`MCPlacedPointer.cfg`, `Outside = {"unread"}`): it takes a register that is in use, and `ReadsItsOwnValue` is violated |
| `CallsAreSpanned` | such a value spans a call, in the order of emission, whenever it is live past one | `placed_across_call`: the register is destroyed |
| `NothingLiveAtEntry` | no temporary is live before the function begins | nowhere seen; a temporary read before it is written would |

TLC finds `ValuesFlowForward` true in all 385250 states of `placed_code`, and of the two
programs above finds the part named violated and the other two true, when they are added to
the invariants of the `.cfg`. Without register allocation there is no liveness to argue from,
and nothing is proved about operands; `FieldsKeepApart` and `CallerGetsItsRegistersBack` hold there too.
`AddressesStayInFrame` is not true of every function and has a run that says so.

**`PreprocessorProofs`**, **`PreprocessorOutcome`**: for
every vocabulary, whatever the files and limits, `TypeOK`, `FirstTrueBranch`,
`MapNamesTheLine`, `IncludeChain`, `PragmaInForce`, `PragmasNeverReachBack`,
`FailsWithAReason` and `OnceContributesOnce`.
They rest on four invariants.
`StackInv`: the stack is a `Chain` of distinct, readable files no deeper than the
limit; in every frame the groups are well nested (`GroupInv`: a group knows whether
its parent is active and whether a branch was taken, and both agree with the
branches tested); and while a line is dealt with, `logical` and the frame on top
agree on where it began. `FirstTrueBranch` and `IncludeChain` are parts of it;
`MapNamesTheLine` (`MapInv`) follows as each entry is written from `logical`.
`LinesInv`: what is read is made of lines of the vocabulary, and no frame stands
past what has been decided of its file. `SettingsInv`: the macro table, the policy
and the saved states are typed, and a list being taken is a warning pragma's.
`TypeOK` is in the three. `PragmasNeverReachBack` adds that a change is recorded at
the line to be written next and only appended (`ChangesAreAppended`), and that
the replay up to an earlier line does not see it (`LaterChangeUnseen`).
`PragmaInForce` compares the replay with a history that never replays: what is in
force now, and what each open push remembered. The list of changes is longer
than the history, so the two are compared by what they decide: `ReplayInv` says
the replay of all changes decides, diagnostic by diagnostic, as `inForce` does, and
each state it has saved as the one remembered at that depth (`PushReplayed`,
`PopReplayed`, `NumberReplayed`; the replay and the decision are recursive functions,
and `ReplayedAppends` and `DecidedAppends` say what one more change makes of them).
`ReachInv` says no change is past the line to be written next: so a line is written
under all changes there are (`AllReached`), and those made later do not reach it.
`FailsWithAReason` says nothing before the end, so `FailInv` says what holds until
then: an error that is not forgiven has been reported exactly when some file on the
stack has failed (the flag goes down the stack one file at a time as each ends). What
is forgiven depends on the directive as well as on the error: `IncludeExpectsTarget` fails
the run when an `#include` says it and not when the `__has_include` of an `#if` or `#elif`
does, so a report keeps the directive it is by.
`OnceContributesOnce` is about a file that begins with the pragma, and depends on when
it is obeyed. `OnceInv` says of such a file: until it has obeyed the pragma it is only
ever on top, at its first line, with nothing written and no group open (`NotYet`); from
then on it is in `pragmaOnce` and is not entered again, so its lines are written in the
order it is read, each between `logicalLine` and the place it is read at (`InOrder`). It
needs that a file is in a state nobody has read anything of only while it is on top
(`FreshInv`), and that lines joined or spliced are counted before they are written
(`PlaceInv`).
The assumptions are that the main file can be read, the limit is at least one, and
no diagnostic is both an error and one a pragma can name, which hold in
`diagnostic_id.h` and the driver; that a vocabulary is made of lines; and
`WordsAssumption`, that two literal strings are strings, which the prover does not
know. `CommentsFollowC` stays with TLC: it is about what `Expand` makes of a line, and
`Expand` recurs as the source does, which is not well founded (section 6):
nothing can be proved of what it comes to for every line.

**`CallBoundaryProofs`**: for every number of argument registers, set of argument
lists, prologue, frame of the caller and outgoing area its other calls need:
`TypeOK`, `ParametersArrive`, `TailArrives`, `CallerLocalsKept` and `StackRestored`,
that is, everything the run checks but that the call comes to an end. The two ends
number apart from each other, the caller the whole list and the callee what it
declares; what makes them agree is that the next slot depends on the cursors and the
next argument alone. `NumberingInv` therefore has a history `h` of the caller's
cursors, one per argument (`History`), and says the callee is somewhere along it
(`Follows`): so its slots are the caller's first ones, and the words it counts on the
stack (`FixedStackArgWords`) are where the caller's tail begins, which is where va_start
points. `FrameInv` says where the machine is: each argument moved so far is still where its slot
says (`ArgumentsInPlace`), which is the theorem `ArgSlotsNeverOverlap` of the
numbering at work; `sp` and `fp` are what each phase of prologue and epilogue makes
them (`StackLevels`), and the words pushed below are the caller's registers and frame
pointer until they are read back (`SavedWordsKept`); the outgoing area holds the whole call (`OutgoingFits`), and the return
address is not written over. The counts of stack words are recursive functions over
a list; what they come to is proved by induction over sets of naturals
(`NatSetInduction`, from well-foundedness of `<`). `CallBoundaryAssumption` says the
constants are what they stand for: an even number of registers, lists of
arguments, counts, and a stack with room for the frames.

**`DriverProofs`**, for every command line, installation and set of files, and every
outcome of a phase, of a write and of a subprocess: all eight properties the run
checks. What a build says:

* The driver keeps one list of diagnostics and a cursor into it, and installs each
  unit's policy and line map by pointer, so the risk is a diagnostic that is printed
  late, twice, or by the map of another unit. `PrintedByItsOwnMapAlways` rests on
  `PrintInv`: what is printed matches the list (`ShownWell`); what is still to be
  printed is of this unit's expanded text, and only between the parser and the
  checker, or between the builder and the generator, is there any
  (`PendingIsOfThisUnit`); and while a unit is in those phases the map installed is
  its own (`MapIsOfThisUnit`). The last two are what make the first inductive: a flush
  prints what earlier phases left behind by the map it is given.
* `NoErrorWentUnsaidAlways` rests on `ErrorInv`: a recorded error was counted
  (`ErrorsCounted`, through the policy's promotions and suppressions), and wherever
  the driver goes on the count is zero, except with `-E`, which goes through all
  units and asks at the end.

What a build does, on `BuildInv` (the options are of the words, `OptionsWell`; the units
are those of the first C inputs, `UnitsWell`; how far each phase has come, `Progress`;
and what the exit code says of it, `Outcome`):

* `KeptInv`: a file that is not among `MadeFiles` is as it was before the build. With it,
  `GivenFilesAreKept`, and `CleanLeavesNothingAlways` without a condition.
* `DeclInv`: a declarations file holds what `buildDeclarationsFile` makes of the
  units, and of that `EnteredAll` is shown, by induction over the exports, to keep for each name the
  best entry seen so far, in whatever order they come (`DefinitionsAreDeclared`).
* `CodeInv`: the unit files hold this build's code; with `Outcome` and `ErrorInv`, `ZeroIsDone`.
* `LinkedInv`: each object made so far is that of the text its unit has now
  (`ObjectsInv`), and objects and archives are what was given or found (`FoundGiven`), so
  the program is of this build (`ProgramIsOfThisBuild`).
* `DeclaredInv`: what is imported is on disk and is either given or made by this build;
  what the one made by this build declares is what the given ones leave out
  (`ImportsDeclareOnceAlways`).

Five of these hold on a condition about names, which the theorem states; it is not an
abstraction but what the code relies on without asking:

| Condition | What it says | What happens otherwise |
|---|---|---|
| `GivenAreNotMade` (of `GivenFilesAreKept`) | no file that was named is the program's, a C input's assembly or what `--emit-decls` publishes | the finding of `driver_given` |
| `SourcesApart` (of `ZeroIsDone`) | no two C or `.casm` inputs have one object | `a.c a.i` or `a.c a.casm`: what is written last takes the place of the other, and the build returns 0 |
| `NamedWell` (of `ProgramIsOfThisBuild`) | `SourcesApart`, and what is linked is neither what is published nor a leftover nobody named | an object published over is linked as it then is |
| `OneKind` (of `DefinitionsAreDeclared`) | no name is a function in one unit and a variable in another | `buildDeclarationsFile` keeps the first it met, a declaration or not |
| `DeclsApart` (of `ImportsDeclareOnceAlways`) | `SourcesApart`, what is published is not what is imported, and given declarations are not written over and do not declare one name twice among themselves | a name imported twice, or not at all |

The command lines of the run `driver` meet all five, so that it asks the properties as
they stand; the other three properties hold on every command line. `CommandLinesAssumption` says a word that takes a path has one,
`ExportsAssumption` that a unit's exports are a list and what has an initializer is a
definition (`decl.h:134`).

Liveness under fairness and everything about the recursive operators of
`IrBuilder`, `CProgram` and the optimizer's passes is outside the prover's reach and model-checked only.
Of `PlacedCode`, `ReadsItsOwnValue` is proved where values flow forward and register allocation
is on; that the values of the functions the builder gives do flow forward is model-checked only.
`RegistersExist`, `BlocksKept`, `NothingRefused`, `CallerRegistersBack` by itself and `TypeOK`
of `ArgSlots`, `BlockLayout`, `CallBoundary` and `Preprocessor` are proved and are in no run.
`TypeOK` of `PlacedCode` (every token in a cell is one, every saved register has a cell) is not proved;
TLC finds it true when it is added to the invariants of `MCPlacedCode.cfg`.

Induction is by sets: what a recursive function (`StackArgWords`, `ReadOptions`, `EnteredAll`)
computes is proved by showing that the set of lengths for which a fact holds contains 0 and
each successor (`NatSetInduction`). `SelectSeq` and the folds of the libraries have no such
form, since their definitions cannot be unfolded; where something was to be proved the module
has the loop of the source as a recursive function instead.

## 6. Findings

Shown by runs:

* The pass that places values crossing blocks looks for calls in emission order. The
  right arm of `&&` is emitted after the block that follows the `&&`, so in
  `a + b + (c && f())` the sum stays in a register that `call f` destroys
  (`placed_across_call`).
* A tail call is refused when an argument is computed from a frame address, but not
  when it is loaded from a variable that holds one (`placed_pointer_tail_call`).
* Loops that resemble a fill, a `strlen` or a `memchr` are taken for one: the store in
  the loop's test, the counter stepped in the test, a leaving test that is not made
  in every turn, a bound that the fill overwrites. A byte stored unsigned and read
  signed is forwarded as it is, and a load through a `restrict` pointer that has moved
  is forwarded from where it was (`optimized_idioms`).
* `ceresc a.c a.casm --run` writes the code it generates over the `a.casm` it was given,
  and `--clean` then deletes it (`driver_given`).

Seen by TLC with a change to a `.cfg`, and left out of the runs that pass; the constant
to set is named with each:

* `newLocalSlotFor` gives a `volatile` local the slot of a closed scope without
  marking it volatile, so it may live in a register (`MCLoweredProgram.cfg`,
  `Families = {"volatile"}`, invariant `VolatileKeepsMemory`).
* An `unsigned char` is compared with a signed value as unsigned although it is promoted to int,
  and `x >>= o` with an int `x` and an unsigned `o` shifts as unsigned
  (`Families = {"conversions"}`, invariant `ReturnsItsMeaning`).
* `layoutBlocks` forecasts jumps from the `CondJump`'s own float flag, the emitter
  looks only at the comparison it fuses. So a float tested against zero is charged a
  jump although it is inverted like an integer, and a fused float comparison none
  although it is not; of either an order can be committed that costs a jump
  (`EmitsJump` against `IsExplicit`). `NeverTradesFallThrough` bounds the loss.
* A value written twice and never read is live in no block, reserves nothing, and is
  given a register that holds something else: `a - b + ((c && a), c)` without the
  optimizer passes that would delete it (`MCPlacedPointer.cfg`, `Outside = {"unread"}`,
  invariant `LivesInItsRegister`).
* `#pragma warning(disable: 1002)` does not silence the preprocessor's own W1002, nor
  the same for W1001, although docs/11 lists both as controllable: `expandMacros`
  reports them without asking the policy (`MCPreprocessor.cfg`, invariant
  `PragmaGovernsOwnWarnings`).

Read in the code, modelled as it is and checked by no run of its own:

* While a unit is preprocessed the engine still has the policy of the unit before,
  whose object is gone (driver.cpp:526 takes it out only after). `Driver` lets it
  answer anything; the properties hold all the same, but what is printed of that
  phase is then up to it.
* A `x.decls.casm` that lies beside a given `x.cobj` is overwritten when the build
  writes its declarations under that name, unless it was named with `--decls`.
* `threadJumps` turns empty blocks that jump in a circle round each time it runs, so
  that such a function uses all eight rounds, which ir_optimizer.cpp:19-22 has for a
  bug; no family has an endless empty loop.
* In the preprocessor (`CommentsFollowC` excepts the first three by name):
  block comments are not tracked within skipped groups, nor when a directive's
  line leaves one open; a line inside a comment that begins with `//` or a quote
  is read as code; parentheses and commas inside comments count as part of a macro
  call's arguments in `expandMacros`, but not in `leavesMacroCallOpen`; from the
  second pass on, comment text that was carried in is rescanned as code; a joined
  line keeps its backslash and a spliced one leaves no empty line, where docs/08
  has splicing happen on any line; `//` within a string in a `#define` cuts its
  replacement short; an `#if` that cannot be read, or whose `__has_include` is
  malformed (preprocessor.cpp:371, 379), is an error and the run still succeeds; a header guarded by `#ifndef` that includes itself through another is
  refused as a cycle, since the test for cycles comes before the file is read.
* An argument of a macro call is expanded by a call of `expandMacros` of its own
  (preprocessor.cpp:556), which the limit on passes (:514) does not bound. With
  `#define f(x) f(f(x))`, expanding `f(1)` asks in its second pass for the expansion of the
  argument `f(1)`, and so on without end, where docs/08 (lines 101 and 237) has a macro
  defined in terms of itself stop after a bounded number of passes, with a warning.
* `codegen.cpp` says at the moves of a call that
  argument registers are never handed to a value in a function that makes a call;
  `value_placement.cpp` does hand them out there, to values no call comes between.
  `ArgumentsInPlace` shows that the moves are in order all the same.

## 7. Not modelled, and why

* Lexing, literal encoding and printing: sequential text processing in which one
  function call is the whole story. Of the command line, the levels -O, the spelling of
  switches, `--help` and `--version`.
* The parser: recursive descent over tokens, whose result is the tree `CProgram`
  starts from. Its error recovery has a hazard (section 2, 10) and no model yet.
* Sema: its results (types, resolved names) are what the builder module starts
  from; the units of the families are well typed, and each expression carries the
  type sema gives it.
* Aggregates, bit fields, floats, inline assembly and hardware operations in the
  builder and in the optimizer: more instructions of the same control structure. The
  attributes `pure`, `const`, `noinline` and `always_inline`, variadic functions and interrupt
  handlers in the optimizer; the ternaries the builder turns into `min` and `max`.
* In placement and emission: the float bank (the same passes over other pools),
  folded frame addresses (`findFoldableAddress`), slots narrower than a word,
  aggregates, interrupt handlers and inline assembly.
* In the preprocessor: `#` and `##`, variadic macros, predefined macros that depend
  on the position, the arithmetic of `#if` (a condition asks whether a macro is defined or a
  file is there, or else holds, does not, or cannot be read) and macro calls in one, the search for a header along the paths, and blanks within a line.
* In the driver: removals that fail, paths that name one file in two ways
  (`samePath` is equality here), and what subprocesses write besides their output.
