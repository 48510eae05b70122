------------------------------- MODULE Driver -------------------------------
(***************************************************************************)
(* run() of driver.cpp: a command line becomes files, and with --run a      *)
(* program that is assembled, linked, executed and cleaned up after.        *)
(*                                                                         *)
(* The phases of a unit are seen from outside: each may report one           *)
(* diagnostic.  Writing a file and every ceres subprocess may fail.  A file  *)
(* holds what it was made of, so that what is linked can be compared with    *)
(* what was compiled.                                                       *)
(***************************************************************************)
EXTENDS CommandLine, Functions

CONSTANTS
  CommandLines,    \* the sequences of words that are run
  Environments,    \* where Ceres may be installed
  Present,         \* the files there are before
  Leftovers,       \* those an earlier build may have left as well
  ExportsOf(_),    \* what a C source declares and defines, in order: collectExternalDeclarations
  DeclaredBy(_)    \* the names a declarations file that is given declares

VARIABLES
  options, environment,    \* what was asked for, and the machine
  files,                   \* what each file holds, by path
  at,                      \* the step of run() that comes next
  turn,                    \* the turn of its loop
  objects, archives, decls, directories, libraries,    \* objectInputs, archiveInputs, declsFiles, ...
  units,                   \* the compiled units
  policy, lineMap,         \* whose they are, 0 for nobody: engine._policy and printer._lineMap
  diagnostics, errors,     \* the diagnostics recorded, and how many count as errors
  shown,                   \* those printed, each with the line map of the moment
  linked,                  \* what the last link made the program of
  exit                     \* what run() returns
found       == <<objects, archives, decls, directories, libraries>>
reporting   == <<policy, lineMap, diagnostics, errors, shown>>
vars == <<options, environment, files, at, turn, found, units, reporting, linked, exit>>

Path(dir, stem, ext)       == [dir |-> dir, stem |-> stem, ext |-> ext]
IsPath(path)               == path = Path(path.dir, path.stem, path.ext)
WithExtension(path, ext)   == [path EXCEPT !.ext = ext]
KindOf(path)    == IF path.ext \in {"casm", "cobj", "car"} THEN path.ext ELSE "c"
InputsOf(kind)  ==
  LET upTo[n \in 0..Len(options.inputs)] ==
        IF n = 0 THEN << >>
        ELSE IF KindOf(options.inputs[n]) = kind THEN Append(upTo[n - 1], options.inputs[n]) ELSE upTo[n - 1]
  IN  upTo[Len(options.inputs)]
cInputs         == InputsOf("c")
casmInputs      == InputsOf("casm")

(* What is written where a file is named is a path, and a unit declares its  *)
(* names one after the other: what has an initializer is a definition        *)
(* (decl.h:134).                                                            *)
ASSUME CommandLinesAssumption ==
  \A words \in CommandLines :
    /\ Len(words) \in Nat
    /\ \A n \in 1..Len(words) :
         /\ Len(words[n]) \in Nat
         /\ \/ words[n][1] = "input"
            \/ words[n][1] \in {"-o", "--decls", "--emit-decls"} /\ Len(words[n]) > 1
            => IsPath(words[n][2])
ASSUME ExportsAssumption ==
  \A words \in CommandLines : \A path \in Range(ParseOptions(words).inputs) :
    /\ Len(ExportsOf(path)) \in Nat /\ DOMAIN ExportsOf(path) = 1..Len(ExportsOf(path))
    /\ \A entry \in Range(ExportsOf(path)) : entry.initialized => entry.defined

(* Contents. *)
Given(path)            == [kind |-> "given", of |-> path]
Leftover(path)         == [kind |-> "leftover", of |-> path]
Torn(path)             == [kind |-> "torn", of |-> path]
Code(source, imports)  == [kind |-> "code", of |-> source, imports |-> imports]
Declarations(entries)  == [kind |-> "declarations", of |-> entries]
Object(content)        == [kind |-> "object", of |-> content]
Program(contents)      == [kind |-> "program", of |-> contents]

Exists(path)           == path \in DOMAIN files
Holding(path, content) == [p \in DOMAIN files \cup {path} |-> IF p = path THEN content ELSE files[p]]
Without(paths)         == [p \in DOMAIN files \ paths |-> files[p]]

Init ==
  /\ \E words \in CommandLines : options = ParseOptions(words)
  /\ environment \in Environments
  /\ \E left \in SUBSET Leftovers :
       files = [p \in Present \cup left |-> IF p \in Present THEN Given(p) ELSE Leftover(p)]
  /\ at = IF options.ok THEN "stdlib" ELSE "done"
  /\ exit = IF options.ok THEN 0 ELSE 1
  /\ turn = 1
  /\ objects = InputsOf("cobj") /\ archives = InputsOf("car")
  /\ decls = options.decls /\ directories = options.libraryDirectories /\ libraries = options.libraries
  /\ units = << >>
  /\ policy = 0 /\ lineMap = 0 /\ diagnostics = << >> /\ errors = 0 /\ shown = << >>
  /\ linked = << >>

GoTo(step)  == at' = step /\ turn' = 1 /\ exit' = exit
NextTurn    == at' = at /\ turn' = turn + 1 /\ exit' = exit
Fail(code)  == at' = "done" /\ exit' = code /\ turn' = turn

-----------------------------------------------------------------------------
(* Before any work: what the build needs is there. *)

FindStdlib ==
  /\ at = "stdlib"
  /\ LET place == LocateStdlib(options.ceresPath, environment)
     IN  IF ~options.stdlib THEN GoTo("libraries") /\ UNCHANGED <<directories, libraries>>
         ELSE IF place = Nowhere THEN Fail(1) /\ UNCHANGED <<directories, libraries>>
         ELSE /\ GoTo("libraries")
              /\ directories' = Append(directories, place)
              /\ libraries' = IF options.run /\ ~Contains(libraries, "ceres") THEN Append(libraries, "ceres") ELSE libraries
  /\ UNCHANGED <<options, environment, files, objects, archives, decls, units, reporting, linked>>

(* Where there is a lib<name>.car or .cobj; the first of them is taken, and  *)
(* the archive where there are both.                                        *)
Candidates(name) ==
  {n \in DOMAIN directories : \E ext \in {"car", "cobj"} : Exists(Path(directories[n], name, ext))}
LibraryIn(directory, name) ==
  Path(directory, name, IF Exists(Path(directory, name, "car")) THEN "car" ELSE "cobj")

(* The declarations a library is installed with come along. *)
FindLibrary ==
  /\ at = "libraries"
  /\ IF ~options.run \/ turn > Len(libraries) THEN GoTo("given") /\ UNCHANGED <<objects, archives, decls>>
     ELSE LET candidates == Candidates(libraries[turn])
          IN  IF candidates = {} THEN Fail(1) /\ UNCHANGED <<objects, archives, decls>>
              ELSE LET library == LibraryIn(directories[Min(candidates)], libraries[turn])
                       beside  == WithExtension(library, "decls.casm")
                   IN  /\ NextTurn
                       /\ decls'    = IF Exists(beside) /\ ~Contains(decls, beside) THEN Append(decls, beside) ELSE decls
                       /\ archives' = IF library.ext = "car" THEN Append(archives, library) ELSE archives
                       /\ objects'  = IF library.ext = "car" THEN objects ELSE Append(objects, library)
  /\ UNCHANGED <<options, environment, files, directories, libraries, units, reporting, linked>>

(* A file that was built before and is missing, nothing to compile, no ceres. *)
CheckGiven ==
  /\ at = "given"
  /\ IF \/ \E p \in Range(objects \o archives \o decls) : ~Exists(p)
        \/ cInputs = << >> /\ ~options.run
        \/ options.run /\ LocateCeres(options.ceresPath, environment) = Nowhere
     THEN Fail(1) ELSE GoTo("preprocess")
  /\ UNCHANGED <<options, environment, files, found, units, reporting, linked>>

-----------------------------------------------------------------------------
(* The compilation of a unit. *)

(* A warning is where the pragmas of a policy reach when it is in the        *)
(* expanded text of the policy's own unit.  The policy of a unit that is     *)
(* over is gone: what is read of it then is anything.                        *)
PolicyActions == {"default", "ignored", "warning", "error"}
ActionsFor(diagnostic) ==
  IF diagnostic.severity = "error" \/ policy = 0 THEN {"default"}
  ELSE IF policy # diagnostic.unit THEN PolicyActions
  ELSE IF diagnostic.where = "expanded" THEN PolicyActions
  ELSE {"default"}

(* DiagnosticEngine::report, and what was reported before. *)
Recorded(diagnostic, action) ==
  IF action = "ignored" THEN << >>
  ELSE <<IF action = "error" THEN [diagnostic EXCEPT !.severity = "error"] ELSE diagnostic>>
Counted(recorded, action) ==
  IF recorded # << >> /\ (recorded[1].severity = "error" \/ (options.werror /\ action # "warning")) THEN 1 ELSE 0

(* A phase reports nothing, or one diagnostic. *)
Reports(where) ==
  /\ \/ UNCHANGED <<diagnostics, errors>>
     \/ \E severity \in {"warning", "error"} :
          LET diagnostic == [unit |-> turn, severity |-> severity, where |-> where]
          IN  \E action \in ActionsFor(diagnostic) :
                /\ diagnostics' = diagnostics \o Recorded(diagnostic, action)
                /\ errors' = errors + Counted(Recorded(diagnostic, action), action)

(* DiagnosticPrinter::flush, by a line map. *)
(* Mutant of Shown: there is no cursor. *)
ShownAgain(map) == shown' = shown \o [n \in 1..Len(diagnostics') |-> [diagnostic |-> diagnostics'[n], map |-> map]]
Shown(map) == shown' = shown \o [n \in 1..(Len(diagnostics') - Len(shown)) |-> [diagnostic |-> diagnostics'[Len(shown) + n], map |-> map]]

(* Mutant of MapOfPreprocessing: the last unit's map is still set. *)
MapStillSet == lineMap
MapOfPreprocessing == 0

(* Not every error stops a preprocessor; a file it cannot open does. *)
Failed == Len(diagnostics') > Len(diagnostics) /\ diagnostics'[Len(diagnostics')].severity = "error"
Preprocess ==
  /\ at = "preprocess" /\ turn <= Len(cInputs)
  /\ Reports("original")
  /\ Shown(MapOfPreprocessing)
  /\ Exists(cInputs[turn]) \/ Failed
  /\ \/ /\ Failed
        /\ lineMap' = 0 /\ policy' = 0 /\ Fail(1)
     \/ /\ Exists(cInputs[turn])
        /\ lineMap' = turn
        /\ IF "-E" \in options.stop THEN policy' = 0 /\ NextTurn
           ELSE policy' = turn /\ at' = "analyse" /\ UNCHANGED <<turn, exit>>
  /\ UNCHANGED <<options, environment, files, found, units, linked>>

(* The lexer and the parser; an error of the preprocessor stops here at last. *)
Parse ==
  /\ at = "analyse"
  /\ Reports("expanded")
  /\ IF errors' > 0 THEN Shown(lineMap) /\ Fail(1) ELSE UNCHANGED <<shown, turn, exit>> /\ at' = "check"
  /\ UNCHANGED <<options, environment, files, found, units, policy, lineMap, linked>>

Check ==
  /\ at = "check"
  /\ Reports("expanded") /\ Shown(lineMap)
  /\ IF errors' # errors THEN Fail(1)
     ELSE IF "--emit-ast" \in options.stop THEN at' = "preprocess" /\ turn' = turn + 1 /\ UNCHANGED exit
     ELSE at' = "lower" /\ UNCHANGED <<turn, exit>>
  /\ UNCHANGED <<options, environment, files, found, units, policy, lineMap, linked>>

(* The IR builder and the optimizer. *)
Lower ==
  /\ at = "lower"
  /\ Reports("expanded")
  /\ IF errors' > 0 THEN Shown(lineMap) /\ Fail(1)
     ELSE IF "--emit-ir" \in options.stop THEN Shown(lineMap) /\ at' = "preprocess" /\ turn' = turn + 1 /\ UNCHANGED exit
     ELSE at' = "generate" /\ UNCHANGED <<turn, exit, shown>>
  /\ UNCHANGED <<options, environment, files, found, units, policy, lineMap, linked>>

(* A lone C input that is not linked may be told its output. *)
SingleOutput == Len(cInputs) = 1 /\ casmInputs = << >> /\ ~options.run
CasmPathOf(input) == IF SingleOutput /\ options.output # NoPath THEN options.output ELSE WithExtension(input, "casm")

Generate ==
  /\ at = "generate"
  /\ Reports("expanded") /\ Shown(lineMap)
  /\ IF errors' > 0 THEN Fail(1) /\ UNCHANGED units
     ELSE /\ at' = "preprocess" /\ turn' = turn + 1 /\ UNCHANGED exit
          /\ units' = Append(units, [source |-> cInputs[turn], casm |-> CasmPathOf(cInputs[turn])])
  /\ UNCHANGED <<options, environment, files, found, policy, lineMap, linked>>

(* Mutant of EndCompilation: what was printed was printed. *)
EndCompilationWell ==
  /\ at = "preprocess" /\ turn > Len(cInputs)
  /\ IF options.stop = {} THEN GoTo("declare") ELSE Fail(0)
  /\ UNCHANGED <<options, environment, files, found, units, reporting, linked>>

EndCompilation ==
  /\ at = "preprocess" /\ turn > Len(cInputs)
  /\ IF options.stop = {} THEN GoTo("declare") ELSE Fail(IF errors > 0 THEN 1 ELSE 0)
  /\ UNCHANGED <<options, environment, files, found, units, reporting, linked>>

-----------------------------------------------------------------------------
(* The declarations that the units share, and the units. *)

IsLinkerSymbol(name) ==
  name \in {"__text_start", "__text_end", "__rodata_start", "__rodata_end", "__data_start", "__data_end",
            "__bss_start", "__bss_end", "__heap_start"}

(* buildDeclarationsFile: one entry for a name; a definition replaces a      *)
(* declaration, one with an initializer a tentative one.                     *)
(* Mutant: the first definition stays.                                       *)
ReplacesDeclaration(entry, old) == entry.defined /\ ~old.defined
Replaces(entry, old) == entry.defined /\ (~old.defined \/ entry.initialized) /\ old.function = entry.function
Entered(leaveOut, entries, entry) ==
  IF entry.name \in leaveOut \/ (~entry.function /\ ~entry.defined /\ IsLinkerSymbol(entry.name)) THEN entries
  ELSE IF ~\E old \in entries : old.name = entry.name THEN entries \cup {entry}
  ELSE {IF old.name = entry.name /\ Replaces(entry, old) THEN entry ELSE old : old \in entries}
EnteredAll(leaveOut, entries, exports) ==
  LET upTo[n \in 0..Len(exports)] == IF n = 0 THEN entries ELSE Entered(leaveOut, upTo[n - 1], exports[n])
  IN  upTo[Len(exports)]
BuildDeclarations(leaveOut) ==
  LET upTo[n \in 0..Len(units)] == IF n = 0 THEN {} ELSE EnteredAll(leaveOut, upTo[n - 1], ExportsOf(units[n].source))
  IN  upTo[Len(units)]

(* Mutant of AlreadyDeclared: the files that are given are not read. *)
NothingDeclared == {}
AlreadyDeclared == UNION {DeclaredBy(p) : p \in Range(decls)}

NeedsDeclarations == Len(units) + Len(casmInputs) > 1 \/ (units # << >> /\ objects \o archives \o decls # << >>)
DeclarationsPath ==
  WithExtension(IF options.output = NoPath THEN options.inputs[1] ELSE options.output, "decls.casm")

TakesGivenDecls(path) == path \in Range(decls)
TextOf(unit) == Code(unit.source, (IF NeedsDeclarations THEN <<DeclarationsPath>> ELSE << >>) \o decls)

(* writeTextFile: it cannot open the file, it fails half-way, or it writes. *)
Writes(path, content, then) ==
  \/ files' = files /\ Fail(1)
  \/ files' = Holding(path, Torn(path)) /\ Fail(1)
  \/ files' = Holding(path, content) /\ then

Declare ==
  /\ at = "declare"
  /\ IF ~NeedsDeclarations THEN GoTo("publish") /\ UNCHANGED files
     ELSE IF TakesGivenDecls(DeclarationsPath) THEN Fail(1) /\ UNCHANGED files
     ELSE Writes(DeclarationsPath, Declarations(BuildDeclarations(AlreadyDeclared)), GoTo("publish"))
  /\ UNCHANGED <<options, environment, found, units, reporting, linked>>

Publish ==
  /\ at = "publish"
  /\ IF options.emitDecls = NoPath THEN GoTo("write") /\ UNCHANGED files
     ELSE Writes(options.emitDecls, Declarations(BuildDeclarations({})), GoTo("write"))
  /\ UNCHANGED <<options, environment, found, units, reporting, linked>>

WriteUnit ==
  /\ at = "write"
  /\ IF turn > Len(units)
     THEN (IF options.run THEN GoTo("assemble") ELSE Fail(0)) /\ UNCHANGED files
     ELSE Writes(units[turn].casm, TextOf(units[turn]), NextTurn)
  /\ UNCHANGED <<options, environment, found, units, reporting, linked>>

-----------------------------------------------------------------------------
(* Assemble, link, run, clean: each is a ceres of its own, whose exit code  *)
(* may be anything and -1 when it cannot even be launched.                   *)

CasmFiles == [n \in DOMAIN units |-> units[n].casm] \o casmInputs
ObjectOf(casm) == WithExtension(casm, "cobj")
ProgramPath ==
  WithExtension(IF options.output # NoPath THEN options.output
                ELSE IF CasmFiles = << >> THEN options.inputs[1] ELSE CasmFiles[1], "cres")

Failures == {-1, 2}
Subprocess(done, then, rest) ==
  \/ \E code \in Failures : Fail(IF code < 0 THEN 1 ELSE code) /\ rest
  \/ done /\ then

(* Mutant of TakesGivenObject: an object next to a source is overwritten. *)
TakesAny(path) == FALSE
TakesGivenObject(path) == path \in Range(objects)

(* Mutant of Assembled: an object that is there already is not made again. *)
AssembledOnce(casm) == IF Exists(ObjectOf(casm)) THEN files[ObjectOf(casm)] ELSE Object(files[casm])
Assembled(casm) == Object(files[casm])

Assemble ==
  /\ at = "assemble"
  /\ IF turn > Len(CasmFiles) THEN GoTo("link") /\ UNCHANGED files
     ELSE LET casm == CasmFiles[turn]
          IN  IF TakesGivenObject(ObjectOf(casm)) THEN Fail(1) /\ UNCHANGED files
              ELSE Subprocess(Exists(casm) /\ files' = Holding(ObjectOf(casm), Assembled(casm)), NextTurn, UNCHANGED files)
  /\ UNCHANGED <<options, environment, found, units, reporting, linked>>

(* What was assembled, the objects that were given, the archives last. *)
LinkArguments == [n \in DOMAIN CasmFiles |-> ObjectOf(CasmFiles[n])] \o objects \o archives

Link ==
  /\ at = "link"
  /\ LET contents == [n \in DOMAIN LinkArguments |-> files[LinkArguments[n]]]
     IN  Subprocess(files' = Holding(ProgramPath, Program(contents)) /\ linked' = contents, GoTo("run"), UNCHANGED <<files, linked>>)
  /\ UNCHANGED <<options, environment, found, units, reporting>>

(* The program's own exit code is the build's. *)
ExitCodes == {0, 3}
RunProgram ==
  /\ at = "run"
  /\ \/ Fail(1)
     \/ \E code \in ExitCodes : IF code = 0 /\ options.clean # "no" THEN GoTo("clean") ELSE Fail(code)
  /\ UNCHANGED <<options, environment, files, found, units, reporting, linked>>

(* Mutant of Generated: the declarations stay. *)
GeneratedButDeclarations ==
  {ObjectOf(casm) : casm \in Range(CasmFiles)} \cup {ProgramPath}
    \cup (IF options.clean = "all" THEN {unit.casm : unit \in Range(units)} ELSE {})
Generated ==
  {ObjectOf(casm) : casm \in Range(CasmFiles)} \cup {ProgramPath}
    \cup (IF NeedsDeclarations THEN {DeclarationsPath} ELSE {})
    \cup (IF options.clean = "all" THEN {unit.casm : unit \in Range(units)} ELSE {})

Clean ==
  /\ at = "clean"
  /\ files' = Without(Generated)
  /\ Fail(0)
  /\ UNCHANGED <<options, environment, found, units, reporting, linked>>

Returned == at = "done" /\ UNCHANGED vars

Next ==
  \/ FindStdlib \/ FindLibrary \/ CheckGiven
  \/ Preprocess \/ Parse \/ Check \/ Lower \/ Generate \/ EndCompilation
  \/ Declare \/ Publish \/ WriteUnit
  \/ Assemble \/ Link \/ RunProgram \/ Clean \/ Returned

Spec == Init /\ [][Next]_vars

-----------------------------------------------------------------------------
TypeOK ==
  /\ policy \in 0..Len(cInputs) /\ lineMap \in 0..Len(cInputs)
  /\ Len(shown) <= Len(diagnostics) /\ errors \in 0..Len(diagnostics)
  /\ \A n \in DOMAIN units : units[n].source = cInputs[n]
  /\ exit \in {0, 1} \cup Failures \cup ExitCodes

(* What was given is never removed (docs/05-CLI.md:82), and no file that is  *)
(* written is one that was handed in (driver.cpp:656): inputs, declarations  *)
(* files, libraries that were found, whatever fails on the way.              *)
GivenPaths == Range(options.inputs \o objects \o archives \o decls) \cap Present
GivenFilesKept == \A p \in GivenPaths : Exists(p) /\ files[p] = Given(p)

(* The program that is linked is made of the code this build compiled, and  *)
(* of what it was given, each once and in that order: never of an object or  *)
(* a unit an earlier build left behind.                                     *)
ProgramIsWhatWasCompiled ==
  linked # << >> =>
    linked = [n \in DOMAIN units |-> Object(TextOf(units[n]))] \o [n \in DOMAIN casmInputs |-> Object(Given(casmInputs[n]))]
               \o [n \in DOMAIN (objects \o archives) |-> Given((objects \o archives)[n])]

(* When the units are assembled, each name a unit declares is declared by    *)
(* exactly one of the files it imports: the assembler knows no name it has   *)
(* not seen, and refuses one that two of them declare.                       *)
NamesIn(path) ==
  IF files[path].kind = "declarations" THEN {entry.name : entry \in files[path].of} ELSE DeclaredBy(path)
ImportsDeclareOnce ==
  at = "assemble" =>
    \A unit \in Range(units) :
      LET imports == files[unit.casm].imports
      IN  imports # << >> \/ objects \o archives # << >> =>
            \A entry \in Range(ExportsOf(unit.source)) :
              IsLinkerSymbol(entry.name) \/ Cardinality({n \in DOMAIN imports : entry.name \in NamesIn(imports[n])}) = 1

(* What the file declares is the definition, if one of the units has it, and *)
(* the one with an initializer before a tentative one: the shape and the     *)
(* section every other unit sees are those of the object that is linked.     *)
Exported == UNION {Range(ExportsOf(unit.source)) : unit \in Range(units)}
DeclaresTheDefinition ==
  \A path \in DOMAIN files : files[path].kind = "declarations" =>
    \A entry \in Exported : \A declared \in files[path].of :
      declared.name = entry.name => (entry.defined => declared.defined) /\ (entry.initialized => declared.initialized)

(* The build says 0 only when it reported no error and everything that was   *)
(* asked for is done: each C input compiled and, with --run, linked and run. *)
NoErrorWentUnsaid == at = "done" /\ exit = 0 => \A n \in DOMAIN diagnostics : diagnostics[n].severity # "error"
ZeroMeansDone ==
  at = "done" /\ exit = 0 =>
    /\ NoErrorWentUnsaid
    /\ options.stop = {} => Len(units) = Len(cInputs) /\ (options.run => linked # << >>)
    /\ options.stop = {} /\ options.clean # "all" =>
         \A unit \in Range(units) : Exists(unit.casm) /\ files[unit.casm] = TextOf(unit)

(* A diagnostic is printed once, in order, by the line map of its own unit   *)
(* or none, never by that of a unit that is over; at the end all are.        *)
PrintedByItsOwnMap ==
  /\ \A n \in DOMAIN shown :
       /\ shown[n].diagnostic = diagnostics[n]
       /\ shown[n].map = IF shown[n].diagnostic.where = "expanded" THEN shown[n].diagnostic.unit ELSE 0
  /\ at = "done" => Len(shown) = Len(diagnostics)

(* After --clean there are the files there were before, what was to be       *)
(* published and, with --clean-keep-casm, the generated units: nothing else. *)
CleanLeavesNothing ==
  at = "done" /\ exit = 0 /\ options.clean # "no" =>
    \A path \in DOMAIN files :
      \/ files[path].kind \in {"given", "leftover"}
      \/ path = options.emitDecls
      \/ options.clean = "keep" /\ path \in {unit.casm : unit \in Range(units)}
=============================================================================
