----------------------------- MODULE DriverProofs -----------------------------
(***************************************************************************)
(* What the driver prints, what it returns and which files it leaves, for    *)
(* every command line, every machine, every set of files there was and every *)
(* outcome of the phases, the writes and the subprocesses.                   *)
(*                                                                         *)
(* BuildInv is how far a build is and what it has made; the others rest on   *)
(* it: KeptInv says which files it can have written, DeclInv, CodeInv and    *)
(* DeclaredInv what those hold, LinkedInv what the program is linked of.     *)
(***************************************************************************)
EXTENDS Driver, TLAPS, WellFoundedInduction, FiniteSetTheorems, SequenceTheorems

Diagnostic == [unit : Nat, severity : {"warning", "error"}, where : {"original", "expanded"}]
Printed    == [diagnostic : Diagnostic, map : Nat]

(* The map a diagnostic of the current unit is to be printed by. *)
OwnMap(where) == IF where = "expanded" THEN turn ELSE 0

PrintType ==
  /\ diagnostics \in Seq(Diagnostic) /\ shown \in Seq(Printed)
  /\ turn \in Nat /\ lineMap \in Nat
  /\ Len(shown) <= Len(diagnostics)

ShownWell ==
  \A n \in DOMAIN shown :
    /\ shown[n].diagnostic = diagnostics[n]
    /\ shown[n].map = IF shown[n].diagnostic.where = "expanded" THEN shown[n].diagnostic.unit ELSE 0

(* What is not yet printed is of this unit's expanded text, and only the    *)
(* parser and the builder leave anything.                                   *)
PendingIsOfThisUnit ==
  /\ \A n \in DOMAIN diagnostics : n > Len(shown) => diagnostics[n].unit = turn /\ diagnostics[n].where = "expanded"
  /\ at \notin {"check", "generate"} => Len(shown) = Len(diagnostics)

MapIsOfThisUnit == at \in {"analyse", "check", "lower", "generate"} => lineMap = turn

PrintInv == PrintType /\ ShownWell /\ PendingIsOfThisUnit /\ MapIsOfThisUnit

-----------------------------------------------------------------------------
(* A phase adds at most one diagnostic behind those there are. *)
LEMMA RecordedIsDiagnostic ==
  ASSUME NEW diagnostic \in Diagnostic, NEW action
  PROVE  /\ Recorded(diagnostic, action) \in Seq(Diagnostic) /\ Len(Recorded(diagnostic, action)) \in {0, 1}
         /\ \A n \in DOMAIN Recorded(diagnostic, action) :
              /\ Recorded(diagnostic, action)[n].unit = diagnostic.unit
              /\ Recorded(diagnostic, action)[n].where = diagnostic.where
<1>1. PICK u \in Nat, s \in {"warning", "error"}, w \in {"original", "expanded"} :
        diagnostic = [unit |-> u, severity |-> s, where |-> w]
  BY DEF Diagnostic
<1>2. [diagnostic EXCEPT !.severity = "error"] = [unit |-> u, severity |-> "error", where |-> w]
  BY <1>1
<1>. DEFINE said == IF action = "error" THEN [diagnostic EXCEPT !.severity = "error"] ELSE diagnostic
<1>3. said \in Diagnostic /\ said.unit = diagnostic.unit /\ said.where = diagnostic.where
  <2>1. CASE action = "error"
    <3>1. said = [unit |-> u, severity |-> "error", where |-> w]
      BY <1>2, <2>1
    <3>. HIDE DEF said
    <3>. QED  BY <1>1, <3>1 DEF Diagnostic
  <2>2. CASE action # "error"
    BY <2>2
  <2>. QED  BY <2>1, <2>2
<1>4. Recorded(diagnostic, action) = << >> \/ Recorded(diagnostic, action) = <<said>>
  BY DEF Recorded
<1>. DEFINE recorded == Recorded(diagnostic, action)
<1>. SUFFICES /\ recorded \in Seq(Diagnostic) /\ Len(recorded) \in {0, 1}
              /\ \A n \in DOMAIN recorded : recorded[n].unit = diagnostic.unit /\ recorded[n].where = diagnostic.where
  OBVIOUS
<1>5. recorded = << >> \/ recorded = <<said>>
  BY <1>4
<1>. HIDE DEF said, recorded
<1>6. CASE recorded = << >>
  BY <1>6
<1>7. CASE recorded = <<said>>
  <2>1. recorded \in Seq(Diagnostic) /\ Len(recorded) = 1
    BY <1>3, <1>7
  <2>2. DOMAIN recorded = {1} /\ recorded[1] = said
    BY <1>7
  <2>. QED  BY <1>3, <2>1, <2>2
<1>. QED  BY <1>5, <1>6, <1>7

LEMMA ReportsAppends ==
  ASSUME PrintType, NEW where \in {"original", "expanded"}, Reports(where)
  PROVE  /\ diagnostics' \in Seq(Diagnostic)
         /\ Len(diagnostics') >= Len(diagnostics)
         /\ \A n \in DOMAIN diagnostics : diagnostics'[n] = diagnostics[n]
         /\ \A n \in DOMAIN diagnostics' : n > Len(diagnostics) =>
              diagnostics'[n].unit = turn /\ diagnostics'[n].where = where
<1>1. CASE UNCHANGED <<diagnostics, errors>>
  BY <1>1 DEF PrintType
<1>2. ASSUME NEW severity \in {"warning", "error"}, NEW action,
             diagnostics' = diagnostics \o Recorded([unit |-> turn, severity |-> severity, where |-> where], action)
      PROVE  /\ diagnostics' \in Seq(Diagnostic)
             /\ Len(diagnostics') >= Len(diagnostics)
             /\ \A n \in DOMAIN diagnostics : diagnostics'[n] = diagnostics[n]
             /\ \A n \in DOMAIN diagnostics' : n > Len(diagnostics) =>
                  diagnostics'[n].unit = turn /\ diagnostics'[n].where = where
  <2>. DEFINE said == Recorded([unit |-> turn, severity |-> severity, where |-> where], action)
  <2>1. [unit |-> turn, severity |-> severity, where |-> where] \in Diagnostic
    BY DEF PrintType, Diagnostic
  <2>2. /\ said \in Seq(Diagnostic)
        /\ \A n \in DOMAIN said : said[n].unit = turn /\ said[n].where = where
    BY <2>1, RecordedIsDiagnostic
  <2>. HIDE DEF said
  <2>3. diagnostics' = diagnostics \o said
    BY <1>2 DEF said
  <2>. QED  BY <2>2, <2>3 DEF PrintType
<1>. QED  BY <1>1, <1>2 DEF Reports

(* flush() leaves nothing unprinted. *)
LEMMA ShownIsAll ==
  ASSUME PrintType, NEW map \in Nat, diagnostics' \in Seq(Diagnostic), Len(diagnostics') >= Len(shown), Shown(map)
  PROVE  /\ shown' \in Seq(Printed)
         /\ Len(shown') = Len(diagnostics')
         /\ \A n \in DOMAIN shown : shown'[n] = shown[n]
         /\ \A n \in DOMAIN shown' : n > Len(shown) => shown'[n] = [diagnostic |-> diagnostics'[n], map |-> map]
<1>. DEFINE rest == [n \in 1..(Len(diagnostics') - Len(shown)) |-> [diagnostic |-> diagnostics'[Len(shown) + n], map |-> map]]
<1>1. Len(shown) \in Nat /\ Len(diagnostics') \in Nat /\ Len(diagnostics') - Len(shown) \in Nat
  BY DEF PrintType
<1>2. rest \in Seq(Printed) /\ Len(rest) = Len(diagnostics') - Len(shown)
  <2>1. \A n \in 1..(Len(diagnostics') - Len(shown)) : rest[n] \in Printed
    BY <1>1 DEF Printed
  <2>. QED  BY <1>1, <2>1
<1>3. \A n \in 1..Len(rest) : rest[n] = [diagnostic |-> diagnostics'[Len(shown) + n], map |-> map]
  BY <1>1, <1>2
<1>4. shown' = shown \o rest
  BY DEF Shown
<1>. HIDE DEF rest
<1>5. shown' \in Seq(Printed) /\ Len(shown') = Len(diagnostics')
  BY <1>1, <1>2, <1>4 DEF PrintType
<1>6. \A n \in DOMAIN shown : shown'[n] = shown[n]
  BY <1>1, <1>2, <1>4 DEF PrintType
<1>7. \A n \in DOMAIN shown' : n > Len(shown) => shown'[n] = [diagnostic |-> diagnostics'[n], map |-> map]
  <2>1. ASSUME NEW n \in DOMAIN shown', n > Len(shown)
        PROVE  shown'[n] = [diagnostic |-> diagnostics'[n], map |-> map]
    <3>1. n \in 1..Len(diagnostics') /\ n - Len(shown) \in 1..Len(rest)
      BY <1>1, <1>2, <1>5, <2>1
    <3>2. shown'[n] = rest[n - Len(shown)]
      BY <1>1, <1>2, <1>4, <2>1, <3>1 DEF PrintType
    <3>3. Len(shown) + (n - Len(shown)) = n
      BY <1>1, <3>1
    <3>. QED  BY <1>3, <3>1, <3>2, <3>3
  <2>. QED  BY <2>1
<1>. QED  BY <1>5, <1>6, <1>7

(* A phase that prints does so by the map of its own unit, and leaves       *)
(* nothing for the next unit.                                               *)
AllShown == PrintType /\ ShownWell /\ Len(shown) = Len(diagnostics)

LEMMA PrintsByItsOwnMap ==
  ASSUME PrintInv, NEW where \in {"original", "expanded"}, Reports(where),
         Shown(OwnMap(where)), where = "original" => at = "preprocess", turn' \in Nat, lineMap' \in Nat
  PROVE  AllShown'
<1>1. OwnMap(where) \in Nat
  BY DEF OwnMap, PrintInv, PrintType
<1>2. /\ diagnostics' \in Seq(Diagnostic)
      /\ Len(diagnostics') >= Len(diagnostics)
      /\ \A n \in DOMAIN diagnostics : diagnostics'[n] = diagnostics[n]
      /\ \A n \in DOMAIN diagnostics' : n > Len(diagnostics) =>
           diagnostics'[n].unit = turn /\ diagnostics'[n].where = where
  BY ReportsAppends DEF PrintInv
<1>3. Len(shown) \in Nat /\ Len(diagnostics) \in Nat /\ Len(diagnostics') \in Nat /\ Len(shown) <= Len(diagnostics)
  BY <1>2 DEF PrintInv, PrintType
<1>4. /\ shown' \in Seq(Printed)
      /\ Len(shown') = Len(diagnostics')
      /\ \A n \in DOMAIN shown : shown'[n] = shown[n]
      /\ \A n \in DOMAIN shown' : n > Len(shown) => shown'[n] = [diagnostic |-> diagnostics'[n], map |-> OwnMap(where)]
  BY <1>1, <1>2, <1>3, ShownIsAll DEF PrintInv
<1>5. DOMAIN shown = 1..Len(shown) /\ DOMAIN shown' = 1..Len(shown') /\ DOMAIN diagnostics = 1..Len(diagnostics) /\ DOMAIN diagnostics' = 1..Len(diagnostics')
  BY <1>2, <1>4 DEF PrintInv, PrintType
<1>6. ASSUME NEW n \in DOMAIN shown'
      PROVE  /\ shown'[n].diagnostic = diagnostics'[n]
             /\ shown'[n].map = IF shown'[n].diagnostic.where = "expanded" THEN shown'[n].diagnostic.unit ELSE 0
  <2>1. CASE n \in DOMAIN shown
    <3>1. n \in DOMAIN diagnostics
      BY <1>3, <1>5, <2>1
    <3>2. shown'[n] = shown[n] /\ diagnostics'[n] = diagnostics[n]
      BY <1>2, <1>4, <2>1, <3>1
    <3>. QED  BY <2>1, <3>2 DEF PrintInv, ShownWell
  <2>2. CASE n \notin DOMAIN shown
    <3>1. n \in DOMAIN diagnostics' /\ n > Len(shown)
      BY <1>3, <1>4, <1>5, <2>2
    <3>2. shown'[n] = [diagnostic |-> diagnostics'[n], map |-> OwnMap(where)]
      BY <1>4, <3>1
    <3>3. diagnostics'[n].unit = turn /\ diagnostics'[n].where = where
      <4>1. CASE n > Len(diagnostics)
        BY <1>2, <3>1, <4>1
      <4>2. CASE n <= Len(diagnostics)
        <5>1. n \in DOMAIN diagnostics /\ diagnostics'[n] = diagnostics[n]
          BY <1>2, <1>3, <1>5, <3>1, <4>2
        <5>2. where = "expanded"
          BY <1>3, <3>1, <4>2 DEF PrintInv, PendingIsOfThisUnit
        <5>. QED  BY <3>1, <5>1, <5>2 DEF PrintInv, PendingIsOfThisUnit
      <4>. QED  BY <1>3, <1>5, <3>1, <4>1, <4>2
    <3>. QED  BY <3>2, <3>3 DEF OwnMap
  <2>. QED  BY <2>1, <2>2
<1>. QED  BY <1>2, <1>3, <1>4, <1>6 DEF AllShown, PrintType, ShownWell

(* A phase that does not print leaves what it reports to the next. *)
LEMMA KeepsForLater ==
  ASSUME PrintInv, Reports("expanded"), UNCHANGED <<shown, turn, lineMap>>,
         at' \in {"check", "generate"}, lineMap = turn
  PROVE  PrintInv'
<1>1. /\ diagnostics' \in Seq(Diagnostic)
      /\ Len(diagnostics') >= Len(diagnostics)
      /\ \A n \in DOMAIN diagnostics : diagnostics'[n] = diagnostics[n]
      /\ \A n \in DOMAIN diagnostics' : n > Len(diagnostics) =>
           diagnostics'[n].unit = turn /\ diagnostics'[n].where = "expanded"
  BY ReportsAppends DEF PrintInv
<1>2. Len(shown) \in Nat /\ Len(diagnostics) \in Nat /\ Len(diagnostics') \in Nat /\ Len(shown) <= Len(diagnostics)
  BY <1>1 DEF PrintInv, PrintType
<1>3. PrintType'
  BY <1>1, <1>2 DEF PrintInv, PrintType
<1>4. ShownWell'
  <2>1. \A n \in DOMAIN shown : n \in DOMAIN diagnostics
    BY <1>2 DEF PrintInv, PrintType
  <2>. QED  BY <1>1, <2>1 DEF PrintInv, ShownWell
<1>5. ASSUME NEW n \in DOMAIN diagnostics', n > Len(shown')
      PROVE  diagnostics'[n].unit = turn' /\ diagnostics'[n].where = "expanded"
  <2>1. CASE n > Len(diagnostics)
    BY <1>1, <1>5, <2>1
  <2>2. CASE n \in DOMAIN diagnostics
    BY <1>1, <1>5, <2>2 DEF PrintInv, PendingIsOfThisUnit
  <2>. QED  BY <1>1, <1>2, <2>1, <2>2 DEF PrintInv, PrintType
<1>. QED  BY <1>3, <1>4, <1>5 DEF PrintInv, PendingIsOfThisUnit, MapIsOfThisUnit

LEMMA AllShownIsPrintInv ==
  ASSUME AllShown', at' \in {"analyse", "check", "lower", "generate"} => lineMap' = turn'
  PROVE  PrintInv'
<1>1. \A n \in DOMAIN diagnostics' : ~(n > Len(shown'))
  BY DEF AllShown, PrintType
<1>. QED  BY <1>1 DEF AllShown, PrintInv, PendingIsOfThisUnit, MapIsOfThisUnit

(* Steps that report nothing. *)
LEMMA QuietStep ==
  ASSUME PrintInv, UNCHANGED reporting, turn' \in Nat,
         at \notin {"check", "generate"}, at' \notin {"analyse", "check", "lower", "generate"}
  PROVE  PrintInv'
<1>1. AllShown'
  BY DEF PrintInv, AllShown, PrintType, ShownWell, PendingIsOfThisUnit, reporting
<1>. QED  BY <1>1, AllShownIsPrintInv

-----------------------------------------------------------------------------
LEMMA PrintInit == Init => PrintInv
BY DEF Init, PrintInv, PrintType, ShownWell, PendingIsOfThisUnit, MapIsOfThisUnit

LEMMA PreprocessPrints == PrintInv /\ Preprocess => PrintInv'
<1>. SUFFICES ASSUME PrintInv, Preprocess PROVE PrintInv'
  OBVIOUS
<1>1. turn \in Nat /\ at = "preprocess" /\ Reports("original") /\ Shown(OwnMap("original"))
  BY DEF PrintInv, PrintType, Preprocess, OwnMap, MapOfPreprocessing
<1>2. turn' \in Nat /\ lineMap' \in Nat
  BY <1>1 DEF Preprocess, Fail, NextTurn
<1>3. AllShown'
  BY <1>1, <1>2, PrintsByItsOwnMap
<1>4. at' \in {"analyse", "check", "lower", "generate"} => lineMap' = turn'
  BY <1>1 DEF Preprocess, Fail, NextTurn
<1>. QED  BY <1>3, <1>4, AllShownIsPrintInv

LEMMA PhasePrints ==
  ASSUME PrintInv, at \in {"analyse", "check", "lower", "generate"}, Reports("expanded"), Shown(lineMap), UNCHANGED lineMap,
         turn' \in Nat, at' = "lower" => turn' = turn, at' \in {"lower", "preprocess", "done"}
  PROVE  PrintInv'
<1>1. lineMap = OwnMap("expanded") /\ lineMap \in Nat
  BY DEF PrintInv, PrintType, MapIsOfThisUnit, OwnMap
<1>2. AllShown'
  BY <1>1, PrintsByItsOwnMap
<1>3. at' \in {"analyse", "check", "lower", "generate"} => lineMap' = turn'
  BY DEF PrintInv, MapIsOfThisUnit
<1>. QED  BY <1>2, <1>3, AllShownIsPrintInv

LEMMA CompilationPrints == PrintInv /\ (Parse \/ Check \/ Lower \/ Generate) => PrintInv'
<1>. SUFFICES ASSUME PrintInv, Parse \/ Check \/ Lower \/ Generate PROVE PrintInv'
  OBVIOUS
<1>0. turn \in Nat /\ lineMap' = lineMap /\ Reports("expanded") /\ at \in {"analyse", "check", "lower", "generate"}
  BY DEF PrintInv, PrintType, Parse, Check, Lower, Generate
<1>1. CASE Parse
  <2>1. CASE Shown(lineMap) /\ Fail(1)
    BY <1>0, <2>1, PhasePrints DEF Fail
  <2>2. CASE UNCHANGED <<shown, turn, exit>> /\ at' = "check"
    BY <1>0, <2>2, KeepsForLater DEF PrintInv, MapIsOfThisUnit
  <2>. QED  BY <1>1, <2>1, <2>2 DEF Parse
<1>2. CASE Check
  <2>1. Shown(lineMap) /\ turn' \in Nat /\ (at' = "lower" => turn' = turn) /\ at' \in {"lower", "preprocess", "done"}
    BY <1>0, <1>2 DEF Check, Fail
  <2>. QED  BY <1>0, <2>1, PhasePrints
<1>3. CASE Lower
  <2>1. CASE at' = "generate"
    <3>1. UNCHANGED <<turn, shown>>
      BY <1>3, <2>1 DEF Lower, Fail
    <3>. QED  BY <1>0, <2>1, <3>1, KeepsForLater DEF PrintInv, MapIsOfThisUnit
  <2>2. CASE at' # "generate"
    <3>1. Shown(lineMap) /\ turn' \in Nat /\ at' \in {"preprocess", "done"}
      BY <1>0, <1>3, <2>2 DEF Lower, Fail
    <3>. QED  BY <1>0, <3>1, PhasePrints
  <2>. QED  BY <2>1, <2>2
<1>4. CASE Generate
  <2>1. Shown(lineMap) /\ turn' \in Nat /\ at' \in {"preprocess", "done"}
    BY <1>0, <1>4 DEF Generate, Fail
  <2>. QED  BY <1>0, <2>1, PhasePrints
<1>. QED  BY <1>1, <1>2, <1>3, <1>4

QuietSteps == FindStdlib \/ FindLibrary \/ CheckGiven \/ EndCompilation \/ Declare \/ Publish \/ WriteUnit
                \/ Assemble \/ Link \/ RunProgram \/ Clean

LEMMA QuietStepsPrintNothing == PrintInv /\ QuietSteps => PrintInv'
<1>. SUFFICES ASSUME PrintInv, QuietSteps PROVE PrintInv'
  OBVIOUS
<1>1. turn \in Nat
  BY DEF PrintInv, PrintType
<1>2. UNCHANGED reporting
  BY DEF QuietSteps, FindStdlib, FindLibrary, CheckGiven, EndCompilation, Declare, Publish, WriteUnit, Assemble, Link, RunProgram, Clean
<1>3. at \notin {"check", "generate"}
  BY DEF QuietSteps, FindStdlib, FindLibrary, CheckGiven, EndCompilation, Declare, Publish, WriteUnit, Assemble, Link, RunProgram, Clean
<1>4. turn' \in Nat /\ at' \notin {"analyse", "check", "lower", "generate"}
  <2>1. CASE FindStdlib \/ FindLibrary \/ CheckGiven \/ EndCompilation
    BY <1>1, <2>1 DEF FindStdlib, FindLibrary, CheckGiven, EndCompilation, GoTo, NextTurn, Fail
  <2>2. CASE Declare \/ Publish \/ WriteUnit
    BY <1>1, <2>2 DEF Declare, Publish, WriteUnit, Writes, GoTo, NextTurn, Fail
  <2>3. CASE Assemble \/ Link \/ RunProgram \/ Clean
    BY <1>1, <2>3 DEF Assemble, Link, RunProgram, Clean, Subprocess, GoTo, NextTurn, Fail
  <2>. QED  BY <2>1, <2>2, <2>3 DEF QuietSteps
<1>. QED  BY <1>2, <1>3, <1>4, QuietStep

LEMMA PrintNext == PrintInv /\ [Next]_vars => PrintInv'
<1>1. ASSUME PrintInv, UNCHANGED vars PROVE PrintInv'
  BY <1>1 DEF vars, reporting, PrintInv, PrintType, ShownWell, PendingIsOfThisUnit, MapIsOfThisUnit
<1>. QED  BY <1>1, PreprocessPrints, CompilationPrints, QuietStepsPrintNothing DEF Next, QuietSteps, Returned

(* Every diagnostic is printed once, in the order they were recorded, by    *)
(* the line map of the unit it belongs to, whichever phase stops the build. *)
THEOREM PrintedByItsOwnMapAlways == Spec => []PrintedByItsOwnMap
<1>1. PrintInv => PrintedByItsOwnMap
  BY DEF PrintInv, ShownWell, PendingIsOfThisUnit, PrintedByItsOwnMap
<1>. QED  BY <1>1, PrintInit, PrintNext, PTL DEF Spec
-----------------------------------------------------------------------------
(* An error that was recorded was counted, and a count ends the build. *)
ErrorsCounted ==
  /\ diagnostics \in Seq(Diagnostic) /\ errors \in Nat
  /\ \A n \in DOMAIN diagnostics : diagnostics[n].severity = "error" => errors > 0
MayHaveErrors == at \in {"analyse", "done"} \/ (at = "preprocess" /\ "-E" \in options.stop)

ErrorInv ==
  /\ turn \in Nat
  /\ ErrorsCounted
  /\ ~MayHaveErrors => errors = 0
  /\ at = "done" /\ exit = 0 => errors = 0

LEMMA ReportsCounts ==
  ASSUME ErrorsCounted, turn \in Nat, NEW where \in {"original", "expanded"}, Reports(where)
  PROVE  ErrorsCounted'
<1>1. CASE UNCHANGED <<diagnostics, errors>>
  BY <1>1 DEF ErrorsCounted
<1>2. ASSUME NEW severity \in {"warning", "error"}, NEW action,
             diagnostics' = diagnostics \o Recorded([unit |-> turn, severity |-> severity, where |-> where], action),
             errors' = errors + Counted(Recorded([unit |-> turn, severity |-> severity, where |-> where], action), action)
      PROVE  ErrorsCounted'
  <2>. DEFINE said == Recorded([unit |-> turn, severity |-> severity, where |-> where], action)
  <2>1. [unit |-> turn, severity |-> severity, where |-> where] \in Diagnostic
    BY DEF Diagnostic
  <2>2. said \in Seq(Diagnostic) /\ Len(said) \in {0, 1}
    BY <2>1, RecordedIsDiagnostic
  <2>3. diagnostics' = diagnostics \o said /\ errors' = errors + Counted(said, action)
    BY <1>2
  <2>. HIDE DEF said
  <2>4. Counted(said, action) \in {0, 1} /\ (said # << >> /\ said[1].severity = "error" => Counted(said, action) = 1)
    BY DEF Counted
  <2>5. errors' \in Nat /\ errors' >= errors /\ diagnostics' \in Seq(Diagnostic)
    BY <2>2, <2>3, <2>4 DEF ErrorsCounted
  <2>6. ASSUME NEW n \in DOMAIN diagnostics', diagnostics'[n].severity = "error"
        PROVE  errors' > 0
    <3>1. CASE n \in DOMAIN diagnostics
      <4>1. diagnostics'[n] = diagnostics[n]
        BY <2>2, <2>3, <3>1 DEF ErrorsCounted
      <4>. QED  BY <2>5, <2>6, <3>1, <4>1 DEF ErrorsCounted
    <3>2. CASE n \notin DOMAIN diagnostics
      <4>1. Len(said) = 1 /\ said # << >> /\ diagnostics'[n] = said[1]
        BY <2>2, <2>3, <2>6, <3>2 DEF ErrorsCounted
      <4>2. Counted(said, action) = 1
        BY <2>4, <2>6, <4>1
      <4>. QED  BY <2>3, <4>2 DEF ErrorsCounted
    <3>. QED  BY <3>1, <3>2
  <2>. QED  BY <2>5, <2>6 DEF ErrorsCounted
<1>. QED  BY <1>1, <1>2 DEF Reports

LEMMA ErrorInit == Init => ErrorInv
<1>1. Init => turn \in Nat /\ ErrorsCounted /\ errors = 0
  BY DEF Init, ErrorsCounted
<1>. QED  BY <1>1 DEF ErrorInv

LEMMA ErrorPhases == ErrorInv /\ (Preprocess \/ Parse \/ Check \/ Lower \/ Generate) => ErrorInv'
<1>. SUFFICES ASSUME ErrorInv, Preprocess \/ Parse \/ Check \/ Lower \/ Generate PROVE ErrorInv'
  OBVIOUS
<1>1. ErrorsCounted' /\ UNCHANGED options /\ turn \in Nat
  <2>1. Reports("original") \/ Reports("expanded")
    BY DEF Preprocess, Parse, Check, Lower, Generate
  <2>. QED  BY <2>1, ReportsCounts DEF ErrorInv, Preprocess, Parse, Check, Lower, Generate
<1>2. turn' \in Nat
  BY <1>1 DEF Preprocess, Parse, Check, Lower, Generate, Fail, NextTurn
<1>3. errors \in Nat /\ errors' \in Nat
  BY <1>1 DEF ErrorInv, ErrorsCounted
<1>4. /\ ~MayHaveErrors' => errors' = 0
      /\ at' = "done" /\ exit' = 0 => errors' = 0
  <2>1. CASE Preprocess
    <3>1. at' = "done" => exit' = 1
      BY <2>1 DEF Preprocess, Fail, NextTurn
    <3>2. at' \in {"done", "analyse"} \/ (at' = "preprocess" /\ "-E" \in options.stop)
      BY <2>1 DEF Preprocess, Fail, NextTurn
    <3>. QED  BY <1>1, <3>1, <3>2 DEF MayHaveErrors
  <2>2. CASE Parse
    <3>1. \/ at' = "done" /\ exit' = 1
          \/ at' = "check" /\ ~(errors' > 0)
      BY <2>2 DEF Parse, Fail
    <3>. QED  BY <1>3, <3>1 DEF MayHaveErrors
  <2>3. CASE Check
    <3>1. errors = 0
      BY <2>3 DEF ErrorInv, MayHaveErrors, Check
    <3>2. \/ at' = "done" /\ exit' = 1
          \/ at' \in {"preprocess", "lower"} /\ errors' = errors
      BY <2>3 DEF Check, Fail
    <3>. QED  BY <3>1, <3>2 DEF MayHaveErrors
  <2>4. CASE Lower \/ Generate
    <3>1. \/ at' = "done" /\ exit' = 1
          \/ at' \in {"preprocess", "generate"} /\ ~(errors' > 0)
      BY <2>4 DEF Lower, Generate, Fail
    <3>. QED  BY <1>3, <3>1 DEF MayHaveErrors
  <2>. QED  BY <2>1, <2>2, <2>3, <2>4
<1>. QED  BY <1>1, <1>2, <1>4 DEF ErrorInv

LEMMA ErrorQuietSteps == ErrorInv /\ QuietSteps => ErrorInv'
<1>. SUFFICES ASSUME ErrorInv, QuietSteps PROVE ErrorInv'
  OBVIOUS
<1>1. UNCHANGED <<options, diagnostics, errors>>
  BY DEF reporting, QuietSteps, FindStdlib, FindLibrary, CheckGiven, EndCompilation, Declare, Publish, WriteUnit, Assemble, Link, RunProgram, Clean
<1>2. turn' \in Nat
  <2>1. CASE FindStdlib \/ FindLibrary \/ CheckGiven \/ EndCompilation
    BY <2>1 DEF ErrorInv, FindStdlib, FindLibrary, CheckGiven, EndCompilation, GoTo, NextTurn, Fail
  <2>2. CASE Declare \/ Publish \/ WriteUnit
    BY <2>2 DEF ErrorInv, Declare, Publish, WriteUnit, Writes, GoTo, NextTurn, Fail
  <2>3. CASE Assemble \/ Link \/ RunProgram \/ Clean
    BY <2>3 DEF ErrorInv, Assemble, Link, RunProgram, Clean, Subprocess, GoTo, NextTurn, Fail
  <2>. QED  BY <2>1, <2>2, <2>3 DEF QuietSteps
<1>3. ErrorsCounted'
  BY <1>1 DEF ErrorInv, ErrorsCounted
<1>4. CASE EndCompilation
  <2>1. \/ at' = "declare" /\ options.stop = {}
        \/ at' = "done" /\ (exit' = 0 => ~(errors > 0))
    BY <1>4 DEF EndCompilation, GoTo, Fail
  <2>2. options.stop = {} => errors = 0
    BY <1>4 DEF EndCompilation, ErrorInv, MayHaveErrors
  <2>. QED  BY <1>1, <1>2, <1>3, <2>1, <2>2 DEF ErrorInv, ErrorsCounted, MayHaveErrors
<1>5. CASE ~EndCompilation
  <2>1. errors = 0
    BY <1>5 DEF ErrorInv, MayHaveErrors, QuietSteps, FindStdlib, FindLibrary, CheckGiven, Declare, Publish, WriteUnit, Assemble, Link, RunProgram, Clean
  <2>. QED  BY <1>1, <1>2, <1>3, <2>1 DEF ErrorInv
<1>. QED  BY <1>4, <1>5

LEMMA ErrorNext == ErrorInv /\ [Next]_vars => ErrorInv'
<1>1. ASSUME ErrorInv, UNCHANGED vars PROVE ErrorInv'
  BY <1>1 DEF vars, reporting, ErrorInv, ErrorsCounted, MayHaveErrors
<1>. QED  BY <1>1, ErrorPhases, ErrorQuietSteps DEF Next, QuietSteps, Returned

(* The build never returns 0 with an error among its diagnostics, whichever *)
(* phase found it and however many units came after: of an error that is    *)
(* recorded and not counted, and of one that is counted and passed over.    *)
THEOREM NoErrorWentUnsaidAlways == Spec => []NoErrorWentUnsaid
<1>1. ErrorInv => NoErrorWentUnsaid
  BY DEF ErrorInv, ErrorsCounted, NoErrorWentUnsaid
<1>. QED  BY <1>1, ErrorInit, ErrorNext, PTL DEF Spec

-----------------------------------------------------------------------------
(* Sequences, and the functions that loops compute. *)

LEMMA NatSetInduction ==
  ASSUME NEW S, 0 \in S, \A n \in Nat : n \in S => n + 1 \in S
  PROVE  \A n \in Nat : n \in S
<1>. DEFINE T == {n \in Nat : n \notin S}
            R == OpToRel(<, Nat)
<1>. SUFFICES ASSUME T # {} PROVE FALSE
  OBVIOUS
<1>1. IsWellFoundedOn(R, Nat)
  BY NatLessThanWellFounded
<1>2. T \subseteq Nat
  OBVIOUS
<1>3. R = {ss \in Nat \X Nat : ss[1] < ss[2]}
  BY DEF OpToRel
<1>. HIDE DEF R
<1>4. PICK m \in T : \A y \in T : ~(<<y, m>> \in R)
  <2>. HIDE DEF T
  <2>. QED BY <1>1, <1>2, WFMin
<1>5. m \in Nat /\ m # 0
  OBVIOUS
<1>6. m - 1 \in T
  BY <1>5
<1>7. <<m - 1, m>> \in R
  <2>1. <<m - 1, m>> \in Nat \X Nat
    BY <1>5, <1>6
  <2>2. <<m - 1, m>>[1] < <<m - 1, m>>[2]
    BY <1>5
  <2>. QED BY <2>1, <2>2, <1>3
<1>. QED BY <1>4, <1>6, <1>7

(* A sequence, of whatever it holds. *)
IsSequence(s) == s \in Seq(Range(s))

LEMMA SequenceFacts ==
  ASSUME NEW s, IsSequence(s)
  PROVE  /\ Len(s) \in Nat /\ DOMAIN s = 1..Len(s)
         /\ \A n \in 1..Len(s) : s[n] \in Range(s)
         /\ \A x \in Range(s) : \E n \in 1..Len(s) : x = s[n]
BY DEF IsSequence, Range

LEMMA SequenceOf ==
  ASSUME NEW S, NEW s \in Seq(S)
  PROVE  IsSequence(s) /\ Range(s) \subseteq S
<1>1. \A n \in 1..Len(s) : s[n] \in Range(s)
  BY DEF Range
<1>2. s = [n \in 1..Len(s) |-> s[n]] /\ Len(s) \in Nat
  OBVIOUS
<1>3. s \in Seq(Range(s))
  BY <1>1, <1>2, IsASeq
<1>. QED  BY <1>3 DEF IsSequence, Range

LEMMA Appended ==
  ASSUME NEW s, IsSequence(s), NEW x
  PROVE  /\ IsSequence(Append(s, x)) /\ Len(Append(s, x)) = Len(s) + 1
         /\ Range(Append(s, x)) = Range(s) \cup {x}
         /\ \A n \in 1..Len(s) : Append(s, x)[n] = s[n]
         /\ Append(s, x)[Len(s) + 1] = x
<1>. DEFINE S == Range(s) \cup {x}
            t == Append(s, x)
<1>1. s \in Seq(S) /\ Len(s) \in Nat /\ DOMAIN s = 1..Len(s)
  <2>1. s \in Seq(Range(s)) /\ Range(s) \subseteq S
    BY DEF IsSequence
  <2>. HIDE DEF S
  <2>. QED  BY <2>1
<1>2. t \in Seq(S) /\ Len(t) = Len(s) + 1 /\ t[Len(s) + 1] = x /\ \A n \in 1..Len(s) : t[n] = s[n]
  <2>1. x \in S
    OBVIOUS
  <2>. HIDE DEF S
  <2>. QED  BY <1>1, <2>1
<1>3. IsSequence(t)
  <2>. HIDE DEF S, t
  <2>. QED  BY <1>2, SequenceOf
<1>4. Range(t) = S
  <2>1. DOMAIN t = 1..(Len(s) + 1)
    BY <1>1, <1>2
  <2>2. Range(t) \subseteq S
    BY <1>2, SequenceOf
  <2>3. ASSUME NEW y \in Range(s) PROVE y \in Range(t)
    <3>1. PICK n \in 1..Len(s) : y = s[n]
      BY <1>1 DEF Range
    <3>2. n \in DOMAIN t /\ t[n] = y
      BY <1>1, <1>2, <2>1, <3>1
    <3>. HIDE DEF t
    <3>. QED  BY <3>2 DEF Range
  <2>4. x \in Range(t)
    <3>1. Len(s) + 1 \in DOMAIN t
      BY <1>1, <2>1
    <3>. HIDE DEF t
    <3>. QED  BY <1>2, <3>1 DEF Range
  <2>. QED  BY <2>2, <2>3, <2>4
<1>. QED  BY <1>2, <1>3, <1>4

LEMMA EmptyIsSequence == IsSequence(<< >>) /\ Range(<< >>) = {}
BY DEF IsSequence, Range

-----------------------------------------------------------------------------
(* A function that a loop computes: its value after n turns. *)
RunsBy(f, N, S, first, step) ==
  f \in [0..N -> S] /\ f[0] = first /\ \A n \in 1..N : f[n] = step[<<n, f[n - 1]>>]

LEMMA RunsThrough ==
  ASSUME NEW N \in Nat, NEW S, NEW first \in S, NEW step \in [(1..N) \X S -> S]
  PROVE  \E f : RunsBy(f, N, S, first, step)
<1>. DEFINE UpTo(k, f) == f \in [0..k -> S] /\ f[0] = first /\ \A n \in 1..k : f[n] = step[<<n, f[n - 1]>>]
            K == {k \in Nat : k <= N => \E f : UpTo(k, f)}
<1>1. 0 \in K
  <2>1. UpTo(0, [n \in 0..0 |-> first])
    OBVIOUS
  <2>. QED  BY <2>1
<1>2. ASSUME NEW k \in Nat, k \in K PROVE k + 1 \in K
  <2>. SUFFICES ASSUME k + 1 <= N PROVE \E f : UpTo(k + 1, f)
    OBVIOUS
  <2>1. PICK f : UpTo(k, f)
    BY <1>2
  <2>. DEFINE last == step[<<k + 1, f[k]>>]
              g == [n \in 0..(k + 1) |-> IF n = k + 1 THEN last ELSE f[n]]
  <2>2. f[k] \in S /\ k + 1 \in 1..N
    BY <2>1
  <2>3. last \in S
    <3>1. <<k + 1, f[k]>> \in (1..N) \X S
      BY <2>2
    <3>. QED  BY <3>1
  <2>4. \A n \in 0..k : n \in 0..(k + 1) /\ n # k + 1 /\ g[n] = f[n] /\ f[n] \in S
    BY <2>1
  <2>5. g \in [0..(k + 1) -> S] /\ g[0] = first
    BY <2>1, <2>3, <2>4
  <2>6. ASSUME NEW n \in 1..(k + 1) PROVE g[n] = step[<<n, g[n - 1]>>]
    <3>1. n - 1 \in 0..k /\ g[n - 1] = f[n - 1]
      BY <2>4
    <3>2. CASE n = k + 1
      <4>1. g[n] = last /\ n - 1 = k
        BY <3>2
      <4>. QED  BY <3>1, <3>2, <4>1
    <3>3. CASE n # k + 1
      <4>1. n \in 1..k /\ g[n] = f[n]
        BY <3>3
      <4>. QED  BY <2>1, <3>1, <4>1
    <3>. QED  BY <3>2, <3>3
  <2>. HIDE DEF g
  <2>. QED  BY <2>5, <2>6
<1>. HIDE DEF K
<1>3. N \in K
  BY <1>1, <1>2, NatSetInduction
<1>. QED  BY <1>3 DEF K, RunsBy

-----------------------------------------------------------------------------
(* What a command line is read into, a word at a time. *)
OptionsRead(o) ==
  /\ DOMAIN o = DOMAIN InitialOptions
  /\ o.ok \in BOOLEAN /\ o.clean \in {"no", "all", "keep"} /\ o.stop \subseteq {"--emit-ast", "--emit-ir", "-E"}
  /\ IsSequence(o.inputs) /\ IsSequence(o.decls)
  /\ \A p \in Range(o.inputs) \cup Range(o.decls) \cup {o.output, o.emitDecls} : IsPath(p)

NamesPaths(word) ==
  /\ Len(word) \in Nat
  /\ word[1] = "input" \/ (word[1] \in {"-o", "--decls", "--emit-decls"} /\ Len(word) > 1) => IsPath(word[2])

LEMMA Changed ==
  ASSUME NEW o, NEW field \in DOMAIN o, NEW value
  PROVE  /\ DOMAIN [o EXCEPT ![field] = value] = DOMAIN o
         /\ [o EXCEPT ![field] = value][field] = value
         /\ \A other \in DOMAIN o \ {field} : [o EXCEPT ![field] = value][other] = o[other]
OBVIOUS

LEMMA OptionFields ==
  DOMAIN InitialOptions =
    {"ok", "inputs", "decls", "emitDecls", "output", "stop", "run", "clean", "ceresPath", "werror",
     "libraryDirectories", "libraries", "stdlib", "switches", "linkOptions", "runArguments", "programArguments"}
BY DEF InitialOptions

LEMMA EffectReads ==
  ASSUME NEW o, OptionsRead(o), NEW word, NamesPaths(word)
  PROVE  OptionsRead(Effect(o, word))
<1>. DEFINE r == Effect(o, word)
            Sets(field, value) == r = [o EXCEPT ![field] = value]
<1>1. DOMAIN o = {"ok", "inputs", "decls", "emitDecls", "output", "stop", "run", "clean", "ceresPath", "werror",
     "libraryDirectories", "libraries", "stdlib", "switches", "linkOptions", "runArguments", "programArguments"}
  BY OptionFields DEF OptionsRead
<1>2. \/ Sets("ok", FALSE)
      \/ word[1] \in {"--emit-ast", "--emit-ir", "-E"} /\ Sets("stop", o.stop \cup {word[1]})
      \/ Sets("run", FALSE) \/ Sets("run", TRUE)
      \/ Sets("clean", "all") \/ Sets("clean", "keep")
      \/ \E field \in {"ceresPath", "werror", "libraryDirectories", "libraries", "stdlib", "switches", "linkOptions", "runArguments", "programArguments"} :
           \E value : Sets(field, value)
      \/ IsPath(word[2]) /\ (Sets("output", word[2]) \/ Sets("emitDecls", word[2]))
      \/ IsPath(word[2]) /\ (Sets("decls", Append(o.decls, word[2])) \/ Sets("inputs", Append(o.inputs, word[2])))
  <2>1. CASE word[1] \in TakesValue /\ Len(word) < 2
    BY <2>1 DEF Effect, Refused
  <2>2. CASE ~(word[1] \in TakesValue /\ Len(word) < 2)
    <3>1. word[1] \in {"-o", "--decls", "--emit-decls", "input"} => IsPath(word[2])
      BY <2>2 DEF NamesPaths, TakesValue
    <3>. QED  BY ZenonT(60), <2>2, <3>1 DEF Effect, Refused
  <2>. QED  BY <2>1, <2>2
<1>. SUFFICES OptionsRead(r)
  OBVIOUS
<1>. HIDE DEF r
<1>3. CASE Sets("ok", FALSE)
  BY <1>1, <1>3, Changed DEF OptionsRead
<1>4. CASE word[1] \in {"--emit-ast", "--emit-ir", "-E"} /\ Sets("stop", o.stop \cup {word[1]})
  BY <1>1, <1>4, Changed DEF OptionsRead
<1>5. CASE Sets("run", FALSE) \/ Sets("run", TRUE)
  BY <1>1, <1>5, Changed DEF OptionsRead
<1>6. CASE Sets("clean", "all") \/ Sets("clean", "keep")
  BY <1>1, <1>6, Changed DEF OptionsRead
<1>7. ASSUME NEW field \in {"ceresPath", "werror", "libraryDirectories", "libraries", "stdlib", "switches", "linkOptions", "runArguments", "programArguments"},
             NEW value, Sets(field, value)
      PROVE  OptionsRead(r)
  BY <1>1, <1>7, Changed DEF OptionsRead
<1>8. CASE IsPath(word[2]) /\ (Sets("output", word[2]) \/ Sets("emitDecls", word[2]))
  <2>1. CASE Sets("output", word[2])
    BY <1>1, <1>8, <2>1, Changed DEF OptionsRead
  <2>2. CASE Sets("emitDecls", word[2])
    BY <1>1, <1>8, <2>2, Changed DEF OptionsRead
  <2>. QED  BY <1>8, <2>1, <2>2
<1>9. CASE IsPath(word[2]) /\ Sets("decls", Append(o.decls, word[2]))
  <2>1. IsSequence(Append(o.decls, word[2])) /\ Range(Append(o.decls, word[2])) = Range(o.decls) \cup {word[2]}
    BY Appended DEF OptionsRead
  <2>. QED  BY <1>1, <1>9, <2>1, Changed DEF OptionsRead
<1>10. CASE IsPath(word[2]) /\ Sets("inputs", Append(o.inputs, word[2]))
  <2>1. IsSequence(Append(o.inputs, word[2])) /\ Range(Append(o.inputs, word[2])) = Range(o.inputs) \cup {word[2]}
    BY Appended DEF OptionsRead
  <2>. QED  BY <1>1, <1>10, <2>1, Changed DEF OptionsRead
<1>. HIDE DEF Sets
<1>. QED  BY <1>2, <1>3, <1>4, <1>5, <1>6, <1>7, <1>8, <1>9, <1>10

(* parseOptions() reads any command line into options of this form. *)
LEMMA ReadsOptions ==
  ASSUME NEW words, Len(words) \in Nat, \A n \in 1..Len(words) : NamesPaths(words[n])
  PROVE  OptionsRead(ReadOptions(words))
<1>. DEFINE N == Len(words)
            After(o, n) == IF o.ok THEN Effect(o, words[n]) ELSE o
            Reads(f) == f = [n \in 0..N |-> IF n = 0 THEN InitialOptions ELSE After(f[n - 1], n)]
            UpTo(k, f) == f = [n \in 0..k |-> IF n = 0 THEN InitialOptions ELSE After(f[n - 1], n)]
            K == {k \in Nat : \E f : UpTo(k, f)}
<1>0. N \in Nat
  OBVIOUS
<1>1. /\ ReadOptions(words) = (CHOOSE f : Reads(f))[N]
      /\ \A f : Reads(f) <=> UpTo(N, f)
  BY DEF ReadOptions
<1>2. \A o, n : OptionsRead(o) /\ n \in 1..N => OptionsRead(After(o, n))
  BY EffectReads
<1>. HIDE DEF After, N, Reads
<1>3. 0 \in K
  <2>1. UpTo(0, [n \in 0..0 |-> InitialOptions])
    OBVIOUS
  <2>. QED  BY <2>1
<1>4. ASSUME NEW k \in Nat, k \in K PROVE k + 1 \in K
  <2>1. PICK f : UpTo(k, f)
    BY <1>4
  <2>. DEFINE g == [n \in 0..(k + 1) |-> IF n = k + 1 THEN After(f[k], k + 1) ELSE f[n]]
  <2>2. \A n \in 0..k : n \in 0..(k + 1) /\ g[n] = f[n]
    OBVIOUS
  <2>3. ASSUME NEW n \in 0..(k + 1) PROVE g[n] = IF n = 0 THEN InitialOptions ELSE After(g[n - 1], n)
    <3>1. CASE n = k + 1
      <4>1. g[n] = After(f[k], n) /\ n - 1 = k /\ n # 0 /\ k \in 0..k
        BY <3>1
      <4>2. g[n - 1] = f[k]
        BY <2>2, <4>1
      <4>. HIDE DEF g
      <4>. QED  BY <4>1, <4>2
    <3>2. CASE n # k + 1
      <4>1. n \in 0..k /\ g[n] = f[n]
        BY <3>2
      <4>2. f[n] = IF n = 0 THEN InitialOptions ELSE After(f[n - 1], n)
        BY <2>1, <4>1
      <4>3. n # 0 => n - 1 \in 0..k
        BY <4>1
      <4>4. n # 0 => g[n - 1] = f[n - 1]
        BY <2>2, <4>3
      <4>. HIDE DEF g, UpTo
      <4>. QED  BY <4>1, <4>2, <4>4
    <3>. QED  BY <3>1, <3>2
  <2>4. g = [n \in 0..(k + 1) |-> g[n]]
    OBVIOUS
  <2>. HIDE DEF g
  <2>5. UpTo(k + 1, g)
    BY <2>3, <2>4
  <2>. QED  BY <2>5
<1>5. \E f : UpTo(N, f)
  <2>. HIDE DEF K, UpTo
  <2>1. N \in K
    BY <1>0, <1>3, <1>4, NatSetInduction
  <2>. QED  BY <2>1 DEF K
<1>6. PICK f : f = (CHOOSE g : Reads(g)) /\ UpTo(N, f)
  <2>. HIDE DEF UpTo
  <2>. QED  BY <1>1, <1>5
<1>7. \A n \in 0..N : f[n] = IF n = 0 THEN InitialOptions ELSE After(f[n - 1], n)
  BY <1>6
<1>. HIDE DEF K
<1>. DEFINE W == {n \in Nat : n <= N => OptionsRead(f[n])}
<1>8. N \in W
  <2>1. 0 \in W
    <3>1. OptionsRead(InitialOptions)
      BY EmptyIsSequence DEF OptionsRead, InitialOptions, IsPath, Path, NoPath
    <3>. QED  BY <1>0, <1>7, <3>1
  <2>2. ASSUME NEW n \in Nat, n \in W PROVE n + 1 \in W
    <3>. SUFFICES ASSUME n + 1 <= N PROVE OptionsRead(f[n + 1])
      OBVIOUS
    <3>1. n + 1 \in 1..N /\ n + 1 \in 0..N /\ (n + 1) - 1 = n /\ n + 1 # 0 /\ OptionsRead(f[n])
      BY <1>0, <2>2
    <3>. QED  BY <1>2, <1>7, <3>1
  <2>. HIDE DEF W
  <2>. QED  BY <1>0, <2>1, <2>2, NatSetInduction
<1>. QED  BY <1>0, <1>1, <1>6, <1>8

(* What run() is handed: what was refused ends at once, and what is not has *)
(* an input, and links if it asks for what only a linked program can use.   *)
OptionsWell ==
  /\ OptionsRead(options)
  /\ options.ok => options.inputs # << >> /\ (options.clean # "no" => options.run)

LEMMA ParsedWell ==
  ASSUME NEW words \in CommandLines, options = ParseOptions(words)
  PROVE  OptionsWell
<1>. DEFINE o == ReadOptions(words)
<1>1. \A n \in 1..Len(words) : NamesPaths(words[n])
  BY CommandLinesAssumption DEF NamesPaths
<1>2. OptionsRead(o)
  BY <1>1, CommandLinesAssumption, ReadsOptions
<1>3. \/ options = Refused(o)
      \/ options = o /\ (o.ok => o.inputs # << >> /\ (o.clean # "no" => o.run))
  BY DEF ParseOptions, NeedsRun
<1>. HIDE DEF o
<1>4. Refused(o) = [o EXCEPT !["ok"] = FALSE] /\ "ok" \in DOMAIN o
  BY <1>2, OptionFields DEF Refused, OptionsRead
<1>5. CASE options = Refused(o)
  <2>1. DOMAIN options = DOMAIN o /\ options.ok = FALSE /\ \A field \in DOMAIN o \ {"ok"} : options[field] = o[field]
    BY <1>4, <1>5, Changed
  <2>2. options.clean = o.clean /\ options.stop = o.stop /\ options.inputs = o.inputs /\ options.decls = o.decls
        /\ options.output = o.output /\ options.emitDecls = o.emitDecls
    BY <1>2, <2>1, OptionFields DEF OptionsRead
  <2>. QED  BY <1>2, <2>1, <2>2 DEF OptionsWell, OptionsRead
<1>6. CASE options = o /\ (o.ok => o.inputs # << >> /\ (o.clean # "no" => o.run))
  BY <1>2, <1>6 DEF OptionsWell
<1>. QED  BY <1>3, <1>5, <1>6

(* The inputs of a kind are those of the command line, in order. *)
LEMMA InputsOfAKind ==
  ASSUME OptionsWell, NEW kind
  PROVE  IsSequence(InputsOf(kind)) /\ Range(InputsOf(kind)) = {p \in Range(options.inputs) : KindOf(p) = kind}
<1>. DEFINE inputs == options.inputs
            N == Len(inputs)
            S == Seq(Range(inputs))
            Takes(n, s) == IF KindOf(inputs[n]) = kind THEN Append(s, inputs[n]) ELSE s
            Selects(f) == f = [n \in 0..N |-> IF n = 0 THEN << >> ELSE Takes(n, f[n - 1])]
            step == [x \in (1..N) \X S |-> Takes(x[1], x[2])]
<1>0. N \in Nat /\ DOMAIN inputs = 1..N /\ \A n \in 1..N : inputs[n] \in Range(inputs)
  BY SequenceFacts DEF OptionsWell, OptionsRead
<1>1. InputsOf(kind) = (CHOOSE f : Selects(f))[N]
  BY DEF InputsOf
<1>2. \E f : Selects(f)
  <2>1. << >> \in S
    OBVIOUS
  <2>2. \A n \in 1..N, s \in S : Takes(n, s) \in S
    <3>1. \A R : \A s \in Seq(R), x \in R : Append(s, x) \in Seq(R)
      OBVIOUS
    <3>2. \A n \in 1..N, s \in S : Append(s, inputs[n]) \in S
      <4>. HIDE DEF inputs, N
      <4>. QED  BY <1>0, <3>1
    <3>. HIDE DEF S
    <3>. QED  BY <3>2
  <2>. HIDE DEF Takes, S, N, inputs
  <2>3. \A n \in 1..N, s \in S : step[<<n, s>>] = Takes(n, s)
    OBVIOUS
  <2>4. PICK f : RunsBy(f, N, S, << >>, step)
    <3>1. \A x \in (1..N) \X S : Takes(x[1], x[2]) \in S
      BY <2>2
    <3>2. step \in [(1..N) \X S -> S]
      BY <3>1
    <3>. HIDE DEF step
    <3>. QED  BY <1>0, <2>1, <3>2, RunsThrough
  <2>. USE DEF RunsBy
  <2>. HIDE DEF step
  <2>5. \A n \in 1..N : f[n] = Takes(n, f[n - 1])
    <3>1. \A n \in 1..N : n - 1 \in 0..N
      BY <1>0
    <3>2. \A n \in 1..N : f[n - 1] \in S
      BY <2>4, <3>1
    <3>. QED  BY <2>3, <2>4, <3>2
  <2>6. \A n \in 0..N : f[n] = IF n = 0 THEN << >> ELSE Takes(n, f[n - 1])
    BY <1>0, <2>4, <2>5
  <2>7. Selects(f)
    BY <2>4, <2>6
  <2>. HIDE DEF Selects
  <2>. QED  BY <2>7
<1>3. PICK f : f = (CHOOSE g : Selects(g)) /\ Selects(f)
  <2>. HIDE DEF Selects
  <2>. QED  BY <1>2
<1>4. \A n \in 0..N : f[n] = IF n = 0 THEN << >> ELSE Takes(n, f[n - 1])
  BY <1>3
<1>. DEFINE W == {n \in Nat : n <= N => IsSequence(f[n]) /\ Range(f[n]) = {inputs[m] : m \in {l \in 1..n : KindOf(inputs[l]) = kind}}}
<1>. HIDE DEF Selects, step, S, N, inputs
<1>5. N \in W
  <2>1. 0 \in W
    <3>1. 0 \in 0..N
      BY <1>0
    <3>2. f[0] = << >>
      BY <1>4, <3>1
    <3>. QED  BY <3>2, EmptyIsSequence
  <2>2. ASSUME NEW n \in Nat, n \in W PROVE n + 1 \in W
    <3>. SUFFICES ASSUME n + 1 <= N
                  PROVE  IsSequence(f[n + 1]) /\ Range(f[n + 1]) = {inputs[m] : m \in {l \in 1..(n + 1) : KindOf(inputs[l]) = kind}}
      OBVIOUS
    <3>1. n + 1 \in 0..N /\ n + 1 # 0 /\ (n + 1) - 1 = n
      BY <1>0
    <3>2. f[n + 1] = Takes(n + 1, f[n])
      BY <1>4, <3>1
    <3>3. IsSequence(f[n]) /\ Range(f[n]) = {inputs[m] : m \in {l \in 1..n : KindOf(inputs[l]) = kind}}
      BY <1>0, <2>2
    <3>4. 1..(n + 1) = 1..n \cup {n + 1}
      OBVIOUS
    <3>5. CASE KindOf(inputs[n + 1]) = kind
      <4>1. f[n + 1] = Append(f[n], inputs[n + 1])
        BY <3>2, <3>5
      <4>2. IsSequence(f[n + 1]) /\ Range(f[n + 1]) = Range(f[n]) \cup {inputs[n + 1]}
        BY <3>3, <4>1, Appended
      <4>3. {l \in 1..(n + 1) : KindOf(inputs[l]) = kind} = {l \in 1..n : KindOf(inputs[l]) = kind} \cup {n + 1}
        BY <3>4, <3>5
      <4>. QED  BY <3>3, <4>2, <4>3
    <3>6. CASE KindOf(inputs[n + 1]) # kind
      <4>1. f[n + 1] = f[n]
        BY <3>2, <3>6
      <4>2. {l \in 1..(n + 1) : KindOf(inputs[l]) = kind} = {l \in 1..n : KindOf(inputs[l]) = kind}
        BY <3>4, <3>6
      <4>. QED  BY <3>3, <4>1, <4>2
    <3>. QED  BY <3>5, <3>6
  <2>. HIDE DEF W
  <2>. QED  BY <1>0, <2>1, <2>2, NatSetInduction
<1>6. IsSequence(f[N]) /\ Range(f[N]) = {inputs[m] : m \in {l \in 1..N : KindOf(inputs[l]) = kind}}
  BY <1>0, <1>5
<1>7. Range(inputs) = {inputs[m] : m \in 1..N}
  BY <1>0 DEF Range
<1>8. {inputs[m] : m \in {l \in 1..N : KindOf(inputs[l]) = kind}} = {p \in Range(inputs) : KindOf(p) = kind}
  BY <1>7
<1>. QED  BY <1>1, <1>3, <1>6, <1>8 DEF inputs

LEMMA InputFacts ==
  ASSUME OptionsWell
  PROVE  /\ IsSequence(cInputs) /\ IsSequence(casmInputs) /\ IsSequence(InputsOf("cobj")) /\ IsSequence(InputsOf("car"))
         /\ \A p \in Range(cInputs) : IsPath(p) /\ p \in Range(options.inputs)
         /\ \A p \in Range(casmInputs) : IsPath(p) /\ p \in Range(options.inputs) /\ p.ext = "casm"
         /\ \A p \in Range(InputsOf("cobj")) : IsPath(p) /\ p \in Range(options.inputs) /\ p.ext = "cobj"
         /\ \A p \in Range(InputsOf("car")) : IsPath(p) /\ p \in Range(options.inputs) /\ p.ext = "car"
         /\ Range(options.inputs) = Range(cInputs) \cup Range(casmInputs) \cup Range(InputsOf("cobj")) \cup Range(InputsOf("car"))
<1>1. \A p \in Range(options.inputs) : IsPath(p)
  BY DEF OptionsWell, OptionsRead
<1>2. \A p : KindOf(p) \in {"casm", "cobj", "car", "c"} /\ (KindOf(p) # "c" => p.ext = KindOf(p))
  BY DEF KindOf
<1>3. \A kind : IsSequence(InputsOf(kind)) /\ Range(InputsOf(kind)) = {p \in Range(options.inputs) : KindOf(p) = kind}
  BY InputsOfAKind
<1>. HIDE DEF OptionsWell
<1>. QED  BY <1>1, <1>2, <1>3 DEF cInputs, casmInputs

-----------------------------------------------------------------------------
(* The state of a build: what it takes, the units it made, how far it is. *)
Starting  == {"stdlib", "libraries", "given"}
Compiling == {"analyse", "check", "lower", "generate"}
Writing   == {"declare", "publish", "write"}
Linking   == {"assemble", "link", "run", "clean"}

(* What is linked besides the units are the inputs of a kind and libraries. *)
FoundWell ==
  /\ IsSequence(objects) /\ IsSequence(archives) /\ IsSequence(decls)
  /\ \A p \in Range(objects) : IsPath(p) /\ p.ext = "cobj"
  /\ \A p \in Range(archives) : IsPath(p) /\ p.ext = "car"
  /\ \A p \in Range(decls) : IsPath(p)
  /\ Range(InputsOf("cobj")) \subseteq Range(objects) /\ Range(InputsOf("car")) \subseteq Range(archives)

(* A unit of each C input that was compiled, in order, unless the build     *)
(* stops early: then there are none.                                        *)
UnitsWell ==
  /\ IsSequence(units) /\ Len(units) <= Len(cInputs)
  /\ \A n \in 1..Len(units) : units[n] = [source |-> cInputs[n], casm |-> CasmPathOf(cInputs[n])]
  /\ options.stop # {} \/ at \in Starting => units = << >>

(* How far the build is. *)
Progress ==
  /\ turn \in Nat /\ turn > 0
  /\ at \in Starting \cup {"preprocess", "done"} \cup Compiling \cup Writing \cup Linking
  /\ at # "done" => options.ok
  /\ at \in Compiling => turn <= Len(cInputs) /\ "-E" \notin options.stop
  /\ at \in {"lower", "generate"} => "--emit-ast" \notin options.stop
  /\ at = "generate" => options.stop = {}
  /\ at = "preprocess" => turn <= Len(cInputs) + 1
  /\ at \in Compiling \cup {"preprocess"} /\ options.stop = {} => Len(units) + 1 = turn
  /\ at \in Writing \cup Linking => options.stop = {} /\ Len(units) = Len(cInputs)
  /\ at \in Linking => options.run
  /\ at \in {"run", "clean"} => linked # << >>
  /\ at = "clean" => options.clean # "no"

(* What an end says. *)
Outcome ==
  /\ exit \in {0, 1} \cup Failures \cup ExitCodes
  /\ at = "done" /\ exit = 0 /\ options.stop = {} =>
       Len(units) = Len(cInputs) /\ (options.run => linked # << >>)

BuildInv == OptionsWell /\ FoundWell /\ UnitsWell /\ Progress /\ Outcome

-----------------------------------------------------------------------------
LEMMA BuildInit == Init => BuildInv
<1>. SUFFICES ASSUME Init PROVE BuildInv
  OBVIOUS
<1>1. OptionsWell
  BY ParsedWell DEF Init
<1>2. FoundWell
  BY <1>1, InputFacts DEF Init, FoundWell, OptionsWell, OptionsRead
<1>3. UnitsWell
  BY <1>1, InputFacts, SequenceFacts, EmptyIsSequence DEF Init, UnitsWell
<1>4. Progress /\ Outcome
  BY DEF Init, Progress, Outcome, Starting, Compiling, Writing, Linking
<1>. QED  BY <1>1, <1>2, <1>3, <1>4 DEF BuildInv

LEMMA InputsStay == ASSUME UNCHANGED options PROVE UNCHANGED <<cInputs, casmInputs>> /\ \A kind : UNCHANGED InputsOf(kind)
BY DEF cInputs, casmInputs, InputsOf

LEMMA OptionsStay == ASSUME BuildInv, UNCHANGED options PROVE OptionsWell' /\ UNCHANGED <<cInputs, casmInputs>> /\ Len(cInputs) \in Nat
<1>1. OptionsWell
  BY DEF BuildInv
<1>2. UNCHANGED <<cInputs, casmInputs>> /\ Len(cInputs) \in Nat
  BY <1>1, InputsStay, InputFacts, SequenceFacts
<1>. QED  BY <1>1, <1>2 DEF OptionsWell, OptionsRead

LEMMA FoundKept == ASSUME BuildInv, UNCHANGED <<options, found>> PROVE FoundWell'
<1>1. UNCHANGED <<InputsOf("cobj"), InputsOf("car")>>
  BY InputsStay
<1>. QED  BY <1>1 DEF BuildInv, FoundWell, found

LEMMA UnitsKept ==
  ASSUME BuildInv, UNCHANGED <<options, units>>, at' \in Starting => at \in Starting
  PROVE  UnitsWell'
<1>1. UNCHANGED <<cInputs, casmInputs>>
  BY InputsStay
<1>2. \A p : CasmPathOf(p)' = CasmPathOf(p)
  BY <1>1 DEF CasmPathOf, SingleOutput
<1>. QED  BY <1>1, <1>2 DEF BuildInv, UnitsWell

LEMMA OneMore ==
  ASSUME NEW s, IsSequence(s), NEW x, NEW t, t = s \/ t = Append(s, x)
  PROVE  IsSequence(t) /\ Range(s) \subseteq Range(t) /\ Range(t) \subseteq Range(s) \cup {x}
<1>1. CASE t = s
  BY <1>1
<1>2. CASE t = Append(s, x)
  <2>1. IsSequence(Append(s, x)) /\ Range(Append(s, x)) = Range(s) \cup {x}
    BY Appended
  <2>2. IsSequence(t) /\ Range(t) = Range(s) \cup {x}
    BY <1>2, <2>1, Zenon
  <2>. QED  BY <2>2
<1>. QED  BY <1>1, <1>2

LEMMA BuildStarts == BuildInv /\ (FindStdlib \/ FindLibrary \/ CheckGiven) => BuildInv'
<1>. SUFFICES ASSUME BuildInv, FindStdlib \/ FindLibrary \/ CheckGiven PROVE BuildInv'
  OBVIOUS
<1>1. UNCHANGED <<options, units, linked>> /\ OptionsWell' /\ Len(cInputs) \in Nat /\ UNCHANGED cInputs /\ at \in Starting
  BY OptionsStay DEF FindStdlib, FindLibrary, CheckGiven, Starting
<1>2. UnitsWell'
  BY <1>1, UnitsKept
<1>3. units = << >>
  BY <1>1 DEF BuildInv, UnitsWell
<1>4. Progress' /\ Outcome'
  <2>1. turn \in Nat /\ turn > 0 /\ options.ok /\ exit \in {0, 1} \cup Failures \cup ExitCodes
    BY <1>1 DEF BuildInv, Progress, Outcome, Starting
  <2>2. \/ at' \in Starting /\ turn' \in Nat /\ turn' > 0 /\ exit' = exit
        \/ at' = "preprocess" /\ turn' = 1 /\ exit' = exit
        \/ at' = "done" /\ turn' = turn /\ exit' = 1
    BY <2>1 DEF FindStdlib, FindLibrary, CheckGiven, GoTo, Fail, NextTurn, Starting
  <2>3. Len(units) = 0
    BY <1>3
  <2>. QED  BY <1>1, <2>1, <2>2, <2>3 DEF Progress, Outcome, Starting, Compiling, Writing, Linking
<1>5. FoundWell'
  <2>0. UNCHANGED <<InputsOf("cobj"), InputsOf("car")>> /\ FoundWell
    BY <1>1, InputsStay DEF BuildInv
  <2>1. CASE UNCHANGED <<objects, archives, decls>>
    BY <2>0, <2>1 DEF FoundWell
  <2>2. CASE ~UNCHANGED <<objects, archives, decls>>
    <3>1. PICK directory, name :
            LET library == LibraryIn(directory, name)
                beside  == WithExtension(library, "decls.casm")
            IN  /\ decls'    = IF Exists(beside) /\ ~Contains(decls, beside) THEN Append(decls, beside) ELSE decls
                /\ archives' = IF library.ext = "car" THEN Append(archives, library) ELSE archives
                /\ objects'  = IF library.ext = "car" THEN objects ELSE Append(objects, library)
      <4>1. ~FindStdlib /\ ~CheckGiven
        BY <2>2 DEF FindStdlib, CheckGiven, found
      <4>. QED  BY <2>2, <4>1 DEF FindLibrary
    <3>. DEFINE library == LibraryIn(directory, name)
                beside  == WithExtension(library, "decls.casm")
    <3>2. IsPath(library) /\ library.ext \in {"car", "cobj"} /\ IsPath(beside)
      BY DEF LibraryIn, IsPath, Path, WithExtension
    <3>3. /\ decls' \in {decls, Append(decls, beside)}
          /\ archives' = archives \/ (library.ext = "car" /\ archives' = Append(archives, library))
          /\ objects' = objects \/ (library.ext = "cobj" /\ objects' = Append(objects, library))
      BY <3>1, <3>2
    <3>. HIDE DEF library, beside
    <3>4. IsSequence(decls') /\ Range(decls') \subseteq Range(decls) \cup {beside}
      BY <2>0, <3>3, OneMore DEF FoundWell
    <3>5. IsSequence(archives') /\ Range(archives) \subseteq Range(archives') /\ \A p \in Range(archives') : IsPath(p) /\ p.ext = "car"
      <4>1. CASE archives' = archives
        BY <2>0, <4>1 DEF FoundWell
      <4>2. CASE library.ext = "car" /\ archives' = Append(archives, library)
        <5>1. IsSequence(archives') /\ Range(archives) \subseteq Range(archives') /\ Range(archives') \subseteq Range(archives) \cup {library}
          BY <2>0, <4>2, OneMore DEF FoundWell
        <5>. QED  BY <2>0, <3>2, <4>2, <5>1 DEF FoundWell
      <4>. QED  BY <3>3, <4>1, <4>2
    <3>6. IsSequence(objects') /\ Range(objects) \subseteq Range(objects') /\ \A p \in Range(objects') : IsPath(p) /\ p.ext = "cobj"
      <4>1. CASE objects' = objects
        BY <2>0, <4>1 DEF FoundWell
      <4>2. CASE library.ext = "cobj" /\ objects' = Append(objects, library)
        <5>1. IsSequence(objects') /\ Range(objects) \subseteq Range(objects') /\ Range(objects') \subseteq Range(objects) \cup {library}
          BY ZenonT(60), <2>0, <4>2, OneMore DEF FoundWell
        <5>. QED  BY <2>0, <3>2, <4>2, <5>1 DEF FoundWell
      <4>. QED  BY <3>3, <4>1, <4>2
    <3>. QED  BY <2>0, <3>2, <3>4, <3>5, <3>6 DEF FoundWell
  <2>. QED  BY <2>1, <2>2
<1>. QED  BY <1>1, <1>2, <1>4, <1>5 DEF BuildInv

LEMMA BuildCompiles == BuildInv /\ (Preprocess \/ Parse \/ Check \/ Lower \/ EndCompilation) => BuildInv'
<1>. SUFFICES ASSUME BuildInv, Preprocess \/ Parse \/ Check \/ Lower \/ EndCompilation PROVE BuildInv'
  OBVIOUS
<1>1. UNCHANGED <<options, found, units, linked>> /\ at \notin Starting
  BY DEF Preprocess, Parse, Check, Lower, EndCompilation, Starting
<1>2. OptionsWell' /\ FoundWell' /\ Len(cInputs) \in Nat /\ UNCHANGED cInputs
  BY <1>1, FoundKept, OptionsStay
<1>3. at' \notin Starting
  BY DEF Preprocess, Parse, Check, Lower, EndCompilation, GoTo, Fail, NextTurn, Starting
<1>4. UnitsWell'
  BY <1>1, <1>3, UnitsKept
<1>5. turn \in Nat /\ turn > 0 /\ Len(units) \in Nat /\ Len(units) <= Len(cInputs) /\ exit \in {0, 1} \cup Failures \cup ExitCodes
      /\ options.ok /\ options.stop \subseteq {"--emit-ast", "--emit-ir", "-E"}
      /\ (options.stop # {} => units = << >>)
  <2>1. at # "done" /\ IsSequence(units)
    BY DEF Preprocess, Parse, Check, Lower, EndCompilation, BuildInv, UnitsWell
  <2>. QED  BY <2>1, SequenceFacts DEF BuildInv, Progress, Outcome, UnitsWell, OptionsWell, OptionsRead
<1>6. Progress' /\ Outcome'
  <2>1. CASE Preprocess
    <3>1. at = "preprocess" /\ turn <= Len(cInputs)
      BY <2>1 DEF Preprocess
    <3>2. \/ at' = "done" /\ turn' = turn /\ exit' = 1
          \/ at' = "preprocess" /\ turn' = turn + 1 /\ exit' = exit /\ options.stop # {}
          \/ at' = "analyse" /\ turn' = turn /\ exit' = exit /\ "-E" \notin options.stop
      BY <2>1 DEF Preprocess, Fail, NextTurn
    <3>. QED  BY <1>1, <1>2, <1>5, <3>1, <3>2 DEF BuildInv, Progress, Outcome, Starting, Compiling, Writing, Linking
  <2>2. CASE Parse
    <3>1. \/ at' = "done" /\ turn' = turn /\ exit' = 1
          \/ at' = "check" /\ turn' = turn /\ exit' = exit
      BY <2>2 DEF Parse, Fail
    <3>. QED  BY <1>1, <1>2, <1>5, <2>2, <3>1 DEF Parse, BuildInv, Progress, Outcome, Starting, Compiling, Writing, Linking
  <2>3. CASE Check
    <3>1. \/ at' = "done" /\ turn' = turn /\ exit' = 1
          \/ at' = "preprocess" /\ turn' = turn + 1 /\ exit' = exit /\ options.stop # {}
          \/ at' = "lower" /\ turn' = turn /\ exit' = exit /\ "--emit-ast" \notin options.stop
      BY <2>3 DEF Check, Fail
    <3>. QED  BY <1>1, <1>2, <1>5, <2>3, <3>1 DEF Check, BuildInv, Progress, Outcome, Starting, Compiling, Writing, Linking
  <2>4. CASE Lower
    <3>1. \/ at' = "done" /\ turn' = turn /\ exit' = 1
          \/ at' = "preprocess" /\ turn' = turn + 1 /\ exit' = exit /\ options.stop # {}
          \/ at' = "generate" /\ turn' = turn /\ exit' = exit /\ "--emit-ir" \notin options.stop
      BY <2>4 DEF Lower, Fail
    <3>2. at = "lower" /\ "-E" \notin options.stop /\ "--emit-ast" \notin options.stop
      BY <2>4 DEF Lower, BuildInv, Progress, Compiling
    <3>3. "--emit-ir" \notin options.stop => options.stop = {}
      BY <1>5, <3>2
    <3>. QED  BY <1>1, <1>2, <1>5, <3>1, <3>2, <3>3 DEF BuildInv, Progress, Outcome, Starting, Compiling, Writing, Linking
  <2>5. CASE EndCompilation
    <3>1. \/ at' = "declare" /\ turn' = 1 /\ exit' = exit /\ options.stop = {}
          \/ at' = "done" /\ turn' = turn /\ exit' \in {0, 1} /\ options.stop # {}
      BY <2>5 DEF EndCompilation, GoTo, Fail
    <3>2. at = "preprocess" /\ turn = Len(cInputs) + 1
      BY <1>2, <1>5, <2>5 DEF EndCompilation, BuildInv, Progress
    <3>. QED  BY <1>1, <1>2, <1>5, <3>1, <3>2 DEF BuildInv, Progress, Outcome, Starting, Compiling, Writing, Linking
  <2>. QED  BY <2>1, <2>2, <2>3, <2>4, <2>5
<1>. QED  BY <1>2, <1>4, <1>6 DEF BuildInv

LEMMA FunctionIsSequence ==
  ASSUME NEW k \in Nat, NEW f, f = [n \in 1..k |-> f[n]]
  PROVE  IsSequence(f) /\ Len(f) = k
<1>1. \A n \in 1..k : f[n] \in Range(f)
  BY DEF Range
<1>2. f \in Seq(Range(f))
  BY <1>1, IsASeq
<1>. QED  BY <1>2 DEF IsSequence

LEMMA Joined ==
  ASSUME NEW s, IsSequence(s), NEW t, IsSequence(t)
  PROVE  /\ IsSequence(s \o t) /\ Len(s \o t) = Len(s) + Len(t)
         /\ \A n \in 1..Len(s) : (s \o t)[n] = s[n]
         /\ \A n \in 1..Len(t) : (s \o t)[Len(s) + n] = t[n]
         /\ Range(s \o t) = Range(s) \cup Range(t)
<1>. DEFINE S == Range(s) \cup Range(t)
            u == s \o t
<1>1. s \in Seq(S) /\ t \in Seq(S)
  <2>1. s \in Seq(Range(s)) /\ Range(s) \subseteq S /\ t \in Seq(Range(t)) /\ Range(t) \subseteq S
    BY DEF IsSequence
  <2>. HIDE DEF S
  <2>. QED  BY <2>1
<1>2. /\ u \in Seq(S) /\ Len(u) = Len(s) + Len(t)
      /\ \A n \in 1..Len(s) : u[n] = s[n]
      /\ \A n \in 1..Len(t) : u[Len(s) + n] = t[n]
  <2>. HIDE DEF S
  <2>. QED  BY <1>1
<1>3. IsSequence(u) /\ Range(u) \subseteq S
  <2>. HIDE DEF S, u
  <2>. QED  BY <1>2, SequenceOf
<1>4. ASSUME NEW y \in S PROVE y \in Range(u)
  <2>1. Len(s) \in Nat /\ Len(t) \in Nat /\ DOMAIN u = 1..(Len(s) + Len(t)) /\ DOMAIN s = 1..Len(s) /\ DOMAIN t = 1..Len(t)
    BY <1>1, <1>2
  <2>2. CASE y \in Range(s)
    <3>1. PICK n \in 1..Len(s) : y = s[n]
      BY <2>1, <2>2 DEF Range
    <3>2. n \in DOMAIN u /\ u[n] = y
      BY <1>2, <2>1, <3>1
    <3>. HIDE DEF u
    <3>. QED  BY <3>2 DEF Range
  <2>3. CASE y \in Range(t)
    <3>1. PICK n \in 1..Len(t) : y = t[n]
      BY <2>1, <2>3 DEF Range
    <3>2. Len(s) + n \in DOMAIN u /\ u[Len(s) + n] = y
      BY <1>2, <2>1, <3>1
    <3>. HIDE DEF u
    <3>. QED  BY <3>2 DEF Range
  <2>. QED  BY <2>2, <2>3
<1>. QED  BY <1>2, <1>3, <1>4

(* What is assembled: a file of each unit, then those that were given. *)
LEMMA CasmFilesAre ==
  ASSUME BuildInv
  PROVE  /\ IsSequence(CasmFiles) /\ Len(CasmFiles) = Len(units) + Len(casmInputs)
         /\ \A n \in 1..Len(units) : CasmFiles[n] = units[n].casm
         /\ \A n \in 1..Len(casmInputs) : CasmFiles[Len(units) + n] = casmInputs[n]
<1>. DEFINE made == [n \in DOMAIN units |-> units[n].casm]
<1>1. IsSequence(units) /\ IsSequence(casmInputs)
  BY InputFacts DEF BuildInv, UnitsWell
<1>2. DOMAIN units = 1..Len(units) /\ Len(units) \in Nat
  BY <1>1, SequenceFacts
<1>3. made = [n \in 1..Len(units) |-> made[n]] /\ \A n \in 1..Len(units) : made[n] = units[n].casm
  BY <1>2
<1>. HIDE DEF made
<1>4. IsSequence(made) /\ Len(made) = Len(units)
  BY <1>2, <1>3, FunctionIsSequence
<1>5. CasmFiles = made \o casmInputs
  BY DEF CasmFiles, made
<1>. QED  BY <1>1, <1>3, <1>4, <1>5, Joined

(* What is linked: an object of each, then what was given. *)
LEMMA LinkArgumentsAre ==
  ASSUME BuildInv
  PROVE  /\ IsSequence(LinkArguments) /\ IsSequence(objects \o archives)
         /\ Len(LinkArguments) = Len(CasmFiles) + Len(objects \o archives)
         /\ Len(objects \o archives) = Len(objects) + Len(archives)
         /\ Range(objects \o archives) = Range(objects) \cup Range(archives)
         /\ \A n \in 1..Len(CasmFiles) : LinkArguments[n] = ObjectOf(CasmFiles[n])
         /\ \A n \in 1..Len(objects \o archives) : LinkArguments[Len(CasmFiles) + n] = (objects \o archives)[n]
<1>. DEFINE made == [n \in DOMAIN CasmFiles |-> ObjectOf(CasmFiles[n])]
<1>1. IsSequence(CasmFiles)
  BY CasmFilesAre
<1>2. IsSequence(objects) /\ IsSequence(archives)
  BY DEF BuildInv, FoundWell
<1>3. DOMAIN CasmFiles = 1..Len(CasmFiles) /\ Len(CasmFiles) \in Nat
  BY <1>1, SequenceFacts
<1>4. made = [n \in 1..Len(CasmFiles) |-> made[n]] /\ \A n \in 1..Len(CasmFiles) : made[n] = ObjectOf(CasmFiles[n])
  BY <1>3
<1>. HIDE DEF made
<1>5. IsSequence(made) /\ Len(made) = Len(CasmFiles)
  BY <1>3, <1>4, FunctionIsSequence
<1>. DEFINE given == objects \o archives
<1>6. /\ IsSequence(given) /\ Len(given) = Len(objects) + Len(archives)
      /\ Range(given) = Range(objects) \cup Range(archives)
  BY <1>2, Joined
<1>7. LinkArguments = made \o given
  <2>1. LinkArguments = (made \o objects) \o archives
    BY DEF LinkArguments, made
  <2>. DEFINE S == Range(made) \cup Range(objects) \cup Range(archives)
  <2>2. made \in Seq(Range(made)) /\ objects \in Seq(Range(objects)) /\ archives \in Seq(Range(archives))
        /\ Range(made) \subseteq S /\ Range(objects) \subseteq S /\ Range(archives) \subseteq S
    BY <1>2, <1>5 DEF IsSequence
  <2>. HIDE DEF S
  <2>3. made \in Seq(S) /\ objects \in Seq(S) /\ archives \in Seq(S)
    BY <2>2
  <2>. QED  BY <2>1, <2>3
<1>. HIDE DEF given
<1>8. /\ IsSequence(made \o given) /\ Len(made \o given) = Len(made) + Len(given)
      /\ \A n \in 1..Len(made) : (made \o given)[n] = made[n]
      /\ \A n \in 1..Len(given) : (made \o given)[Len(made) + n] = given[n]
  <2>1. \A s, t : IsSequence(s) /\ IsSequence(t) =>
           /\ IsSequence(s \o t) /\ Len(s \o t) = Len(s) + Len(t)
           /\ \A n \in 1..Len(s) : (s \o t)[n] = s[n]
           /\ \A n \in 1..Len(t) : (s \o t)[Len(s) + n] = t[n]
    BY Joined
  <2>2. IsSequence(made) /\ IsSequence(given)
    BY <1>5, <1>6
  <2>. QED  BY <2>1, <2>2
<1>9. /\ IsSequence(LinkArguments) /\ IsSequence(given)
      /\ Len(LinkArguments) = Len(CasmFiles) + Len(given) /\ Len(given) = Len(objects) + Len(archives)
      /\ Range(given) = Range(objects) \cup Range(archives)
      /\ \A n \in 1..Len(CasmFiles) : LinkArguments[n] = ObjectOf(CasmFiles[n])
      /\ \A n \in 1..Len(given) : LinkArguments[Len(CasmFiles) + n] = given[n]
  BY <1>4, <1>5, <1>6, <1>7, <1>8
<1>. QED  BY <1>9 DEF given

LEMMA BuildGenerates == BuildInv /\ Generate => BuildInv'
<1>. SUFFICES ASSUME BuildInv, Generate PROVE BuildInv'
  OBVIOUS
<1>1. UNCHANGED <<options, found, linked>> /\ at = "generate"
  BY DEF Generate
<1>2. OptionsWell' /\ FoundWell' /\ Len(cInputs) \in Nat /\ UNCHANGED <<cInputs, casmInputs>>
  BY <1>1, FoundKept, OptionsStay
<1>3. /\ turn \in Nat /\ turn > 0 /\ options.ok /\ options.stop = {} /\ turn <= Len(cInputs)
      /\ Len(units) + 1 = turn /\ exit \in {0, 1} \cup Failures \cup ExitCodes /\ IsSequence(units)
  BY <1>1 DEF BuildInv, Progress, Outcome, UnitsWell, Compiling
<1>4. CASE Fail(1) /\ UNCHANGED units
  <2>1. UnitsWell'
    BY <1>1, <1>4, UnitsKept DEF Fail, Starting
  <2>2. Progress' /\ Outcome'
    BY <1>1, <1>3, <1>4 DEF Progress, Outcome, Fail, Starting, Compiling, Writing, Linking
  <2>. QED  BY <1>2, <2>1, <2>2 DEF BuildInv
<1>5. CASE /\ at' = "preprocess" /\ turn' = turn + 1 /\ UNCHANGED exit
           /\ units' = Append(units, [source |-> cInputs[turn], casm |-> CasmPathOf(cInputs[turn])])
  <2>. DEFINE unit == [source |-> cInputs[turn], casm |-> CasmPathOf(cInputs[turn])]
  <2>1. /\ IsSequence(Append(units, unit)) /\ Len(Append(units, unit)) = Len(units) + 1
        /\ \A n \in 1..Len(units) : Append(units, unit)[n] = units[n]
        /\ Append(units, unit)[Len(units) + 1] = unit
    <3>. HIDE DEF unit
    <3>. QED  BY <1>3, Appended
  <2>2. \A p : CasmPathOf(p)' = CasmPathOf(p)
    BY <1>1, <1>2 DEF CasmPathOf, SingleOutput
  <2>3. /\ IsSequence(units') /\ Len(units') = turn
        /\ \A n \in 1..Len(units) : units'[n] = units[n]
        /\ units'[turn] = unit
    <3>. HIDE DEF unit
    <3>1. units' = Append(units, unit)
      BY <1>5 DEF unit
    <3>. QED  BY <1>3, <2>1, <3>1
  <2>4. ASSUME NEW n \in 1..Len(units') PROVE units'[n] = [source |-> cInputs[n], casm |-> CasmPathOf(cInputs[n])]'
    <3>1. CASE n = turn
      BY <1>2, <2>2, <2>3, <3>1
    <3>2. CASE n # turn
      <4>1. n \in 1..Len(units)
        BY <1>3, <2>3, <3>2
      <4>2. units[n] = [source |-> cInputs[n], casm |-> CasmPathOf(cInputs[n])]
        BY <4>1 DEF BuildInv, UnitsWell
      <4>. QED  BY <1>2, <2>2, <2>3, <4>1, <4>2
    <3>. QED  BY <3>1, <3>2
  <2>5. UnitsWell'
    BY <1>1, <1>2, <1>3, <1>5, <2>3, <2>4 DEF UnitsWell, Starting
  <2>6. Progress' /\ Outcome'
    BY <1>1, <1>2, <1>3, <1>5, <2>3 DEF Progress, Outcome, Starting, Compiling, Writing, Linking
  <2>. QED  BY <1>2, <2>5, <2>6 DEF BuildInv
<1>. QED  BY <1>4, <1>5 DEF Generate

LEMMA SomethingLinks == ASSUME BuildInv, Len(units) = Len(cInputs), options.ok PROVE LinkArguments # << >>
<1>1. /\ Len(units) \in Nat /\ Len(casmInputs) \in Nat /\ Len(objects) \in Nat /\ Len(archives) \in Nat
      /\ IsSequence(cInputs) /\ IsSequence(casmInputs) /\ IsSequence(objects) /\ IsSequence(archives)
  BY InputFacts, SequenceFacts DEF BuildInv, UnitsWell, FoundWell
<1>2. PICK p : p \in Range(options.inputs)
  <2>1. IsSequence(options.inputs) /\ options.inputs # << >>
    BY DEF BuildInv, OptionsWell, OptionsRead
  <2>2. Len(options.inputs) \in Nat /\ Len(options.inputs) # 0
    BY <2>1 DEF IsSequence
  <2>3. 1 \in 1..Len(options.inputs)
    BY <2>2
  <2>. QED  BY <2>1, <2>3, SequenceFacts
<1>3. p \in Range(cInputs) \cup Range(casmInputs) \cup Range(objects) \cup Range(archives)
  BY <1>2, InputFacts DEF BuildInv, FoundWell
<1>4. Len(cInputs) + Len(casmInputs) + Len(objects) + Len(archives) > 0
  <2>1. \A s : IsSequence(s) /\ p \in Range(s) => Len(s) > 0
    <3>. SUFFICES ASSUME NEW s, IsSequence(s), p \in Range(s) PROVE Len(s) > 0
      OBVIOUS
    <3>1. PICK n \in 1..Len(s) : p = s[n]
      BY SequenceFacts
    <3>2. Len(s) \in Nat
      BY SequenceFacts
    <3>. QED  BY <3>1, <3>2
  <2>2. Len(cInputs) \in Nat
    BY <1>1, SequenceFacts
  <2>. QED  BY <1>1, <1>3, <2>1, <2>2
<1>5. Len(LinkArguments) > 0
  <2>1. Len(LinkArguments) = Len(CasmFiles) + (Len(objects) + Len(archives)) /\ Len(CasmFiles) = Len(units) + Len(casmInputs)
    BY CasmFilesAre, LinkArgumentsAre
  <2>. QED  BY <1>1, <1>4, <2>1
<1>. QED  BY <1>5

LEMMA BuildFinishes == BuildInv /\ (Declare \/ Publish \/ WriteUnit \/ Assemble \/ Link \/ RunProgram \/ Clean) => BuildInv'
<1>. SUFFICES ASSUME BuildInv, Declare \/ Publish \/ WriteUnit \/ Assemble \/ Link \/ RunProgram \/ Clean PROVE BuildInv'
  OBVIOUS
<1>1. UNCHANGED <<options, found, units>> /\ at \in Writing \cup Linking
  BY DEF Declare, Publish, WriteUnit, Assemble, Link, RunProgram, Clean, Writing, Linking
<1>2. at' \in {"publish", "write", "done"} \cup Linking
  <2>1. CASE Declare \/ Publish \/ WriteUnit
    BY <2>1 DEF Declare, Publish, WriteUnit, Writes, GoTo, Fail, NextTurn, Linking
  <2>2. CASE Assemble \/ Link \/ RunProgram \/ Clean
    BY <2>2 DEF Assemble, Link, RunProgram, Clean, Subprocess, GoTo, Fail, NextTurn, Linking
  <2>. QED  BY <2>1, <2>2
<1>3. OptionsWell' /\ FoundWell' /\ UNCHANGED cInputs /\ UnitsWell'
  BY <1>1, <1>2, FoundKept, OptionsStay, UnitsKept DEF Starting, Linking
<1>4. /\ turn \in Nat /\ turn > 0 /\ options.ok /\ options.stop = {} /\ Len(units) = Len(cInputs)
      /\ exit \in {0, 1} \cup Failures \cup ExitCodes
      /\ at \in Linking => options.run
  BY <1>1 DEF BuildInv, Progress, Outcome, Starting, Compiling, Writing, Linking
<1>5. Progress' /\ Outcome'
  <2>1. CASE Declare \/ Publish \/ WriteUnit
    <3>1. \/ at' \in {"publish", "write"} /\ turn' \in Nat /\ turn' > 0 /\ exit' = exit
          \/ at' = "assemble" /\ turn' \in Nat /\ turn' > 0 /\ exit' = exit /\ options.run
          \/ at' = "done" /\ turn' = turn /\ (exit' = 1 \/ (exit' = 0 /\ ~options.run))
      BY <1>4, <2>1 DEF Declare, Publish, WriteUnit, Writes, GoTo, Fail, NextTurn
    <3>. QED  BY <1>1, <1>3, <1>4, <3>1 DEF Progress, Outcome, Starting, Compiling, Writing, Linking
  <2>2. CASE Assemble
    <3>1. \/ at' \in {"assemble", "link"} /\ turn' \in Nat /\ turn' > 0 /\ exit' = exit
          \/ at' = "done" /\ turn' = turn /\ exit' \in {1, 2}
      BY <1>4, <2>2 DEF Assemble, Subprocess, GoTo, Fail, NextTurn, Failures
    <3>. QED  BY <1>1, <1>3, <1>4, <2>2, <3>1 DEF Assemble, Progress, Outcome, Failures, Starting, Compiling, Writing, Linking
  <2>3. CASE Link
    <3>. DEFINE contents == [n \in DOMAIN LinkArguments |-> files[LinkArguments[n]]]
    <3>1. \/ at' = "run" /\ turn' = 1 /\ exit' = exit /\ linked' = contents
          \/ at' = "done" /\ turn' = turn /\ exit' \in {1, 2}
      BY <1>4, <2>3 DEF Link, Subprocess, GoTo, Fail, Failures
    <3>2. contents # << >>
      <4>1. LinkArguments # << >> /\ IsSequence(LinkArguments)
        BY <1>4, SomethingLinks, LinkArgumentsAre
      <4>2. DOMAIN LinkArguments # {}
        BY <4>1 DEF IsSequence
      <4>3. DOMAIN contents # DOMAIN << >>
        BY <4>2
      <4>. QED  BY <4>3
    <3>. HIDE DEF contents
    <3>. QED  BY <1>1, <1>3, <1>4, <2>3, <3>1, <3>2 DEF Link, Progress, Outcome, Failures, Starting, Compiling, Writing, Linking
  <2>4. CASE RunProgram
    <3>1. \/ at' = "clean" /\ turn' = 1 /\ exit' = exit /\ options.clean # "no"
          \/ at' = "done" /\ turn' = turn /\ exit' \in {1} \cup ExitCodes
      BY <1>4, <2>4 DEF RunProgram, GoTo, Fail
    <3>2. linked # << >> /\ linked' = linked
      BY <2>4 DEF RunProgram, BuildInv, Progress
    <3>. QED  BY <1>1, <1>3, <1>4, <2>4, <3>1, <3>2 DEF RunProgram, Progress, Outcome, Starting, Compiling, Writing, Linking
  <2>5. CASE Clean
    <3>1. at' = "done" /\ turn' = turn /\ exit' = 0
      BY <1>4, <2>5 DEF Clean, Fail
    <3>2. linked # << >> /\ linked' = linked
      BY <2>5 DEF Clean, BuildInv, Progress
    <3>. QED  BY <1>1, <1>3, <1>4, <2>5, <3>1, <3>2 DEF Clean, Progress, Outcome, Starting, Compiling, Writing, Linking
  <2>. QED  BY <2>1, <2>2, <2>3, <2>4, <2>5
<1>. QED  BY <1>3, <1>5 DEF BuildInv

LEMMA BuildNext == BuildInv /\ [Next]_vars => BuildInv'
<1>1. ASSUME BuildInv, UNCHANGED vars PROVE BuildInv'
  <2>1. UNCHANGED <<options, found, units, at, turn, linked, exit>>
    BY <1>1 DEF vars
  <2>2. OptionsWell' /\ FoundWell' /\ UnitsWell' /\ UNCHANGED cInputs
    BY <1>1, <2>1, FoundKept, UnitsKept, OptionsStay
  <2>. QED  BY <1>1, <2>1, <2>2 DEF BuildInv, Progress, Outcome
<1>. QED  BY <1>1, BuildStarts, BuildCompiles, BuildGenerates, BuildFinishes DEF Next, Returned

(* Whose the policy and the line map are, and what was counted. *)
RangeInv ==
  /\ policy \in 0..Len(cInputs) /\ lineMap \in 0..Len(cInputs)
  /\ errors <= Len(diagnostics)

LEMMA ReportsCountsWhatItRecords ==
  ASSUME ErrorsCounted, errors <= Len(diagnostics), turn \in Nat, NEW where \in {"original", "expanded"}, Reports(where)
  PROVE  errors' <= Len(diagnostics')
<1>1. CASE UNCHANGED <<diagnostics, errors>>
  BY <1>1
<1>2. ASSUME NEW severity \in {"warning", "error"}, NEW action,
             diagnostics' = diagnostics \o Recorded([unit |-> turn, severity |-> severity, where |-> where], action),
             errors' = errors + Counted(Recorded([unit |-> turn, severity |-> severity, where |-> where], action), action)
      PROVE  errors' <= Len(diagnostics')
  <2>. DEFINE said == Recorded([unit |-> turn, severity |-> severity, where |-> where], action)
  <2>1. [unit |-> turn, severity |-> severity, where |-> where] \in Diagnostic
    BY DEF Diagnostic
  <2>2. said \in Seq(Diagnostic) /\ Len(said) \in {0, 1}
    BY <2>1, RecordedIsDiagnostic
  <2>3. diagnostics' = diagnostics \o said /\ errors' = errors + Counted(said, action)
    BY <1>2
  <2>. HIDE DEF said
  <2>4. Counted(said, action) \in {0, 1} /\ (said = << >> => Counted(said, action) = 0)
    BY DEF Counted
  <2>5. Len(diagnostics') = Len(diagnostics) + Len(said) /\ (Len(said) = 0 => said = << >>)
    BY <2>2, <2>3 DEF ErrorsCounted
  <2>. QED  BY <2>2, <2>3, <2>4, <2>5 DEF ErrorsCounted
<1>. QED  BY <1>1, <1>2 DEF Reports

LEMMA RangeInit == Init => RangeInv
<1>. SUFFICES ASSUME Init PROVE RangeInv
  OBVIOUS
<1>1. Len(cInputs) \in Nat
  BY BuildInit, InputFacts, SequenceFacts DEF BuildInv
<1>. QED  BY <1>1 DEF Init, RangeInv

LEMMA RangeNext == BuildInv /\ ErrorInv /\ RangeInv /\ [Next]_vars => RangeInv'
<1>. SUFFICES ASSUME BuildInv, ErrorInv, RangeInv, [Next]_vars PROVE RangeInv'
  OBVIOUS
<1>1. Len(cInputs) \in Nat /\ UNCHANGED cInputs
  <2>1. UNCHANGED options
    BY DEF Next, vars, FindStdlib, FindLibrary, CheckGiven, Preprocess, Parse, Check, Lower, Generate, EndCompilation,
           Declare, Publish, WriteUnit, Assemble, Link, RunProgram, Clean, Returned
  <2>. QED  BY <2>1, OptionsStay
<1>2. CASE UNCHANGED reporting
  BY <1>1, <1>2 DEF RangeInv, reporting
<1>3. CASE Preprocess \/ Parse \/ Check \/ Lower \/ Generate
  <2>1. Reports("original") \/ Reports("expanded")
    BY <1>3 DEF Preprocess, Parse, Check, Lower, Generate
  <2>2. errors' <= Len(diagnostics')
    BY <2>1, ReportsCountsWhatItRecords DEF ErrorInv, RangeInv
  <2>3. turn \in Nat /\ (Preprocess => turn <= Len(cInputs))
    BY DEF ErrorInv, Preprocess
  <2>4. policy' \in 0..Len(cInputs) /\ lineMap' \in 0..Len(cInputs)
    BY <1>1, <1>3, <2>3 DEF RangeInv, Preprocess, Parse, Check, Lower, Generate
  <2>. QED  BY <1>1, <2>2, <2>4 DEF RangeInv
<1>. QED  BY <1>2, <1>3 DEF Next, vars, FindStdlib, FindLibrary, CheckGiven, EndCompilation, Declare, Publish, WriteUnit, Assemble, Link, RunProgram, Clean, Returned

BuildFacts == BuildInv /\ PrintInv /\ ErrorInv /\ RangeInv

(* The driver's state, for every command line: a policy and a line map are  *)
(* of a C input or of nobody, no more is counted than was reported, no more  *)
(* printed, and the units are those of the inputs, in their order.          *)
THEOREM DriverTypeCorrect == Spec => []TypeOK
<1>1. Init => BuildFacts
  BY BuildInit, PrintInit, ErrorInit, RangeInit DEF BuildFacts
<1>2. BuildFacts /\ [Next]_vars => BuildFacts'
  BY BuildNext, PrintNext, ErrorNext, RangeNext DEF BuildFacts
<1>3. BuildFacts => TypeOK
  <2>. SUFFICES ASSUME BuildFacts PROVE TypeOK
    OBVIOUS
  <2>1. errors \in 0..Len(diagnostics)
    BY DEF BuildFacts, RangeInv, ErrorInv, ErrorsCounted
  <2>2. \A n \in DOMAIN units : units[n].source = cInputs[n]
    <3>1. DOMAIN units = 1..Len(units)
      BY SequenceFacts DEF BuildFacts, BuildInv, UnitsWell
    <3>. QED  BY <3>1 DEF BuildFacts, BuildInv, UnitsWell
  <2>. QED  BY <2>1, <2>2 DEF BuildFacts, TypeOK, RangeInv, PrintInv, PrintType, BuildInv, Outcome
<1>. QED  BY <1>1, <1>2, <1>3, PTL DEF Spec

-----------------------------------------------------------------------------
(* Files: which ones a build may have written. *)
Unwritten == Starting \cup {"preprocess"} \cup Compiling \cup {"declare"}

(* What a build may write over without looking. *)
MadeFiles ==
  {ProgramPath} \cup {unit.casm : unit \in Range(units)}
    \cup ({options.emitDecls} \ {NoPath})
    \cup ({ObjectOf(casm) : casm \in Range(CasmFiles)} \ Range(objects))
    \cup ((IF NeedsDeclarations THEN {DeclarationsPath} ELSE {}) \ Range(decls))

AsBefore(path) == files[path] = IF path \in Present THEN Given(path) ELSE Leftover(path)
OnlyMade(made) ==
  /\ \A path \in DOMAIN files \ made : path \in Present \cup Leftovers /\ AsBefore(path)
  /\ Present \ made \subseteq DOMAIN files
KeptInv ==
  /\ OnlyMade(MadeFiles)
  /\ at \in Unwritten => OnlyMade({})
  /\ at \in {"publish", "write"} \cup Linking /\ NeedsDeclarations => DeclarationsPath \notin Range(decls)
  /\ at = "assemble" => \A n \in 1..Len(CasmFiles) : n < turn => ObjectOf(CasmFiles[n]) \notin Range(objects)
  /\ at \in {"link", "run", "clean"} => \A n \in 1..Len(CasmFiles) : ObjectOf(CasmFiles[n]) \notin Range(objects)
  /\ at = "done" /\ exit = 0 /\ options.clean # "no" => OnlyMade({}) \/ DOMAIN files \cap Generated = {}

DeclInv ==
  \A path \in DOMAIN files : files[path].kind = "declarations" =>
     \E leaveOut \in {{}, AlreadyDeclared} : files[path].of = BuildDeclarations(leaveOut)

SourcesApart == \A p, q \in Range(cInputs) \cup Range(casmInputs) : ObjectOf(p) = ObjectOf(q) => p = q
HoldsText(unit) == Exists(unit.casm) /\ files[unit.casm] = TextOf(unit)
CodeInv ==
  SourcesApart =>
    /\ at = "write" => \A n \in 1..Len(units) : n < turn => HoldsText(units[n])
    /\ at \in Linking => \A n \in 1..Len(units) : HoldsText(units[n])
    /\ at = "done" /\ exit = 0 /\ options.stop = {} /\ options.clean # "all" => \A n \in 1..Len(units) : HoldsText(units[n])

NamedWell ==
  /\ SourcesApart
  /\ (Range(casmInputs) \cup Range(objects) \cup Range(archives)) \cap ({options.emitDecls} \cup (Leftovers \ Present)) = {}
MadeOf(n) == IF n <= Len(units) THEN TextOf(units[n]) ELSE Given(CasmFiles[n])
HoldsObject(n) == Exists(ObjectOf(CasmFiles[n])) /\ files[ObjectOf(CasmFiles[n])] = Object(MadeOf(n))
DeclsApart ==
  /\ SourcesApart
  /\ options.emitDecls # DeclarationsPath
  /\ Range(decls) \cap MadeFiles = {}
  /\ \A m, n \in 1..Len(decls) : m # n => DeclaredBy(decls[m]) \cap DeclaredBy(decls[n]) = {}
OneKind == \A e, f \in Exported : e.name = f.name => e.function = f.function


-----------------------------------------------------------------------------
LEMMA HoldingIs ==
  ASSUME NEW path, NEW content, files' = Holding(path, content)
  PROVE  /\ DOMAIN files' = DOMAIN files \cup {path} /\ files'[path] = content
         /\ \A other \in DOMAIN files \ {path} : files'[other] = files[other]
BY DEF Holding

(* What a build is made of does not change when its files do. *)
LEMMA NamesStay ==
  ASSUME UNCHANGED <<options, found, units>>
  PROVE  /\ UNCHANGED <<cInputs, casmInputs, CasmFiles, NeedsDeclarations, DeclarationsPath, ProgramPath, Generated, MadeFiles, LinkArguments, GivenPaths, AlreadyDeclared, Exported, SourcesApart, NamedWell, OneKind>>
         /\ \A unit : TextOf(unit)' = TextOf(unit)
         /\ \A leaveOut : BuildDeclarations(leaveOut)' = BuildDeclarations(leaveOut)
<1>1. UNCHANGED <<cInputs, casmInputs, options, objects, archives, decls, units>>
  BY InputsStay DEF found
<1>2. UNCHANGED <<CasmFiles, NeedsDeclarations, DeclarationsPath>>
  BY <1>1 DEF CasmFiles, NeedsDeclarations, DeclarationsPath
<1>3. UNCHANGED <<ProgramPath, LinkArguments, GivenPaths, AlreadyDeclared>>
  BY <1>1, <1>2 DEF ProgramPath, LinkArguments, GivenPaths, AlreadyDeclared
<1>4. UNCHANGED <<Generated, MadeFiles>>
  BY <1>1, <1>2, <1>3 DEF Generated, MadeFiles
<1>5. UNCHANGED <<Exported, SourcesApart, NamedWell, OneKind>>
  <2>1. Exported' = Exported
    BY <1>1 DEF Exported
  <2>2. SourcesApart' = SourcesApart
    BY <1>1 DEF SourcesApart
  <2>. QED  BY <1>1, <2>1, <2>2 DEF NamedWell, OneKind
<1>6. \A unit : TextOf(unit)' = TextOf(unit)
  BY <1>1, <1>2 DEF TextOf
<1>7. \A leaveOut : BuildDeclarations(leaveOut)' = BuildDeclarations(leaveOut)
  BY <1>1 DEF BuildDeclarations
<1>. QED  BY <1>1, <1>2, <1>3, <1>4, <1>5, <1>6, <1>7

(* A build writes a file at a time, and no file it was told to keep. *)
StaysKept ==
  /\ \A path \in DOMAIN files' \ MadeFiles : path \in DOMAIN files /\ files'[path] = files[path]
  /\ DOMAIN files \ MadeFiles \subseteq DOMAIN files'

LEMMA HoldingKeeps ==
  ASSUME NEW path \in MadeFiles, NEW content, files' = Holding(path, content)
  PROVE  StaysKept
BY HoldingIs DEF StaysKept

LEMMA KeptFiles ==
  ASSUME OnlyMade(MadeFiles), StaysKept, UNCHANGED <<options, found, units>>
  PROVE  OnlyMade(MadeFiles)'
<1>1. MadeFiles' = MadeFiles
  BY NamesStay
<1>. QED  BY <1>1 DEF OnlyMade, StaysKept, AsBefore

LEMMA UntouchedFiles ==
  ASSUME OnlyMade({}), UNCHANGED files
  PROVE  OnlyMade({})' /\ OnlyMade(MadeFiles)'
BY DEF OnlyMade, AsBefore

LEMMA KeptInit == Init => KeptInv
<1>. SUFFICES ASSUME Init PROVE KeptInv
  OBVIOUS
<1>1. OnlyMade({})
  BY DEF Init, OnlyMade, AsBefore
<1>2. OnlyMade(MadeFiles)
  BY <1>1 DEF OnlyMade
<1>3. at \in {"stdlib", "done"} /\ (at = "done" => exit = 1)
  BY DEF Init
<1>. QED  BY <1>1, <1>2, <1>3 DEF KeptInv, Linking

(* Before anything is written every file is what it was. *)
LEMMA KeptEarly ==
  ASSUME KeptInv, at \in Unwritten, UNCHANGED files, at' \in Unwritten \cup {"done"}
  PROVE  KeptInv'
<1>1. OnlyMade({})' /\ OnlyMade(MadeFiles)'
  BY UntouchedFiles DEF KeptInv
<1>. QED  BY <1>1 DEF KeptInv, Unwritten, Starting, Compiling, Linking

LEMMA EarlySteps ==
  ASSUME FindStdlib \/ FindLibrary \/ CheckGiven \/ Preprocess \/ Parse \/ Check \/ Lower \/ Generate \/ EndCompilation
  PROVE  at \in Unwritten /\ UNCHANGED files /\ at' \in Unwritten \cup {"done"} /\ at # "declare"
<1>1. CASE FindStdlib \/ FindLibrary \/ CheckGiven
  BY <1>1 DEF FindStdlib, FindLibrary, CheckGiven, GoTo, NextTurn, Fail, Unwritten, Starting, Compiling
<1>2. CASE Preprocess \/ Parse \/ Check
  BY <1>2 DEF Preprocess, Parse, Check, GoTo, NextTurn, Fail, Unwritten, Starting, Compiling
<1>3. CASE Lower \/ Generate \/ EndCompilation
  BY <1>3 DEF Lower, Generate, EndCompilation, GoTo, NextTurn, Fail, Unwritten, Starting, Compiling
<1>. QED  BY <1>1, <1>2, <1>3

LEMMA KeptWhileWriting == BuildInv /\ KeptInv /\ (Declare \/ Publish \/ WriteUnit) => KeptInv'
<1>. SUFFICES ASSUME BuildInv, KeptInv, Declare \/ Publish \/ WriteUnit PROVE KeptInv'
  OBVIOUS
<1>1. UNCHANGED <<options, found, units>> /\ options.clean \in {"no", "all", "keep"} /\ (options.clean # "no" => options.run)
  <2>1. at # "done"
    BY DEF Declare, Publish, WriteUnit
  <2>. QED  BY <2>1 DEF Declare, Publish, WriteUnit, BuildInv, OptionsWell, OptionsRead, Progress
<1>2. UNCHANGED <<MadeFiles, NeedsDeclarations, DeclarationsPath, CasmFiles>> /\ UNCHANGED <<decls, objects>>
  BY <1>1, NamesStay DEF found
<1>3. turn \in Nat /\ turn > 0
  BY DEF BuildInv, Progress
<1>4. CASE Declare
  <2>1. \/ UNCHANGED files
        \/ /\ NeedsDeclarations /\ DeclarationsPath \notin Range(decls)
           /\ \E content : files' = Holding(DeclarationsPath, content)
    BY <1>4 DEF Declare, Writes, TakesGivenDecls
  <2>2. at' \in {"publish", "done"} /\ (at' = "done" => exit' = 1) /\ (at' = "publish" /\ NeedsDeclarations => DeclarationsPath \notin Range(decls))
    BY <1>4 DEF Declare, Writes, TakesGivenDecls, GoTo, Fail
  <2>3. StaysKept
    BY <2>1, HoldingKeeps DEF MadeFiles, StaysKept
  <2>. QED  BY <1>1, <1>2, <2>2, <2>3, KeptFiles DEF KeptInv, Unwritten, Starting, Compiling, Linking
<1>5. CASE Publish
  <2>1. \/ UNCHANGED files
        \/ options.emitDecls # NoPath /\ \E content : files' = Holding(options.emitDecls, content)
    BY <1>5 DEF Publish, Writes
  <2>2. at = "publish" /\ at' \in {"write", "done"} /\ (at' = "done" => exit' = 1)
    BY <1>5 DEF Publish, Writes, GoTo, Fail
  <2>3. StaysKept
    BY <2>1, HoldingKeeps DEF MadeFiles, StaysKept
  <2>. QED  BY <1>1, <1>2, <2>2, <2>3, KeptFiles DEF KeptInv, Unwritten, Starting, Compiling, Linking
<1>6. CASE WriteUnit
  <2>1. \/ UNCHANGED files
        \/ turn <= Len(units) /\ \E content : files' = Holding(units[turn].casm, content)
    <3>1. Len(units) \in Nat
      BY SequenceFacts DEF BuildInv, UnitsWell
    <3>. QED  BY <1>3, <1>6, <3>1 DEF WriteUnit, Writes
  <2>2. at = "write" /\ at' \in {"write", "assemble", "done"} /\ (at' = "done" => exit' = 1 \/ ~options.run) /\ (at' = "assemble" => turn' = 1)
    BY <1>6 DEF WriteUnit, Writes, GoTo, Fail, NextTurn
  <2>3. turn <= Len(units) => units[turn] \in Range(units)
    BY <1>3, SequenceFacts DEF BuildInv, UnitsWell
  <2>4. StaysKept
    BY <2>1, <2>3, HoldingKeeps DEF MadeFiles, StaysKept
  <2>5. \A n \in 1..Len(CasmFiles) : ~(n < 1)
    OBVIOUS
  <2>. QED  BY <1>1, <1>2, <2>2, <2>4, <2>5, KeptFiles DEF KeptInv, Unwritten, Starting, Compiling, Linking
<1>. QED  BY <1>4, <1>5, <1>6

LEMMA KeptWhileLinking == BuildInv /\ KeptInv /\ (Assemble \/ Link \/ RunProgram \/ Clean) => KeptInv'
<1>. SUFFICES ASSUME BuildInv, KeptInv, Assemble \/ Link \/ RunProgram \/ Clean PROVE KeptInv'
  OBVIOUS
<1>1. UNCHANGED <<options, found, units>>
  BY DEF Assemble, Link, RunProgram, Clean
<1>2. UNCHANGED <<MadeFiles, NeedsDeclarations, DeclarationsPath, CasmFiles, Generated>> /\ UNCHANGED <<decls, objects>>
  BY <1>1, NamesStay DEF found
<1>3. turn \in Nat /\ turn > 0 /\ Len(CasmFiles) \in Nat /\ DOMAIN CasmFiles = 1..Len(CasmFiles)
  BY CasmFilesAre, SequenceFacts DEF BuildInv, Progress
<1>4. CASE Assemble
  <2>1. \/ UNCHANGED files
        \/ /\ turn <= Len(CasmFiles) /\ ObjectOf(CasmFiles[turn]) \notin Range(objects)
           /\ \E content : files' = Holding(ObjectOf(CasmFiles[turn]), content)
    BY <1>3, <1>4 DEF Assemble, TakesGivenObject, Subprocess
  <2>2. /\ at = "assemble"
        /\ \/ at' = "link" /\ ~(turn <= Len(CasmFiles))
           \/ at' = "assemble" /\ turn' = turn + 1 /\ ObjectOf(CasmFiles[turn]) \notin Range(objects)
           \/ at' = "done" /\ exit' \in {1, 2}
    BY <1>3, <1>4 DEF Assemble, Subprocess, TakesGivenObject, GoTo, Fail, NextTurn, Failures
  <2>3. turn <= Len(CasmFiles) => CasmFiles[turn] \in Range(CasmFiles)
    BY <1>3 DEF Range
  <2>4. StaysKept
    BY <2>1, <2>3, HoldingKeeps DEF MadeFiles, StaysKept
  <2>5. \A n \in 1..Len(CasmFiles) : (~(turn <= Len(CasmFiles)) => n < turn) /\ (n < turn + 1 => n < turn \/ n = turn)
    BY <1>3
  <2>. QED  BY <1>1, <1>2, <2>2, <2>4, <2>5, KeptFiles DEF KeptInv, Unwritten, Starting, Compiling, Linking
<1>5. CASE Link
  <2>1. UNCHANGED files \/ \E content : files' = Holding(ProgramPath, content)
    BY <1>5 DEF Link, Subprocess
  <2>2. at = "link" /\ at' \in {"run", "done"} /\ (at' = "done" => exit' \in {1, 2})
    BY <1>5 DEF Link, Subprocess, GoTo, Fail, Failures
  <2>3. StaysKept
    BY <2>1, HoldingKeeps DEF MadeFiles, StaysKept
  <2>. QED  BY <1>1, <1>2, <2>2, <2>3, KeptFiles DEF KeptInv, Unwritten, Starting, Compiling, Linking
<1>6. CASE RunProgram
  <2>1. at = "run" /\ at' \in {"clean", "done"} /\ (at' = "done" /\ exit' = 0 => options.clean = "no") /\ UNCHANGED files
    BY <1>6 DEF RunProgram, GoTo, Fail
  <2>2. StaysKept
    BY <2>1 DEF StaysKept
  <2>. QED  BY <1>1, <1>2, <2>1, <2>2, KeptFiles DEF KeptInv, Unwritten, Starting, Compiling, Linking
<1>7. CASE Clean
  <2>1. /\ at = "clean" /\ at' = "done" /\ DOMAIN files' = DOMAIN files \ Generated
        /\ \A path \in DOMAIN files' : files'[path] = files[path]
    BY <1>7 DEF Clean, Without, Fail
  <2>2. Generated \subseteq MadeFiles
    <3>1. NeedsDeclarations => DeclarationsPath \notin Range(decls)
      BY <2>1 DEF KeptInv, Linking
    <3>2. \A casm \in Range(CasmFiles) : ObjectOf(casm) \notin Range(objects)
      BY <1>3, <2>1 DEF KeptInv, Range
    <3>. QED  BY <3>1, <3>2 DEF Generated, MadeFiles
  <2>3. StaysKept
    BY <2>1, <2>2 DEF StaysKept
  <2>4. DOMAIN files' \cap Generated = {}
    BY <2>1
  <2>. QED  BY <1>1, <1>2, <2>1, <2>3, <2>4, KeptFiles DEF KeptInv, Unwritten, Starting, Compiling, Linking
<1>. QED  BY <1>4, <1>5, <1>6, <1>7

LEMMA KeptNext == BuildInv /\ KeptInv /\ [Next]_vars => KeptInv'
<1>1. ASSUME KeptInv, UNCHANGED vars PROVE KeptInv'
  <2>1. UNCHANGED <<options, found, units, files, at, turn, exit>>
    BY <1>1 DEF vars
  <2>2. UNCHANGED <<MadeFiles, NeedsDeclarations, DeclarationsPath, CasmFiles, Generated>> /\ UNCHANGED <<decls, objects>>
    BY <2>1, NamesStay DEF found
  <2>. QED  BY <1>1, <2>1, <2>2 DEF KeptInv, OnlyMade, AsBefore
<1>. QED  BY <1>1, EarlySteps, KeptEarly, KeptWhileWriting, KeptWhileLinking DEF Next, Returned

(* The files that were named are as they were, unless the build was asked   *)
(* to write one of them: as what -o makes the program's name, as the        *)
(* assembly of a C input, as what is published.  The objects it makes and   *)
(* the declarations file it writes for itself never are one of them.        *)
GivenAreNotMade == GivenPaths \cap MadeFiles = {}
THEOREM GivenFilesAreKept == Spec => [](GivenAreNotMade => GivenFilesKept)
<1>1. Init => BuildInv /\ KeptInv
  BY BuildInit, KeptInit
<1>2. BuildInv /\ KeptInv /\ [Next]_vars => (BuildInv /\ KeptInv)'
  BY BuildNext, KeptNext
<1>3. KeptInv => (GivenAreNotMade => GivenFilesKept)
  <2>. SUFFICES ASSUME KeptInv, GivenAreNotMade, NEW p \in GivenPaths PROVE Exists(p) /\ files[p] = Given(p)
    BY DEF GivenFilesKept
  <2>1. p \in Present /\ p \notin MadeFiles
    BY DEF GivenAreNotMade, GivenPaths
  <2>. QED  BY <2>1 DEF KeptInv, OnlyMade, AsBefore, Exists
<1>. QED  BY <1>1, <1>2, <1>3, PTL DEF Spec

(* A build that cleans leaves nothing of its own but what it was asked for, *)
(* whatever an earlier one left: for every command line.                    *)
THEOREM CleanLeavesNothingAlways == Spec => []CleanLeavesNothing
<1>1. Init => BuildInv /\ KeptInv
  BY BuildInit, KeptInit
<1>2. BuildInv /\ KeptInv /\ [Next]_vars => (BuildInv /\ KeptInv)'
  BY BuildNext, KeptNext
<1>3. BuildInv /\ KeptInv => CleanLeavesNothing
  <2>. SUFFICES ASSUME BuildInv, KeptInv, at = "done", exit = 0, options.clean # "no", NEW path \in DOMAIN files
                PROVE  \/ files[path].kind \in {"given", "leftover"}
                       \/ path = options.emitDecls
                       \/ options.clean = "keep" /\ path \in {unit.casm : unit \in Range(units)}
    BY DEF CleanLeavesNothing
  <2>1. \A p : Given(p).kind = "given" /\ Leftover(p).kind = "leftover"
    BY DEF Given, Leftover
  <2>2. options.clean \in {"all", "keep"}
    BY DEF BuildInv, OptionsWell, OptionsRead
  <2>3. CASE OnlyMade({})
    BY <2>1, <2>3 DEF OnlyMade, AsBefore
  <2>4. CASE DOMAIN files \cap Generated = {}
    <3>1. path \notin Generated
      BY <2>4
    <3>2. path \in MadeFiles => path = options.emitDecls \/ (options.clean = "keep" /\ path \in {unit.casm : unit \in Range(units)})
      BY <2>2, <3>1 DEF MadeFiles, Generated
    <3>3. path \notin MadeFiles => files[path] \in {Given(path), Leftover(path)}
      BY DEF KeptInv, OnlyMade, AsBefore
    <3>. QED  BY <2>1, <3>2, <3>3
  <2>. QED  BY <2>3, <2>4 DEF KeptInv
<1>. QED  BY <1>1, <1>2, <1>3, PTL DEF Spec

-----------------------------------------------------------------------------
(* What a declarations file says of the exports it was made of: each name    *)
(* that is not left out has an entry, and the entry is the best there was.   *)
Unwanted(entry) == ~entry.function /\ ~entry.defined /\ IsLinkerSymbol(entry.name)
Best(entries, exports) ==
  \A entry \in exports, declared \in entries : declared.name = entry.name =>
    (entry.defined => declared.defined) /\ (entry.initialized => declared.initialized)
KindsAgree(exports) == \A e, f \in exports : e.name = f.name => e.function = f.function

Merged(leaveOut, entries, exports) ==
  /\ entries \subseteq exports
  /\ \A declared \in entries : declared.name \notin leaveOut
  /\ \A entry \in exports : entry.name \in leaveOut \/ Unwanted(entry) \/ \E declared \in entries : declared.name = entry.name
  /\ KindsAgree(exports) => Best(entries, exports)

LEMMA EnteredMerges ==
  ASSUME NEW leaveOut, NEW entries, NEW exports, NEW entry, Merged(leaveOut, entries, exports),
         \A e \in exports \cup {entry} : e.initialized => e.defined
  PROVE  Merged(leaveOut, Entered(leaveOut, entries, entry), exports \cup {entry})
<1>. DEFINE new == Entered(leaveOut, entries, entry)
            all == exports \cup {entry}
<1>. SUFFICES Merged(leaveOut, new, all)
  OBVIOUS
<1>0. KindsAgree(all) => Best(entries, exports)
  BY DEF Merged, KindsAgree
<1>1. CASE entry.name \in leaveOut \/ Unwanted(entry)
  <2>1. new = entries
    BY <1>1 DEF Entered, Unwanted
  <2>2. KindsAgree(all) => Best(entries, all)
    <3>. SUFFICES ASSUME KindsAgree(all), NEW declared \in entries, declared.name = entry.name
                  PROVE  (entry.defined => declared.defined) /\ (entry.initialized => declared.initialized)
      BY <1>0 DEF Best
    <3>. QED  BY <1>1 DEF Unwanted, Merged
  <2>. HIDE DEF new
  <2>. QED  BY <1>1, <2>1, <2>2 DEF Merged
<1>2. CASE ~(entry.name \in leaveOut \/ Unwanted(entry)) /\ ~\E old \in entries : old.name = entry.name
  <2>1. new = entries \cup {entry}
    BY <1>2 DEF Entered, Unwanted
  <2>2. KindsAgree(all) => Best(new, all)
    <3>. SUFFICES ASSUME KindsAgree(all), NEW e \in all, NEW declared \in new, declared.name = e.name
                  PROVE  (e.defined => declared.defined) /\ (e.initialized => declared.initialized)
      BY DEF Best
    <3>1. CASE declared \in entries /\ e \in exports
      BY <1>0, <3>1 DEF Best
    <3>2. CASE declared \in entries /\ e = entry
      BY <1>2, <3>2
    <3>3. CASE declared = entry /\ e \in exports
      <4>1. Unwanted(e)
        BY <1>2, <3>3 DEF Merged
      <4>. QED  BY <3>3, <4>1 DEF Unwanted
    <3>4. CASE declared = entry /\ e = entry
      BY <3>4
    <3>. HIDE DEF new
    <3>. QED  BY <2>1, <3>1, <3>2, <3>3, <3>4
  <2>. HIDE DEF new
  <2>. QED  BY <1>2, <2>1, <2>2 DEF Merged
<1>3. CASE ~(entry.name \in leaveOut \/ Unwanted(entry)) /\ \E old \in entries : old.name = entry.name
  <2>. DEFINE After(old) == IF old.name = entry.name /\ Replaces(entry, old) THEN entry ELSE old
  <2>1. new = {After(old) : old \in entries}
    BY <1>3 DEF Entered, Unwanted
  <2>2. \A old \in entries : After(old) \in all /\ After(old).name = old.name /\ After(old) \in new
    BY <2>1 DEF Merged
  <2>3. \A declared \in new : \E old \in entries : declared = After(old)
    BY <2>1
  <2>4. KindsAgree(all) => Best(new, all)
    <3>. SUFFICES ASSUME KindsAgree(all), NEW e \in all, NEW declared \in new, declared.name = e.name
                  PROVE  (e.defined => declared.defined) /\ (e.initialized => declared.initialized)
      BY DEF Best
    <3>1. PICK old \in entries : declared = After(old)
      BY <2>3
    <3>2. (old.name = e.name /\ old \in exports /\ old.function = entry.function) \/ old.name # entry.name
      BY <2>2, <3>1 DEF KindsAgree, Merged
    <3>3. old.name = e.name /\ old \in exports /\ (old.initialized => old.defined) /\ (e.initialized => e.defined)
      BY <2>2, <3>1 DEF Merged
    <3>4. e \in exports => (e.defined => old.defined) /\ (e.initialized => old.initialized)
      BY <1>0, <3>3 DEF Best
    <3>5. CASE old.name = entry.name /\ Replaces(entry, old)
      <4>1. declared = entry
        BY <3>1, <3>5
      <4>. QED  BY <3>3, <3>4, <3>5, <4>1 DEF Replaces
    <3>6. CASE ~(old.name = entry.name /\ Replaces(entry, old))
      <4>1. declared = old
        BY <3>1, <3>6
      <4>2. CASE e \in exports
        BY <3>4, <4>1, <4>2
      <4>3. CASE e = entry
        <5>1. old.name = entry.name /\ old.function = entry.function
          BY <3>2, <3>3, <4>3
        <5>. QED  BY <3>3, <3>6, <4>1, <4>3, <5>1 DEF Replaces
      <4>. QED  BY <4>2, <4>3
    <3>. QED  BY <3>5, <3>6
  <2>5. new \subseteq all /\ \A declared \in new : declared.name \notin leaveOut
    <3>. HIDE DEF After, new
    <3>. QED  BY <2>2, <2>3 DEF Merged
  <2>6. \A e \in all : e.name \in leaveOut \/ Unwanted(e) \/ \E declared \in new : declared.name = e.name
    <3>1. \A e \in all : e.name \in leaveOut \/ Unwanted(e) \/ \E old \in entries : old.name = e.name
      BY <1>3 DEF Merged
    <3>. HIDE DEF After, new
    <3>. QED  BY <2>2, <3>1
  <2>. HIDE DEF new
  <2>. QED  BY <2>4, <2>5, <2>6 DEF Merged
<1>. QED  BY <1>1, <1>2, <1>3

LEMMA EnteredStays ==
  ASSUME NEW all, NEW leaveOut, NEW entries \in SUBSET all, NEW entry \in all
  PROVE  Entered(leaveOut, entries, entry) \in SUBSET all
BY DEF Entered

(* The exports of a unit, one after the other. *)
IsExports(exports) ==
  /\ Len(exports) \in Nat /\ DOMAIN exports = 1..Len(exports)
  /\ \A entry \in Range(exports) : entry.initialized => entry.defined

(* The entries after each of the exports. *)
EntersBy(f, all, leaveOut, entries, exports) ==
  /\ f \in [0..Len(exports) -> SUBSET all]
  /\ f[0] = entries /\ f[Len(exports)] = EnteredAll(leaveOut, entries, exports)
  /\ \A n \in 1..Len(exports) : f[n] = Entered(leaveOut, f[n - 1], exports[n])

LEMMA EnteredAllIs ==
  ASSUME NEW all, NEW leaveOut, NEW entries \in SUBSET all, NEW exports, IsExports(exports), Range(exports) \subseteq all
  PROVE  \E f : EntersBy(f, all, leaveOut, entries, exports)
<1>. DEFINE N == Len(exports)
            S == SUBSET all
            Enters(f) == f = [n \in 0..N |-> IF n = 0 THEN entries ELSE Entered(leaveOut, f[n - 1], exports[n])]
            step == [x \in (1..N) \X S |-> Entered(leaveOut, x[2], exports[x[1]])]
<1>1. N \in Nat /\ \A n \in 1..N : exports[n] \in all
  BY DEF IsExports, Range
<1>2. EnteredAll(leaveOut, entries, exports) = (CHOOSE f : Enters(f))[N]
  BY DEF EnteredAll
<1>3. \A n \in 1..N, s \in S : Entered(leaveOut, s, exports[n]) \in S
  BY <1>1, EnteredStays
<1>4. \E f : Enters(f)
  <2>. HIDE DEF N, S
  <2>1. \A n \in 1..N, s \in S : step[<<n, s>>] = Entered(leaveOut, s, exports[n])
    OBVIOUS
  <2>2. PICK f : RunsBy(f, N, S, entries, step)
    <3>1. \A x \in (1..N) \X S : Entered(leaveOut, x[2], exports[x[1]]) \in S
      BY <1>3
    <3>2. step \in [(1..N) \X S -> S]
      BY <3>1
    <3>3. entries \in S
      BY DEF S
    <3>. HIDE DEF step
    <3>. QED  BY <1>1, <3>2, <3>3, RunsThrough
  <2>. USE DEF RunsBy
  <2>. HIDE DEF step
  <2>3. \A n \in 1..N : f[n] = Entered(leaveOut, f[n - 1], exports[n])
    <3>1. \A n \in 1..N : n - 1 \in 0..N
      BY <1>1
    <3>2. \A n \in 1..N : f[n - 1] \in S
      BY <2>2, <3>1
    <3>. QED  BY <2>1, <2>2, <3>2
  <2>4. \A n \in 0..N : f[n] = IF n = 0 THEN entries ELSE Entered(leaveOut, f[n - 1], exports[n])
    BY <1>1, <2>2, <2>3
  <2>5. Enters(f)
    BY <2>2, <2>4
  <2>. HIDE DEF Enters
  <2>. QED  BY <2>5
<1>5. \E f : f = (CHOOSE g : Enters(g)) /\ Enters(f)
  <2>. HIDE DEF Enters
  <2>. QED  BY <1>4
<1>6. PICK f : f = (CHOOSE g : Enters(g)) /\ Enters(f)
  BY <1>5
<1>7. \A n \in 0..N : f[n] = IF n = 0 THEN entries ELSE Entered(leaveOut, f[n - 1], exports[n])
  BY <1>6
<1>8. DOMAIN f = 0..N
  BY <1>6
<1>9. f = [n \in 0..N |-> f[n]]
  BY <1>6, <1>8
<1>. DEFINE W == {n \in Nat : n <= N => f[n] \in S}
<1>. HIDE DEF Enters, step, S, N
<1>10. \A n \in Nat : n \in W
  <2>1. 0 \in W
    <3>1. entries \in S /\ 0 \in 0..N
      BY <1>1 DEF S
    <3>. QED  BY <1>7, <3>1
  <2>2. ASSUME NEW n \in Nat, n \in W PROVE n + 1 \in W
    <3>. SUFFICES ASSUME n + 1 <= N PROVE f[n + 1] \in S
      OBVIOUS
    <3>1. n + 1 \in 1..N /\ n + 1 \in 0..N /\ (n + 1) - 1 = n /\ n + 1 # 0 /\ f[n] \in S
      BY <1>1, <2>2
    <3>. QED  BY <1>3, <1>7, <3>1
  <2>. HIDE DEF W
  <2>. QED  BY <2>1, <2>2, NatSetInduction
<1>11. \A n \in 0..N : f[n] \in S
  BY <1>1, <1>10
<1>12. f \in [0..N -> S]
  BY <1>9, <1>11
<1>13. f[0] = entries /\ \A n \in 1..N : f[n] = Entered(leaveOut, f[n - 1], exports[n])
  BY <1>1, <1>7
<1>14. EntersBy(f, all, leaveOut, entries, exports)
  BY <1>2, <1>6, <1>12, <1>13 DEF S, N, EntersBy
<1>. QED  BY <1>14

LEMMA EnteredAllMerges ==
  ASSUME NEW leaveOut, NEW entries, NEW before, NEW exports, IsExports(exports), Merged(leaveOut, entries, before),
         \A e \in before : e.initialized => e.defined
  PROVE  Merged(leaveOut, EnteredAll(leaveOut, entries, exports), before \cup Range(exports))
<1>. DEFINE all == before \cup Range(exports)
            N == Len(exports)
            Upto(n) == {exports[m] : m \in 1..n}
<1>1. N \in Nat /\ (\A n \in 1..N : exports[n] \in Range(exports)) /\ Range(exports) = Upto(N)
  BY DEF IsExports, Range
<1>2. entries \in SUBSET all /\ Range(exports) \subseteq all /\ \A e \in all : e.initialized => e.defined
  BY DEF Merged, IsExports
<1>3. PICK f : EntersBy(f, all, leaveOut, entries, exports)
  <2>. HIDE DEF all
  <2>. QED  BY <1>2, EnteredAllIs
<1>a. /\ f[0] = entries /\ f[N] = EnteredAll(leaveOut, entries, exports)
      /\ \A n \in 1..N : f[n] = Entered(leaveOut, f[n - 1], exports[n])
  BY <1>3 DEF EntersBy
<1>. DEFINE W == {n \in Nat : n <= N => Merged(leaveOut, f[n], before \cup Upto(n))}
<1>4. N \in W
  <2>1. 0 \in W
    <3>1. before \cup Upto(0) = before
      OBVIOUS
    <3>. HIDE DEF Upto
    <3>. QED  BY <1>a, <3>1
  <2>2. ASSUME NEW n \in Nat, n \in W PROVE n + 1 \in W
    <3>. SUFFICES ASSUME n + 1 <= N PROVE Merged(leaveOut, f[n + 1], before \cup Upto(n + 1))
      OBVIOUS
    <3>1. n + 1 \in 1..N /\ (n + 1) - 1 = n /\ Merged(leaveOut, f[n], before \cup Upto(n))
      BY <1>1, <2>2
    <3>2. before \cup Upto(n + 1) = (before \cup Upto(n)) \cup {exports[n + 1]}
      <4>1. 1..(n + 1) = 1..n \cup {n + 1}
        OBVIOUS
      <4>. QED  BY <4>1
    <3>3. before \cup Upto(n + 1) \subseteq all
      BY <1>1, <3>1
    <3>4. f[n + 1] = Entered(leaveOut, f[n], exports[n + 1])
      BY <1>a, <3>1
    <3>. HIDE DEF Upto, all
    <3>5. Merged(leaveOut, Entered(leaveOut, f[n], exports[n + 1]), (before \cup Upto(n)) \cup {exports[n + 1]})
      BY <1>2, <3>1, <3>2, <3>3, EnteredMerges
    <3>. QED  BY <3>2, <3>4, <3>5
  <2>. HIDE DEF W
  <2>. QED  BY <1>1, <2>1, <2>2, NatSetInduction
<1>. HIDE DEF Upto
<1>5. Merged(leaveOut, f[N], before \cup Upto(N))
  BY <1>1, <1>4
<1>. QED  BY <1>1, <1>a, <1>5

-----------------------------------------------------------------------------
(* The options are those of a command line, so what its C inputs export is  *)
(* known to be well formed.                                                 *)
FromWords == \E words \in CommandLines : options = ParseOptions(words)
ExportsWell == \A n \in 1..Len(units) : IsExports(ExportsOf(units[n].source))

LEMMA UnitsExport == BuildInv /\ FromWords => ExportsWell
<1>. SUFFICES ASSUME BuildInv, FromWords, NEW n \in 1..Len(units) PROVE IsExports(ExportsOf(units[n].source))
  BY DEF ExportsWell
<1>1. PICK words \in CommandLines : options = ParseOptions(words)
  BY DEF FromWords
<1>2. units[n].source = cInputs[n]
  <2>1. units[n] = [source |-> cInputs[n], casm |-> CasmPathOf(cInputs[n])]
    BY DEF BuildInv, UnitsWell
  <2>. QED  BY <2>1
<1>3. n \in 1..Len(cInputs)
  <2>1. Len(units) \in Nat /\ Len(cInputs) \in Nat /\ Len(units) <= Len(cInputs)
    BY InputFacts, SequenceFacts DEF BuildInv, UnitsWell
  <2>. QED  BY <2>1
<1>4. cInputs[n] \in Range(options.inputs)
  BY <1>3, InputFacts, SequenceFacts DEF BuildInv
<1>. QED  BY <1>1, <1>2, <1>4, ExportsAssumption DEF IsExports

(* The entries after each of the units. *)
MergesBy(f, leaveOut) ==
  /\ f \in [0..Len(units) -> SUBSET Exported]
  /\ f[0] = {} /\ f[Len(units)] = BuildDeclarations(leaveOut)
  /\ \A n \in 1..Len(units) : f[n] = EnteredAll(leaveOut, f[n - 1], ExportsOf(units[n].source))

LEMMA EnteredAllStays ==
  ASSUME NEW all, NEW leaveOut, NEW entries \in SUBSET all, NEW exports, IsExports(exports), Range(exports) \subseteq all
  PROVE  EnteredAll(leaveOut, entries, exports) \in SUBSET all
<1>1. PICK f : EntersBy(f, all, leaveOut, entries, exports)
  BY EnteredAllIs
<1>2. Len(exports) \in 0..Len(exports)
  BY DEF IsExports
<1>. QED  BY <1>1, <1>2 DEF EntersBy

LEMMA BuildDeclarationsIs ==
  ASSUME BuildInv, ExportsWell, NEW leaveOut
  PROVE  \E f : MergesBy(f, leaveOut)
<1>. DEFINE N == Len(units)
            S == SUBSET Exported
            Turn(n, s) == EnteredAll(leaveOut, s, ExportsOf(units[n].source))
            Merges(f) == f = [n \in 0..N |-> IF n = 0 THEN {} ELSE EnteredAll(leaveOut, f[n - 1], ExportsOf(units[n].source))]
            step == [x \in (1..N) \X S |-> Turn(x[1], x[2])]
<1>1. N \in Nat /\ \A n \in 1..N : units[n] \in Range(units) /\ Range(ExportsOf(units[n].source)) \subseteq Exported
  <2>1. N \in Nat /\ \A n \in 1..N : units[n] \in Range(units)
    BY SequenceFacts DEF BuildInv, UnitsWell
  <2>. QED  BY <2>1 DEF Exported
<1>2. BuildDeclarations(leaveOut) = (CHOOSE f : Merges(f))[N]
  BY DEF BuildDeclarations
<1>3. \A n \in 1..N, s \in S : Turn(n, s) \in S
  BY <1>1, EnteredAllStays DEF ExportsWell
<1>b. \A f : Merges(f) <=> f = [n \in 0..N |-> IF n = 0 THEN {} ELSE Turn(n, f[n - 1])]
  OBVIOUS
<1>4. \E f : Merges(f)
  <2>. HIDE DEF N, S, Turn
  <2>1. \A n \in 1..N, s \in S : step[<<n, s>>] = Turn(n, s)
    OBVIOUS
  <2>2. PICK f : RunsBy(f, N, S, {}, step)
    <3>1. \A x \in (1..N) \X S : Turn(x[1], x[2]) \in S
      BY <1>3
    <3>2. step \in [(1..N) \X S -> S]
      BY <3>1
    <3>3. {} \in S
      BY DEF S
    <3>. HIDE DEF step
    <3>4. N \in Nat
      BY <1>1
    <3>. QED  BY <3>2, <3>3, <3>4, RunsThrough
  <2>. USE DEF RunsBy
  <2>. HIDE DEF step
  <2>3. \A n \in 1..N : f[n] = Turn(n, f[n - 1])
    <3>1. \A n \in 1..N : n - 1 \in 0..N
      BY <1>1
    <3>2. \A n \in 1..N : f[n - 1] \in S
      BY <2>2, <3>1
    <3>. QED  BY <2>1, <2>2, <3>2
  <2>4. \A n \in 0..N : f[n] = IF n = 0 THEN {} ELSE Turn(n, f[n - 1])
    BY <1>1, <2>2, <2>3
  <2>. HIDE DEF Merges
  <2>5. f = [n \in 0..N |-> IF n = 0 THEN {} ELSE Turn(n, f[n - 1])]
    BY <2>2, <2>4
  <2>6. Merges(f)
    BY <1>b, <2>5
  <2>. QED  BY <2>6
<1>5. \E f : f = (CHOOSE g : Merges(g)) /\ Merges(f)
  <2>. HIDE DEF Merges
  <2>. QED  BY <1>4
<1>6. PICK f : f = (CHOOSE g : Merges(g)) /\ Merges(f)
  BY <1>5
<1>7. \A n \in 0..N : f[n] = IF n = 0 THEN {} ELSE Turn(n, f[n - 1])
  BY <1>6
<1>8. DOMAIN f = 0..N
  BY <1>6
<1>9. f = [n \in 0..N |-> f[n]]
  BY <1>6, <1>8
<1>. DEFINE W == {n \in Nat : n <= N => f[n] \in S}
<1>. HIDE DEF Merges, step, S, N, Turn
<1>10. \A n \in Nat : n \in W
  <2>1. 0 \in W
    <3>1. {} \in S /\ 0 \in 0..N
      BY <1>1 DEF S
    <3>. QED  BY <1>7, <3>1
  <2>2. ASSUME NEW n \in Nat, n \in W PROVE n + 1 \in W
    <3>. SUFFICES ASSUME n + 1 <= N PROVE f[n + 1] \in S
      OBVIOUS
    <3>1. n + 1 \in 1..N /\ n + 1 \in 0..N /\ (n + 1) - 1 = n /\ n + 1 # 0 /\ f[n] \in S
      BY <1>1, <2>2
    <3>2. f[n + 1] = Turn(n + 1, f[n])
      BY <1>7, <3>1
    <3>3. Turn(n + 1, f[n]) \in S
      BY <1>3, <3>1
    <3>. QED  BY <3>2, <3>3
  <2>. HIDE DEF W
  <2>. QED  BY <2>1, <2>2, NatSetInduction
<1>11. \A n \in 0..N : f[n] \in S
  BY <1>1, <1>10
<1>12. f \in [0..N -> S]
  BY <1>9, <1>11
<1>13. f[0] = {} /\ \A n \in 1..N : f[n] = Turn(n, f[n - 1])
  BY <1>1, <1>7
<1>14. MergesBy(f, leaveOut)
  BY <1>2, <1>6, <1>12, <1>13 DEF S, N, Turn, MergesBy
<1>. QED  BY <1>14

(* A declarations file is made of what all the units export. *)
LEMMA DeclarationsMerge ==
  ASSUME BuildInv, ExportsWell, NEW leaveOut
  PROVE  Merged(leaveOut, BuildDeclarations(leaveOut), Exported)
<1>. DEFINE N == Len(units)
            Of(n) == Range(ExportsOf(units[n].source))
            Upto(n) == UNION {Of(m) : m \in 1..n}
<1>1. PICK f : MergesBy(f, leaveOut)
  BY BuildDeclarationsIs
<1>a. /\ f[0] = {} /\ f[N] = BuildDeclarations(leaveOut)
      /\ \A n \in 1..N : f[n] = EnteredAll(leaveOut, f[n - 1], ExportsOf(units[n].source))
  BY <1>1 DEF MergesBy
<1>2. N \in Nat /\ Exported = Upto(N)
  <2>1. /\ N \in Nat /\ (\A n \in 1..N : units[n] \in Range(units))
        /\ \A unit \in Range(units) : \E n \in 1..N : unit = units[n]
    BY SequenceFacts DEF BuildInv, UnitsWell
  <2>. QED  BY <2>1 DEF Exported
<1>3. \A n \in 1..N : IsExports(ExportsOf(units[n].source))
  BY DEF ExportsWell
<1>. DEFINE Well(entries) == \A e \in entries : e.initialized => e.defined
            W == {n \in Nat : n <= N => Merged(leaveOut, f[n], Upto(n)) /\ Well(Upto(n))}
<1>4. N \in W
  <2>1. 0 \in W
    <3>1. Upto(0) = {}
      OBVIOUS
    <3>2. Merged(leaveOut, {}, {})
      BY DEF Merged, Best
    <3>. HIDE DEF Upto
    <3>. QED  BY <1>a, <3>1, <3>2
  <2>2. ASSUME NEW n \in Nat, n \in W PROVE n + 1 \in W
    <3>. SUFFICES ASSUME n + 1 <= N PROVE Merged(leaveOut, f[n + 1], Upto(n + 1)) /\ Well(Upto(n + 1))
      OBVIOUS
    <3>. HIDE DEF N
    <3>1. n + 1 \in 1..N /\ (n + 1) - 1 = n /\ n <= N
      BY <1>2
    <3>2. Merged(leaveOut, f[n], Upto(n)) /\ Well(Upto(n))
      BY <2>2, <3>1
    <3>3. Upto(n + 1) = Upto(n) \cup Of(n + 1)
      <4>1. 1..(n + 1) = 1..n \cup {n + 1}
        OBVIOUS
      <4>. HIDE DEF Of
      <4>. QED  BY <4>1
    <3>4. f[n + 1] = EnteredAll(leaveOut, f[n], ExportsOf(units[n + 1].source))
      BY <1>a, <3>1 DEF N
    <3>5. IsExports(ExportsOf(units[n + 1].source)) /\ Well(Of(n + 1))
      BY <1>3, <3>1 DEF IsExports
    <3>. HIDE DEF Upto
    <3>6. Merged(leaveOut, EnteredAll(leaveOut, f[n], ExportsOf(units[n + 1].source)), Upto(n) \cup Of(n + 1))
      BY <3>2, <3>5, EnteredAllMerges
    <3>7. Well(Upto(n + 1))
      BY <3>2, <3>3, <3>5
    <3>8. Merged(leaveOut, f[n + 1], Upto(n + 1))
      <4>. HIDE DEF Of
      <4>. QED  BY <3>3, <3>4, <3>6
    <3>. QED  BY <3>7, <3>8
  <2>. HIDE DEF W
  <2>. QED  BY <1>2, <2>1, <2>2, NatSetInduction
<1>. HIDE DEF Upto
<1>5. Merged(leaveOut, f[N], Upto(N))
  BY <1>2, <1>4
<1>. QED  BY <1>2, <1>a, <1>5

-----------------------------------------------------------------------------
(* What a file holds is told by its kind. *)
LEMMA Kinds ==
  ASSUME NEW x, NEW y
  PROVE  /\ Given(x).kind = "given" /\ Leftover(x).kind = "leftover" /\ Torn(x).kind = "torn" /\ Code(x, y).kind = "code"
         /\ Object(x).kind = "object" /\ Program(x).kind = "program"
         /\ Declarations(x).kind = "declarations" /\ Declarations(x).of = x
BY DEF Given, Leftover, Torn, Code, Object, Program, Declarations

LEMMA EarlyKinds ==
  ASSUME KeptInv, at \in Unwritten, NEW path \in DOMAIN files
  PROVE  files[path].kind \in {"given", "leftover"}
BY DEF KeptInv, OnlyMade, AsBefore, Given, Leftover

LEMMA DeclHolding ==
  ASSUME DeclInv, UNCHANGED <<options, found, units>>, NEW path, NEW content, files' = Holding(path, content),
         content.kind = "declarations" =>
           \E leaveOut \in {{}, AlreadyDeclared} : content.of = BuildDeclarations(leaveOut)
  PROVE  DeclInv'
<1>1. /\ DOMAIN files' = DOMAIN files \cup {path} /\ files'[path] = content
      /\ \A other \in DOMAIN files \ {path} : files'[other] = files[other]
  BY HoldingIs
<1>2. AlreadyDeclared' = AlreadyDeclared /\ \A leaveOut : BuildDeclarations(leaveOut)' = BuildDeclarations(leaveOut)
  BY NamesStay
<1>3. ASSUME NEW other \in DOMAIN files', files'[other].kind = "declarations"
      PROVE  \E leaveOut \in {{}, AlreadyDeclared} : files'[other].of = BuildDeclarations(leaveOut)
  BY <1>1, <1>3 DEF DeclInv
<1>. QED  BY <1>2, <1>3 DEF DeclInv

LEMMA DeclSame ==
  ASSUME DeclInv, UNCHANGED <<options, found, units>>, DOMAIN files' \subseteq DOMAIN files,
         \A path \in DOMAIN files' : files'[path] = files[path]
  PROVE  DeclInv'
<1>1. AlreadyDeclared' = AlreadyDeclared /\ \A leaveOut : BuildDeclarations(leaveOut)' = BuildDeclarations(leaveOut)
  BY NamesStay
<1>. QED  BY <1>1 DEF DeclInv

LEMMA DeclInit == Init => DeclInv
<1>. SUFFICES ASSUME Init PROVE DeclInv
  OBVIOUS
<1>1. \A path \in DOMAIN files : files[path] \in {Given(path), Leftover(path)}
  BY DEF Init
<1>2. \A path : Given(path).kind # "declarations" /\ Leftover(path).kind # "declarations"
  BY DEF Given, Leftover
<1>. QED  BY <1>1, <1>2 DEF DeclInv

LEMMA DeclNext == KeptInv /\ DeclInv /\ [Next]_vars => DeclInv'
<1>. SUFFICES ASSUME KeptInv, DeclInv, [Next]_vars PROVE DeclInv'
  OBVIOUS
<1>1. CASE UNCHANGED vars
  BY <1>1, DeclSame DEF vars
<1>2. CASE FindStdlib \/ FindLibrary \/ CheckGiven \/ Preprocess \/ Parse \/ Check \/ Lower \/ Generate \/ EndCompilation
  <2>1. \A path \in DOMAIN files' : files'[path].kind \in {"given", "leftover"}
    BY <1>2, EarlySteps, EarlyKinds
  <2>. QED  BY <2>1 DEF DeclInv
<1>3. ASSUME Declare \/ Publish \/ WriteUnit \/ Assemble \/ Link \/ RunProgram \/ Clean PROVE UNCHANGED <<options, found, units>>
  BY <1>3 DEF Declare, Publish, WriteUnit, Assemble, Link, RunProgram, Clean
<1>4. CASE Declare
  <2>1. \/ UNCHANGED files \/ files' = Holding(DeclarationsPath, Torn(DeclarationsPath))
        \/ files' = Holding(DeclarationsPath, Declarations(BuildDeclarations(AlreadyDeclared)))
    BY <1>4 DEF Declare, Writes
  <2>. QED  BY <1>3, <1>4, <2>1, Kinds, DeclSame, DeclHolding
<1>5. CASE Publish
  <2>1. \/ UNCHANGED files \/ files' = Holding(options.emitDecls, Torn(options.emitDecls))
        \/ files' = Holding(options.emitDecls, Declarations(BuildDeclarations({})))
    BY <1>5 DEF Publish, Writes
  <2>. QED  BY <1>3, <1>5, <2>1, Kinds, DeclSame, DeclHolding
<1>6. CASE WriteUnit
  <2>1. \/ UNCHANGED files \/ \E path, content : content \in {Torn(path), TextOf(units[turn])} /\ files' = Holding(path, content)
    BY <1>6 DEF WriteUnit, Writes
  <2>2. \A path : Torn(path).kind # "declarations" /\ TextOf(units[turn]).kind # "declarations"
    BY Kinds DEF TextOf
  <2>. QED  BY <1>3, <1>6, <2>1, <2>2, DeclSame, DeclHolding
<1>7. CASE Assemble \/ Link
  <2>1. \/ UNCHANGED files
        \/ \E path, content, x : content \in {Object(x), Program(x)} /\ files' = Holding(path, content)
    BY <1>7 DEF Assemble, Link, Subprocess, Assembled
  <2>2. \A x : Object(x).kind # "declarations" /\ Program(x).kind # "declarations"
    BY Kinds
  <2>. QED  BY <1>3, <1>7, <2>1, <2>2, DeclSame, DeclHolding
<1>8. CASE RunProgram
  <2>1. UNCHANGED files
    BY <1>8 DEF RunProgram
  <2>. QED  BY <1>3, <1>8, <2>1, DeclSame
<1>9. CASE Clean
  <2>1. DOMAIN files' \subseteq DOMAIN files /\ \A path \in DOMAIN files' : files'[path] = files[path]
    BY <1>9 DEF Clean, Without
  <2>. QED  BY <1>3, <1>9, <2>1, DeclSame
<1>. QED  BY <1>1, <1>2, <1>4, <1>5, <1>6, <1>7, <1>8, <1>9 DEF Next, Returned

LEMMA FromWordsAlways == (Init => FromWords) /\ (FromWords /\ [Next]_vars => FromWords')
<1>1. Init => FromWords
  BY DEF Init, FromWords
<1>2. ASSUME [Next]_vars PROVE UNCHANGED options
  BY <1>2 DEF Next, vars, FindStdlib, FindLibrary, CheckGiven, Preprocess, Parse, Check, Lower, Generate, EndCompilation,
         Declare, Publish, WriteUnit, Assemble, Link, RunProgram, Clean, Returned
<1>. QED  BY <1>1, <1>2 DEF FromWords

(* What a declarations file says of a name is the definition, if a unit has *)
(* it, and the initialized one before a tentative one, whatever number of   *)
(* units there are and in whatever order they come: where no name is a      *)
(* function in one unit and a variable in another, which is no C program.   *)
THEOREM DefinitionsAreDeclared == Spec => [](OneKind => DeclaresTheDefinition)
<1>1. Init => BuildInv /\ KeptInv /\ DeclInv /\ FromWords
  BY BuildInit, KeptInit, DeclInit, FromWordsAlways
<1>2. BuildInv /\ KeptInv /\ DeclInv /\ FromWords /\ [Next]_vars => (BuildInv /\ KeptInv /\ DeclInv /\ FromWords)'
  BY BuildNext, KeptNext, DeclNext, FromWordsAlways
<1>3. BuildInv /\ DeclInv /\ FromWords => (OneKind => DeclaresTheDefinition)
  <2>. SUFFICES ASSUME BuildInv, DeclInv, FromWords, OneKind,
                       NEW path \in DOMAIN files, files[path].kind = "declarations",
                       NEW entry \in Exported, NEW declared \in files[path].of, declared.name = entry.name
                PROVE  (entry.defined => declared.defined) /\ (entry.initialized => declared.initialized)
    BY DEF DeclaresTheDefinition
  <2>1. PICK leaveOut : files[path].of = BuildDeclarations(leaveOut)
    BY DEF DeclInv
  <2>2. Merged(leaveOut, BuildDeclarations(leaveOut), Exported)
    BY UnitsExport, DeclarationsMerge
  <2>3. Best(BuildDeclarations(leaveOut), Exported)
    BY <2>2 DEF Merged, OneKind, KindsAgree
  <2>. QED  BY <2>1, <2>3 DEF Best
<1>. QED  BY <1>1, <1>2, <1>3, PTL DEF Spec

-----------------------------------------------------------------------------
(* The code of the units, in the files it was written to. *)

(* A path of another extension. *)
LEMMA Extended ==
  ASSUME NEW p, IsPath(p), NEW e
  PROVE  /\ IsPath(WithExtension(p, e)) /\ WithExtension(p, e).ext = e
         /\ ObjectOf(WithExtension(p, e)) = ObjectOf(p)
<1>1. WithExtension(p, e) = Path(p.dir, p.stem, e)
  BY DEF IsPath, Path, WithExtension
<1>2. ObjectOf(p) = Path(p.dir, p.stem, "cobj")
  BY DEF IsPath, Path, WithExtension, ObjectOf
<1>3. ObjectOf(Path(p.dir, p.stem, e)) = Path(p.dir, p.stem, "cobj")
  BY DEF Path, WithExtension, ObjectOf
<1>. QED  BY <1>1, <1>2, <1>3 DEF IsPath, Path

(* The assembly of a unit. *)
LEMMA UnitCasm ==
  ASSUME BuildInv, NEW n \in 1..Len(units)
  PROVE  /\ n \in 1..Len(cInputs) /\ IsPath(cInputs[n]) /\ cInputs[n] \in Range(cInputs)
         /\ units[n] = [source |-> cInputs[n], casm |-> CasmPathOf(cInputs[n])]
         /\ IsPath(units[n].casm) /\ units[n] \in Range(units)
         /\ ~(SingleOutput /\ options.output # NoPath) =>
               units[n].casm.ext = "casm" /\ ObjectOf(units[n].casm) = ObjectOf(cInputs[n])
<1>1. n \in 1..Len(cInputs) /\ units[n] \in Range(units)
  <2>1. Len(units) \in Nat /\ Len(cInputs) \in Nat /\ Len(units) <= Len(cInputs) /\ units[n] \in Range(units)
    BY InputFacts, SequenceFacts DEF BuildInv, UnitsWell
  <2>. QED  BY <2>1
<1>2. IsPath(cInputs[n]) /\ cInputs[n] \in Range(cInputs) /\ IsPath(options.output)
  BY <1>1, InputFacts, SequenceFacts DEF BuildInv, OptionsWell, OptionsRead
<1>3. units[n] = [source |-> cInputs[n], casm |-> CasmPathOf(cInputs[n])]
  BY DEF BuildInv, UnitsWell
<1>4. units[n].casm = CasmPathOf(cInputs[n])
  BY <1>3
<1>. QED  BY <1>1, <1>2, <1>3, <1>4, Extended DEF CasmPathOf

(* Units of different sources are written to different files. *)
LEMMA CasmApart ==
  ASSUME BuildInv, SourcesApart, NEW m \in 1..Len(units), NEW n \in 1..Len(units), units[m].casm = units[n].casm
  PROVE  units[m] = units[n]
<1>1. /\ m \in 1..Len(cInputs) /\ cInputs[m] \in Range(cInputs) /\ n \in 1..Len(cInputs) /\ cInputs[n] \in Range(cInputs)
      /\ units[m] = [source |-> cInputs[m], casm |-> CasmPathOf(cInputs[m])]
      /\ units[n] = [source |-> cInputs[n], casm |-> CasmPathOf(cInputs[n])]
  BY UnitCasm
<1>2. CASE SingleOutput
  <2>1. m = 1 /\ n = 1
    BY <1>1, <1>2 DEF SingleOutput
  <2>. QED  BY <2>1
<1>3. CASE ~SingleOutput
  <2>1. ObjectOf(cInputs[m]) = ObjectOf(cInputs[n])
    BY <1>3, UnitCasm
  <2>2. cInputs[m] = cInputs[n]
    BY <1>1, <2>1 DEF SourcesApart
  <2>. QED  BY <1>1, <2>2
<1>. QED  BY <1>2, <1>3

(* What else is written has an extension of its own. *)
LEMMA OthersExtension ==
  ASSUME BuildInv, at \in Writing \cup Linking
  PROVE  ProgramPath.ext = "cres" /\ DeclarationsPath.ext = "decls.casm" /\ \A n \in 1..Len(CasmFiles) : ObjectOf(CasmFiles[n]).ext = "cobj"
<1>1. IsPath(options.output) /\ options.ok
  BY DEF BuildInv, OptionsWell, OptionsRead, Progress, Writing, Linking
<1>2. IsPath(options.inputs[1])
  <2>1. IsSequence(options.inputs) /\ options.inputs # << >> /\ \A p \in Range(options.inputs) : IsPath(p)
    BY <1>1 DEF BuildInv, OptionsWell, OptionsRead
  <2>2. Len(options.inputs) \in Nat /\ Len(options.inputs) # 0
    BY <2>1 DEF IsSequence
  <2>3. 1 \in 1..Len(options.inputs)
    BY <2>2
  <2>. QED  BY <2>1, <2>3, SequenceFacts
<1>3. ASSUME NEW n \in 1..Len(CasmFiles) PROVE IsPath(CasmFiles[n])
  <2>1. /\ IsSequence(units) /\ IsSequence(casmInputs) /\ Len(units) \in Nat /\ Len(casmInputs) \in Nat
        /\ Len(CasmFiles) = Len(units) + Len(casmInputs)
    BY InputFacts, SequenceFacts, CasmFilesAre DEF BuildInv, UnitsWell
  <2>2. CASE n <= Len(units)
    <3>1. n \in 1..Len(units) /\ CasmFiles[n] = units[n].casm
      BY <2>1, <2>2, CasmFilesAre
    <3>. QED  BY <3>1, UnitCasm
  <2>3. CASE ~(n <= Len(units))
    <3>1. n - Len(units) \in 1..Len(casmInputs) /\ Len(units) + (n - Len(units)) = n
      BY <2>1, <2>3
    <3>2. CasmFiles[n] = casmInputs[n - Len(units)]
      BY <3>1, CasmFilesAre
    <3>. QED  BY <2>1, <3>1, <3>2, InputFacts, SequenceFacts DEF BuildInv
  <2>. QED  BY <2>2, <2>3
<1>4. CasmFiles # << >> => IsPath(CasmFiles[1])
  <2>. SUFFICES ASSUME CasmFiles # << >> PROVE IsPath(CasmFiles[1])
    OBVIOUS
  <2>1. IsSequence(CasmFiles) /\ Len(CasmFiles) \in Nat
    BY CasmFilesAre, SequenceFacts
  <2>2. Len(CasmFiles) # 0
    BY <2>1 DEF IsSequence
  <2>. QED  BY <1>3, <2>1, <2>2
<1>5. ProgramPath.ext = "cres"
  BY <1>1, <1>2, <1>4, Extended DEF ProgramPath
<1>6. DeclarationsPath.ext = "decls.casm"
  BY <1>1, <1>2, Extended DEF DeclarationsPath
<1>. QED  BY <1>3, <1>5, <1>6, Extended DEF ObjectOf

LEMMA TextKept ==
  ASSUME UNCHANGED <<options, found, units>>, NEW n, HoldsText(units[n]),
         units[n].casm \in DOMAIN files', files'[units[n].casm] = files[units[n].casm]
  PROVE  HoldsText(units[n])'
<1>1. TextOf(units[n])' = TextOf(units[n])
  BY NamesStay
<1>. QED  BY <1>1 DEF HoldsText, Exists

(* The assembly of the units stays when anything else is written. *)
LEMMA TextsKept ==
  ASSUME UNCHANGED <<options, found, units>>, \A n \in 1..Len(units) : HoldsText(units[n]),
         \A n \in 1..Len(units) : units[n].casm \in DOMAIN files => units[n].casm \in DOMAIN files' /\ files'[units[n].casm] = files[units[n].casm]
  PROVE  \A n \in 1..Len(units') : HoldsText(units[n])'
<1>. SUFFICES ASSUME NEW n \in 1..Len(units) PROVE HoldsText(units[n])'
  OBVIOUS
<1>1. units[n].casm \in DOMAIN files
  BY DEF HoldsText, Exists
<1>. QED  BY <1>1, TextKept

LEMMA TextsKeptByHolding ==
  ASSUME BuildInv, at \in Linking, UNCHANGED <<options, found, units>>, \A n \in 1..Len(units) : HoldsText(units[n]),
         NEW path, NEW content, path.ext # "casm", files' = Holding(path, content)
  PROVE  \A n \in 1..Len(units') : HoldsText(units[n])'
<1>1. ~SingleOutput
  BY DEF BuildInv, Progress, SingleOutput
<1>2. \A n \in 1..Len(units) : units[n].casm # path
  BY <1>1, UnitCasm
<1>. QED  BY ZenonT(60), <1>2, HoldingIs, TextsKept

LEMMA CodeInit == Init => CodeInv
BY DEF Init, CodeInv, Linking

LEMMA CodeEarly ==
  ASSUME FindStdlib \/ FindLibrary \/ CheckGiven \/ Preprocess \/ Parse \/ Check \/ Lower \/ Generate \/ EndCompilation
  PROVE  CodeInv'
<1>1. /\ at' \notin {"write"} \cup Linking
      /\ at' = "done" => exit' # 0 \/ options'.stop # {}
  <2>1. CASE FindStdlib \/ FindLibrary \/ CheckGiven
    BY <2>1 DEF FindStdlib, FindLibrary, CheckGiven, GoTo, NextTurn, Fail, Linking
  <2>2. CASE Preprocess \/ Parse \/ Check
    BY <2>2 DEF Preprocess, Parse, Check, NextTurn, Fail, Linking
  <2>3. CASE Lower \/ Generate \/ EndCompilation
    BY <2>3 DEF Lower, Generate, EndCompilation, GoTo, Fail, Linking
  <2>. QED  BY <2>1, <2>2, <2>3
<1>. QED  BY <1>1 DEF CodeInv

LEMMA CodeIsWritten == BuildInv /\ CodeInv /\ WriteUnit => CodeInv'
<1>. SUFFICES ASSUME BuildInv, CodeInv, WriteUnit, SourcesApart' PROVE CodeInv'
  BY DEF CodeInv
<1>1. UNCHANGED <<options, found, units>> /\ at = "write"
  BY DEF WriteUnit
<1>2. SourcesApart
  BY <1>1, NamesStay
<1>3. Len(units) \in Nat /\ turn \in Nat /\ turn > 0
  BY SequenceFacts DEF BuildInv, UnitsWell, Progress
<1>4. \A n \in 1..Len(units) : n < turn => HoldsText(units[n])
  BY <1>1, <1>2 DEF CodeInv
<1>5. CASE turn > Len(units) /\ UNCHANGED files
  <2>1. \A n \in 1..Len(units) : HoldsText(units[n])
    BY <1>3, <1>4, <1>5
  <2>2. \A n \in 1..Len(units') : HoldsText(units[n])'
    BY <1>1, <1>5, <2>1, TextsKept
  <2>3. at' # "write"
    BY <1>5 DEF WriteUnit, GoTo, Fail
  <2>. QED  BY <2>2, <2>3 DEF CodeInv
<1>6. CASE ~(turn > Len(units)) /\ at' = "done" /\ exit' = 1
  BY <1>6 DEF CodeInv, Linking
<1>7. CASE ~(turn > Len(units)) /\ files' = Holding(units[turn].casm, TextOf(units[turn])) /\ NextTurn
  <2>1. at' = "write" /\ turn' = turn + 1
    BY <1>1, <1>7 DEF NextTurn
  <2>2. /\ DOMAIN files' = DOMAIN files \cup {units[turn].casm} /\ files'[units[turn].casm] = TextOf(units[turn])
        /\ \A other \in DOMAIN files \ {units[turn].casm} : files'[other] = files[other]
    BY <1>7, HoldingIs
  <2>3. \A unit : TextOf(unit)' = TextOf(unit)
    BY <1>1, NamesStay
  <2>4. ASSUME NEW n \in 1..Len(units), n < turn + 1 PROVE HoldsText(units[n])'
    <3>1. CASE units[n].casm = units[turn].casm
      <4>1. units[n] = units[turn]
        BY <1>2, <1>3, <1>7, <3>1, CasmApart
      <4>2. TextOf(units[n])' = TextOf(units[n])
        BY <1>1, NamesStay
      <4>3. units[n].casm \in DOMAIN files' /\ files'[units[n].casm] = TextOf(units[n])
        BY <2>2, <4>1
      <4>. QED  BY <1>1, <4>2, <4>3 DEF HoldsText, Exists
    <3>2. CASE units[n].casm # units[turn].casm
      <4>1. HoldsText(units[n])
        <5>1. n # turn
          BY <3>2
        <5>. QED  BY <1>3, <1>4, <2>4, <5>1
      <4>2. units[n].casm \in DOMAIN files
        BY <4>1 DEF HoldsText, Exists
      <4>. QED  BY <1>1, <2>2, <3>2, <4>1, <4>2, TextKept
    <3>. QED  BY <3>1, <3>2
  <2>. QED  BY <1>1, <2>1, <2>4 DEF CodeInv, Linking
<1>. QED  BY <1>5, <1>6, <1>7 DEF WriteUnit, Writes, Fail

LEMMA CodeStays == BuildInv /\ CodeInv /\ (Assemble \/ Link \/ RunProgram \/ Clean) => CodeInv'
<1>. SUFFICES ASSUME BuildInv, CodeInv, Assemble \/ Link \/ RunProgram \/ Clean, SourcesApart' PROVE CodeInv'
  BY DEF CodeInv
<1>1. UNCHANGED <<options, found, units>> /\ at \in Linking
  BY DEF Assemble, Link, RunProgram, Clean, Linking
<1>2. \A n \in 1..Len(units) : HoldsText(units[n])
  <2>1. SourcesApart
    BY <1>1, NamesStay
  <2>. QED  BY <1>1, <2>1 DEF CodeInv
<1>3. at' # "write"
  BY DEF Assemble, Link, RunProgram, Clean, Subprocess, GoTo, Fail, NextTurn
<1>4. ASSUME \A n \in 1..Len(units') : HoldsText(units[n])' PROVE CodeInv'
  BY <1>3, <1>4 DEF CodeInv
<1>5. ASSUME UNCHANGED files PROVE CodeInv'
  <2>1. \A n \in 1..Len(units') : HoldsText(units[n])'
    BY <1>1, <1>2, <1>5, TextsKept
  <2>. QED  BY <1>4, <2>1
<1>6. CASE Assemble
  <2>1. \/ UNCHANGED files
        \/ turn <= Len(CasmFiles) /\ \E content : files' = Holding(ObjectOf(CasmFiles[turn]), content)
    <3>1. turn \in Nat /\ Len(CasmFiles) \in Nat
      BY CasmFilesAre, SequenceFacts DEF BuildInv, Progress
    <3>. QED  BY <1>6, <3>1 DEF Assemble, Subprocess
  <2>2. turn <= Len(CasmFiles) => ObjectOf(CasmFiles[turn]).ext = "cobj"
    <3>1. turn \in Nat /\ turn > 0 /\ Len(CasmFiles) \in Nat
      BY CasmFilesAre, SequenceFacts DEF BuildInv, Progress
    <3>. QED  BY <1>1, <3>1, OthersExtension
  <2>3. CASE ~UNCHANGED files
    <3>1. \A n \in 1..Len(units') : HoldsText(units[n])'
      BY <1>1, <1>2, <2>1, <2>2, <2>3, TextsKeptByHolding
    <3>. QED  BY <1>4, <3>1
  <2>. QED  BY <1>5, <2>3
<1>7. CASE Link
  <2>1. UNCHANGED files \/ \E content : files' = Holding(ProgramPath, content)
    BY <1>7 DEF Link, Subprocess
  <2>2. CASE ~UNCHANGED files
    <3>1. \A n \in 1..Len(units') : HoldsText(units[n])'
      BY <1>1, <1>2, <2>1, <2>2, OthersExtension, TextsKeptByHolding
    <3>. QED  BY <1>4, <3>1
  <2>. QED  BY <1>5, <2>2
<1>8. CASE RunProgram
  <2>1. UNCHANGED files
    BY <1>8 DEF RunProgram
  <2>. QED  BY <1>5, <2>1
<1>9. CASE Clean
  <2>1. CASE options.clean = "all"
    <3>1. at' = "done" /\ options'.clean = "all"
      BY <1>1, <1>9, <2>1 DEF Clean, Fail
    <3>. QED  BY <3>1 DEF CodeInv, Linking
  <2>2. CASE options.clean # "all"
    <3>1. \A path \in DOMAIN files \ Generated : path \in DOMAIN files' /\ files'[path] = files[path]
      BY <1>9 DEF Clean, Without
    <3>2. ASSUME NEW n \in 1..Len(units) PROVE units[n].casm \notin Generated
      <4>1. ~SingleOutput
        BY <1>1 DEF BuildInv, Progress, SingleOutput
      <4>2. units[n].casm.ext = "casm"
        BY <4>1, UnitCasm
      <4>3. \A casm \in Range(CasmFiles) : ObjectOf(casm).ext = "cobj"
        <5>1. IsSequence(CasmFiles)
          BY CasmFilesAre
        <5>2. \A casm \in Range(CasmFiles) : \E m \in 1..Len(CasmFiles) : casm = CasmFiles[m]
          BY <5>1, SequenceFacts
        <5>. QED  BY <1>1, <5>2, OthersExtension
      <4>. QED  BY <1>1, <2>2, <4>2, <4>3, OthersExtension DEF Generated
    <3>3. \A n \in 1..Len(units') : HoldsText(units[n])'
      BY <1>1, <1>2, <3>1, <3>2, TextsKept
    <3>. QED  BY <1>4, <3>3
  <2>. QED  BY <2>1, <2>2
<1>. QED  BY <1>6, <1>7, <1>8, <1>9

LEMMA CodeNext == BuildInv /\ CodeInv /\ [Next]_vars => CodeInv'
<1>1. ASSUME CodeInv, UNCHANGED vars PROVE CodeInv'
  <2>1. UNCHANGED <<options, found, units, files, at, turn, exit>>
    BY <1>1 DEF vars
  <2>2. SourcesApart' = SourcesApart /\ \A unit : TextOf(unit)' = TextOf(unit)
    BY <2>1, NamesStay
  <2>3. \A n \in 1..Len(units) : HoldsText(units[n])' = HoldsText(units[n])
    BY <2>1, <2>2 DEF HoldsText, Exists
  <2>. QED  BY <1>1, <2>1, <2>2, <2>3 DEF CodeInv
<1>2. ASSUME Declare \/ Publish PROVE CodeInv'
  <2>1. at' \notin Linking /\ (at' = "write" => turn' = 1) /\ (at' = "done" => exit' = 1)
    BY <1>2 DEF Declare, Publish, Writes, GoTo, Fail, Linking
  <2>2. \A n \in 1..Len(units') : ~(n < 1)
    OBVIOUS
  <2>. QED  BY <2>1, <2>2 DEF CodeInv
<1>. QED  BY <1>1, <1>2, CodeEarly, CodeIsWritten, CodeStays DEF Next, Returned

(* A build that returns 0 compiled every C input and, with --run, linked a   *)
(* program; its assembly is there, each unit's own, unless it was to be    *)
(* cleaned away.  Where two sources would have the same object, one         *)
THEOREM ZeroIsDone == Spec => [](SourcesApart => ZeroMeansDone)
<1>1. Init => BuildInv /\ ErrorInv /\ CodeInv
  BY BuildInit, ErrorInit, CodeInit
<1>2. BuildInv /\ ErrorInv /\ CodeInv /\ [Next]_vars => (BuildInv /\ ErrorInv /\ CodeInv)'
  BY BuildNext, ErrorNext, CodeNext
<1>3. BuildInv /\ ErrorInv /\ CodeInv => (SourcesApart => ZeroMeansDone)
  <2>. SUFFICES ASSUME BuildInv, ErrorInv, CodeInv, SourcesApart, at = "done", exit = 0 PROVE ZeroMeansDone
    BY DEF ZeroMeansDone
  <2>1. NoErrorWentUnsaid
    BY DEF ErrorInv, ErrorsCounted, NoErrorWentUnsaid
  <2>2. options.stop = {} => Len(units) = Len(cInputs) /\ (options.run => linked # << >>)
    BY DEF BuildInv, Outcome
  <2>3. \A unit \in Range(units) : \E n \in 1..Len(units) : unit = units[n]
    BY SequenceFacts DEF BuildInv, UnitsWell
  <2>4. options.stop = {} /\ options.clean # "all" => \A unit \in Range(units) : Exists(unit.casm) /\ files[unit.casm] = TextOf(unit)
    BY <2>3 DEF CodeInv, HoldsText
  <2>. QED  BY <2>1, <2>2, <2>4 DEF ZeroMeansDone
<1>. QED  BY <1>1, <1>2, <1>3, PTL DEF Spec

-----------------------------------------------------------------------------
(* The objects that are assembled and the program that is linked. *)
SourceOf(n) == IF n <= Len(units) THEN units[n].source ELSE CasmFiles[n]

(* Each file that is assembled comes of an input of its own. *)
LEMMA SourcesAre ==
  ASSUME BuildInv, at \in Linking, NEW n \in 1..Len(CasmFiles)
  PROVE  /\ n <= Len(units) => /\ n \in 1..Len(units) /\ SourceOf(n) = units[n].source /\ SourceOf(n) \in Range(cInputs)
                               /\ CasmFiles[n] = units[n].casm
         /\ ~(n <= Len(units)) => SourceOf(n) = CasmFiles[n] /\ SourceOf(n) \in Range(casmInputs)
         /\ IsPath(CasmFiles[n]) /\ CasmFiles[n].ext = "casm"
         /\ ObjectOf(CasmFiles[n]) = ObjectOf(SourceOf(n))
<1>1. /\ IsSequence(units) /\ IsSequence(casmInputs) /\ Len(units) \in Nat /\ Len(casmInputs) \in Nat
      /\ Len(CasmFiles) = Len(units) + Len(casmInputs)
  BY InputFacts, SequenceFacts, CasmFilesAre DEF BuildInv, UnitsWell
<1>2. ~SingleOutput
  BY DEF BuildInv, Progress, SingleOutput
<1>3. CASE n <= Len(units)
  <2>1. n \in 1..Len(units) /\ CasmFiles[n] = units[n].casm
    BY <1>1, <1>3, CasmFilesAre
  <2>2. /\ cInputs[n] \in Range(cInputs) /\ units[n] = [source |-> cInputs[n], casm |-> CasmPathOf(cInputs[n])]
        /\ IsPath(units[n].casm) /\ units[n].casm.ext = "casm" /\ ObjectOf(units[n].casm) = ObjectOf(cInputs[n])
    BY <1>2, <2>1, UnitCasm
  <2>3. units[n].source = cInputs[n]
    BY <2>2
  <2>. QED  BY <1>3, <2>1, <2>2, <2>3 DEF SourceOf
<1>4. CASE ~(n <= Len(units))
  <2>1. n - Len(units) \in 1..Len(casmInputs) /\ Len(units) + (n - Len(units)) = n
    BY <1>1, <1>4
  <2>2. CasmFiles[n] = casmInputs[n - Len(units)]
    BY <2>1, CasmFilesAre
  <2>. QED  BY <1>1, <1>4, <2>1, <2>2, InputFacts, SequenceFacts DEF SourceOf, BuildInv
<1>. QED  BY <1>3, <1>4

LEMMA KindsApart == ASSUME BuildInv PROVE Range(cInputs) \cap Range(casmInputs) = {}
<1>1. \A kind : Range(InputsOf(kind)) = {p \in Range(options.inputs) : KindOf(p) = kind}
  BY InputsOfAKind DEF BuildInv
<1>2. "c" # "casm"
  OBVIOUS
<1>. QED  BY <1>1, <1>2 DEF cInputs, casmInputs

(* What is named to be linked is no file the build makes of its own accord. *)
LEMMA LinkedAreNotMade ==
  ASSUME BuildInv, NamedWell, at \in Linking, NEW p \in Range(casmInputs) \cup Range(objects) \cup Range(archives)
  PROVE  p \notin MadeFiles
<1>1. ~SingleOutput
  BY DEF BuildInv, Progress, SingleOutput
<1>2. IsPath(p) /\ p.ext \in {"casm", "cobj", "car"} /\ (p.ext = "casm" => p \in Range(casmInputs)) /\ (p.ext = "cobj" => p \in Range(objects))
  BY InputFacts DEF BuildInv, FoundWell
<1>3. p # options.emitDecls
  BY DEF NamedWell
<1>4. p # ProgramPath /\ p # DeclarationsPath
  BY <1>2, OthersExtension
<1>5. ASSUME NEW unit \in Range(units), p = unit.casm PROVE FALSE
  <2>1. PICK n \in 1..Len(units) : unit = units[n]
    BY SequenceFacts DEF BuildInv, UnitsWell
  <2>2. p.ext = "casm" /\ ObjectOf(p) = ObjectOf(cInputs[n]) /\ cInputs[n] \in Range(cInputs)
    BY <1>1, <1>5, <2>1, UnitCasm
  <2>3. p = cInputs[n]
    BY <1>2, <2>2 DEF NamedWell, SourcesApart
  <2>. QED  BY <1>2, <2>2, <2>3, KindsApart
<1>6. p \notin {ObjectOf(casm) : casm \in Range(CasmFiles)} \ Range(objects)
  <2>1. ASSUME NEW casm \in Range(CasmFiles), p = ObjectOf(casm), p \notin Range(objects) PROVE FALSE
    <3>1. PICK n \in 1..Len(CasmFiles) : casm = CasmFiles[n]
      BY CasmFilesAre, SequenceFacts
    <3>2. p.ext = "cobj"
      BY <2>1, <3>1, OthersExtension
    <3>. QED  BY <1>2, <2>1, <3>2
  <2>. QED  BY <2>1
<1>. QED  BY <1>3, <1>4, <1>5, <1>6 DEF MadeFiles

LEMMA LinkedAreGiven ==
  ASSUME BuildInv, KeptInv, NamedWell, at \in Linking, NEW p \in Range(casmInputs) \cup Range(objects) \cup Range(archives),
         p \in DOMAIN files \cup Present \cup Leftovers
  PROVE  Exists(p) /\ files[p] = Given(p)
<1>1. p \notin MadeFiles /\ p \notin Leftovers \ Present
  BY LinkedAreNotMade DEF NamedWell
<1>2. p \in Present
  BY <1>1 DEF KeptInv, OnlyMade
<1>. QED  BY <1>1, <1>2 DEF KeptInv, OnlyMade, AsBefore, Exists

(* What is assembled is what this build made or was given. *)
LEMMA AssembledIsMade ==
  ASSUME BuildInv, KeptInv, CodeInv, NamedWell, at \in Linking, NEW n \in 1..Len(CasmFiles), Exists(CasmFiles[n])
  PROVE  files[CasmFiles[n]] = MadeOf(n)
<1>1. CASE n <= Len(units)
  <2>1. HoldsText(units[n]) /\ CasmFiles[n] = units[n].casm
    BY <1>1, SourcesAre DEF CodeInv, NamedWell
  <2>. QED  BY <1>1, <2>1 DEF HoldsText, MadeOf
<1>2. CASE ~(n <= Len(units))
  <2>1. CasmFiles[n] \in Range(casmInputs)
    BY <1>2, SourcesAre
  <2>. QED  BY <1>2, <2>1, LinkedAreGiven DEF MadeOf, Exists
<1>. QED  BY <1>1, <1>2

(* One object is never made of two things. *)
LEMMA ObjectsApart ==
  ASSUME BuildInv, NamedWell, at \in Linking, NEW m \in 1..Len(CasmFiles), NEW n \in 1..Len(CasmFiles),
         ObjectOf(CasmFiles[m]) = ObjectOf(CasmFiles[n])
  PROVE  MadeOf(m) = MadeOf(n)
<1>1. SourceOf(m) = SourceOf(n)
  BY SourcesAre DEF NamedWell, SourcesApart
<1>2. (m <= Len(units)) <=> (n <= Len(units))
  BY <1>1, SourcesAre, KindsApart
<1>3. CASE m <= Len(units)
  <2>1. units[m].source = units[n].source
    BY <1>1, <1>2, <1>3, SourcesAre
  <2>. QED  BY <1>2, <1>3, <2>1 DEF MadeOf, TextOf
<1>4. CASE ~(m <= Len(units))
  <2>1. CasmFiles[m] = CasmFiles[n]
    BY <1>1, <1>2, <1>4, SourcesAre
  <2>. QED  BY <1>2, <1>4, <2>1 DEF MadeOf
<1>. QED  BY <1>3, <1>4

Promised ==
  [n \in DOMAIN units |-> Object(TextOf(units[n]))] \o [n \in DOMAIN casmInputs |-> Object(Given(casmInputs[n]))]
    \o [n \in DOMAIN (objects \o archives) |-> Given((objects \o archives)[n])]

LEMMA SameSequence ==
  ASSUME NEW s, NEW t, IsSequence(s), IsSequence(t), Len(s) = Len(t), \A n \in 1..Len(s) : s[n] = t[n]
  PROVE  s = t
<1>1. DOMAIN s = 1..Len(s) /\ DOMAIN t = 1..Len(t)
  BY SequenceFacts
<1>2. s = [n \in 1..Len(s) |-> s[n]] /\ t = [n \in 1..Len(t) |-> t[n]]
  BY <1>1 DEF IsSequence
<1>. QED  BY <1>2

LEMMA PromisedIs ==
  ASSUME BuildInv
  PROVE  /\ IsSequence(Promised) /\ Len(Promised) = Len(LinkArguments)
         /\ \A n \in 1..Len(CasmFiles) : Promised[n] = Object(MadeOf(n))
         /\ \A n \in 1..Len(objects \o archives) : Promised[Len(CasmFiles) + n] = Given((objects \o archives)[n])
<1>. DEFINE A == [n \in DOMAIN units |-> Object(TextOf(units[n]))]
            B == [n \in DOMAIN casmInputs |-> Object(Given(casmInputs[n]))]
            given == objects \o archives
            C == [n \in DOMAIN given |-> Given(given[n])]
<1>1. /\ IsSequence(units) /\ IsSequence(casmInputs) /\ IsSequence(given) /\ Len(LinkArguments) = Len(CasmFiles) + Len(given)
      /\ Len(CasmFiles) = Len(units) + Len(casmInputs)
      /\ \A n \in 1..Len(casmInputs) : CasmFiles[Len(units) + n] = casmInputs[n]
  BY InputFacts, CasmFilesAre, LinkArgumentsAre DEF BuildInv, UnitsWell
<1>. HIDE DEF given
<1>2. /\ Len(units) \in Nat /\ DOMAIN units = 1..Len(units) /\ Len(casmInputs) \in Nat /\ DOMAIN casmInputs = 1..Len(casmInputs)
      /\ Len(given) \in Nat /\ DOMAIN given = 1..Len(given)
  BY <1>1, SequenceFacts
<1>3. /\ A = [n \in 1..Len(units) |-> A[n]] /\ \A n \in 1..Len(units) : A[n] = Object(TextOf(units[n]))
  BY <1>2
<1>4. /\ B = [n \in 1..Len(casmInputs) |-> B[n]] /\ \A n \in 1..Len(casmInputs) : B[n] = Object(Given(casmInputs[n]))
  BY <1>2
<1>5. /\ C = [n \in 1..Len(given) |-> C[n]] /\ \A n \in 1..Len(given) : C[n] = Given(given[n])
  BY <1>2
<1>6. Promised = (A \o B) \o C
  BY DEF Promised, given
<1>. HIDE DEF A, B, C
<1>7. IsSequence(A) /\ Len(A) = Len(units) /\ IsSequence(B) /\ Len(B) = Len(casmInputs) /\ IsSequence(C) /\ Len(C) = Len(given)
  BY <1>2, <1>3, <1>4, <1>5, FunctionIsSequence
<1>j. \A s, t : IsSequence(s) /\ IsSequence(t) =>
         /\ IsSequence(s \o t) /\ Len(s \o t) = Len(s) + Len(t)
         /\ \A n \in 1..Len(s) : (s \o t)[n] = s[n]
         /\ \A n \in 1..Len(t) : (s \o t)[Len(s) + n] = t[n]
  BY Joined
<1>. DEFINE AB == A \o B
<1>8. /\ IsSequence(AB) /\ Len(AB) = Len(A) + Len(B)
      /\ \A n \in 1..Len(A) : AB[n] = A[n]
      /\ \A n \in 1..Len(B) : AB[Len(A) + n] = B[n]
  BY <1>7, <1>j
<1>. HIDE DEF AB
<1>9. /\ IsSequence(AB \o C) /\ Len(AB \o C) = Len(AB) + Len(C)
      /\ \A n \in 1..Len(AB) : (AB \o C)[n] = AB[n]
      /\ \A n \in 1..Len(C) : (AB \o C)[Len(AB) + n] = C[n]
  BY <1>7, <1>8, <1>j
<1>10. Promised = AB \o C
  BY <1>6 DEF AB
<1>11. IsSequence(Promised) /\ Len(Promised) = Len(LinkArguments) /\ Len(AB) = Len(CasmFiles)
  BY <1>1, <1>7, <1>8, <1>9, <1>10
<1>12. ASSUME NEW n \in 1..Len(CasmFiles) PROVE Promised[n] = Object(MadeOf(n))
  <2>1. Promised[n] = AB[n]
    BY <1>9, <1>10, <1>11
  <2>2. CASE n <= Len(units)
    <3>1. n \in 1..Len(units)
      BY <1>1, <1>2, <2>2
    <3>. QED  BY <1>3, <1>7, <1>8, <2>1, <2>2, <3>1 DEF MadeOf
  <2>3. CASE ~(n <= Len(units))
    <3>1. n - Len(units) \in 1..Len(casmInputs) /\ Len(units) + (n - Len(units)) = n
      BY <1>1, <1>2, <2>3
    <3>2. AB[n] = B[n - Len(units)] /\ CasmFiles[n] = casmInputs[n - Len(units)]
      BY <1>1, <1>7, <1>8, <3>1
    <3>. QED  BY <1>4, <2>1, <2>3, <3>1, <3>2 DEF MadeOf
  <2>. QED  BY <2>2, <2>3
<1>13. \A n \in 1..Len(given) : Promised[Len(CasmFiles) + n] = Given(given[n])
  BY <1>5, <1>7, <1>9, <1>10, <1>11
<1>. QED  BY <1>11, <1>12, <1>13 DEF given

LEMMA LinksWhatIsPromised ==
  ASSUME BuildInv, KeptInv, NamedWell, at \in Linking, \A n \in 1..Len(CasmFiles) : HoldsObject(n),
         Range(objects) \cup Range(archives) \subseteq Present \cup Leftovers
  PROVE  [n \in DOMAIN LinkArguments |-> files[LinkArguments[n]]] = Promised
<1>. DEFINE contents == [n \in DOMAIN LinkArguments |-> files[LinkArguments[n]]]
            given == objects \o archives
<1>1. /\ IsSequence(LinkArguments) /\ Len(LinkArguments) \in Nat /\ DOMAIN LinkArguments = 1..Len(LinkArguments)
      /\ Len(CasmFiles) \in Nat /\ Len(given) \in Nat /\ Len(LinkArguments) = Len(CasmFiles) + Len(given)
      /\ \A n \in 1..Len(CasmFiles) : LinkArguments[n] = ObjectOf(CasmFiles[n])
      /\ \A n \in 1..Len(given) : LinkArguments[Len(CasmFiles) + n] = given[n] /\ given[n] \in Range(objects) \cup Range(archives)
  BY LinkArgumentsAre, CasmFilesAre, SequenceFacts
<1>2. contents = [n \in 1..Len(LinkArguments) |-> contents[n]]
  BY <1>1
<1>3. \A n \in 1..Len(LinkArguments) : contents[n] = files[LinkArguments[n]]
  BY <1>1
<1>. HIDE DEF contents
<1>4. IsSequence(contents) /\ Len(contents) = Len(LinkArguments)
  BY <1>1, <1>2, FunctionIsSequence
<1>5. ASSUME NEW n \in 1..Len(LinkArguments) PROVE contents[n] = Promised[n]
  <2>1. CASE n <= Len(CasmFiles)
    <3>1. n \in 1..Len(CasmFiles)
      BY <1>1, <2>1
    <3>2. contents[n] = Object(MadeOf(n))
      BY <1>1, <1>3, <3>1 DEF HoldsObject
    <3>. QED  BY <3>1, <3>2, PromisedIs
  <2>2. CASE ~(n <= Len(CasmFiles))
    <3>1. n - Len(CasmFiles) \in 1..Len(given) /\ Len(CasmFiles) + (n - Len(CasmFiles)) = n
      BY <1>1, <2>2
    <3>. DEFINE p == given[n - Len(CasmFiles)]
    <3>2. LinkArguments[n] = p /\ p \in Range(objects) \cup Range(archives)
      BY <1>1, <3>1
    <3>3. Promised[n] = Given(p)
      BY <3>1, PromisedIs
    <3>. HIDE DEF p
    <3>4. files[p] = Given(p)
      BY <3>2, LinkedAreGiven
    <3>. QED  BY <1>3, <3>2, <3>3, <3>4
  <2>. QED  BY <2>1, <2>2
<1>6. contents = Promised
  BY <1>4, <1>5, PromisedIs, SameSequence
<1>. QED  BY <1>6 DEF contents

(* What was found to be there was there before. *)
FoundGiven ==
  at \notin Starting \cup {"done"} => Range(objects) \cup Range(archives) \cup Range(decls) \subseteq Present \cup Leftovers
NotLinked == at \notin {"run", "clean", "done"} => linked = << >>
ObjectsInv ==
  NamedWell =>
    /\ at = "assemble" => \A n \in 1..Len(CasmFiles) : n < turn => HoldsObject(n)
    /\ at = "link" => \A n \in 1..Len(CasmFiles) : HoldsObject(n)
    /\ ProgramIsWhatWasCompiled
LinkedInv == FoundGiven /\ NotLinked /\ ObjectsInv

LEMMA LinkedInit == Init => LinkedInv
BY DEF Init, LinkedInv, FoundGiven, NotLinked, ObjectsInv, Starting, ProgramIsWhatWasCompiled

LEMMA JoinedRange ==
  ASSUME BuildInv
  PROVE  Range(objects \o archives \o decls) = Range(objects) \cup Range(archives) \cup Range(decls)
<1>1. IsSequence(objects) /\ IsSequence(archives) /\ IsSequence(decls)
  BY DEF BuildInv, FoundWell
<1>2. \A s, t : IsSequence(s) /\ IsSequence(t) => IsSequence(s \o t) /\ Range(s \o t) = Range(s) \cup Range(t)
  BY Joined
<1>. DEFINE both == objects \o archives
<1>3. IsSequence(both) /\ Range(both) = Range(objects) \cup Range(archives)
  BY <1>1, <1>2
<1>4. objects \o archives \o decls = both \o decls
  OBVIOUS
<1>. HIDE DEF both
<1>. QED  BY <1>1, <1>2, <1>3, <1>4

LEMMA LinkedEarly ==
  ASSUME BuildInv, KeptInv, LinkedInv,
         FindStdlib \/ FindLibrary \/ CheckGiven \/ Preprocess \/ Parse \/ Check \/ Lower \/ Generate \/ EndCompilation
  PROVE  LinkedInv'
<1>1. at \in Unwritten /\ at' \in Unwritten \cup {"done"}
  BY EarlySteps
<1>2. linked' = linked /\ linked = << >>
  <2>1. linked' = linked
    BY DEF FindStdlib, FindLibrary, CheckGiven, Preprocess, Parse, Check, Lower, Generate, EndCompilation
  <2>2. linked = << >>
    BY <1>1 DEF LinkedInv, NotLinked, Unwritten, Starting, Compiling
  <2>. QED  BY <2>1, <2>2
<1>3. FoundGiven'
  <2>1. CASE FindStdlib \/ FindLibrary
    BY <2>1 DEF FindStdlib, FindLibrary, GoTo, NextTurn, Fail, FoundGiven, Starting
  <2>2. CASE CheckGiven
    <3>1. UNCHANGED <<objects, archives, decls>>
      BY <2>2 DEF CheckGiven, found
    <3>2. at' # "done" => \A p \in Range(objects \o archives \o decls) : Exists(p)
      BY <2>2 DEF CheckGiven, Fail
    <3>3. DOMAIN files \subseteq Present \cup Leftovers
      BY <1>1 DEF KeptInv, OnlyMade
    <3>. QED  BY <3>1, <3>2, <3>3, JoinedRange DEF FoundGiven, Exists
  <2>3. CASE Preprocess \/ Parse \/ Check \/ Lower \/ Generate \/ EndCompilation
    <3>1. at \notin Starting \cup {"done"} /\ UNCHANGED <<objects, archives, decls>>
      BY <2>3 DEF Preprocess, Parse, Check, Lower, Generate, EndCompilation, Starting, found
    <3>. QED  BY <3>1 DEF LinkedInv, FoundGiven
  <2>. QED  BY <2>1, <2>2, <2>3
<1>. QED  BY <1>1, <1>2, <1>3 DEF LinkedInv, NotLinked, ObjectsInv, ProgramIsWhatWasCompiled, Unwritten, Starting, Compiling

LEMMA PromisedStays ==
  ASSUME UNCHANGED <<options, found, units>>
  PROVE  Promised' = Promised
<1>1. UNCHANGED <<casmInputs, objects, archives>> /\ \A unit : TextOf(unit)' = TextOf(unit)
  BY NamesStay DEF found
<1>2. [n \in DOMAIN units |-> Object(TextOf(units[n]))]' = [n \in DOMAIN units |-> Object(TextOf(units[n]))]
  <2>1. \A n : TextOf(units[n])' = TextOf(units[n])
    BY NamesStay
  <2>. QED  BY <2>1
<1>. QED  BY <1>1, <1>2 DEF Promised

LEMMA ProgramIs == ProgramIsWhatWasCompiled <=> (linked # << >> => linked = Promised)
BY DEF ProgramIsWhatWasCompiled, Promised

LEMMA MadeStays ==
  ASSUME UNCHANGED <<options, found, units>>, NEW n
  PROVE  MadeOf(n)' = MadeOf(n)
<1>1. TextOf(units[n])' = TextOf(units[n]) /\ CasmFiles' = CasmFiles
  BY NamesStay
<1>. QED  BY <1>1 DEF MadeOf

LEMMA ObjectKept ==
  ASSUME UNCHANGED <<options, found, units>>, NEW n, HoldsObject(n),
         ObjectOf(CasmFiles[n]) \in DOMAIN files', files'[ObjectOf(CasmFiles[n])] = files[ObjectOf(CasmFiles[n])]
  PROVE  HoldsObject(n)'
<1>1. MadeOf(n)' = MadeOf(n) /\ CasmFiles' = CasmFiles
  BY MadeStays, NamesStay
<1>. QED  BY <1>1 DEF HoldsObject, Exists

LEMMA LinkedWhileWriting == BuildInv /\ LinkedInv /\ (Declare \/ Publish \/ WriteUnit) => LinkedInv'
<1>. SUFFICES ASSUME BuildInv, LinkedInv, Declare \/ Publish \/ WriteUnit PROVE LinkedInv'
  OBVIOUS
<1>1. UNCHANGED <<options, found, units, linked>> /\ at \in Writing
  BY DEF Declare, Publish, WriteUnit, Writing
<1>2. linked = << >>
  BY <1>1 DEF LinkedInv, NotLinked, Writing
<1>3. FoundGiven'
  BY <1>1 DEF LinkedInv, FoundGiven, Writing, Starting, found
<1>4. at' # "link" /\ (at' = "assemble" => turn' = 1)
  BY DEF Declare, Publish, WriteUnit, Writes, GoTo, Fail, NextTurn
<1>5. \A n \in 1..Len(CasmFiles') : ~(n < 1)
  OBVIOUS
<1>. QED  BY <1>1, <1>2, <1>3, <1>4, <1>5 DEF LinkedInv, NotLinked, ObjectsInv, ProgramIsWhatWasCompiled

LEMMA AssembleLinks == BuildInv /\ KeptInv /\ CodeInv /\ LinkedInv /\ Assemble => LinkedInv'
<1>. SUFFICES ASSUME BuildInv, KeptInv, CodeInv, LinkedInv, Assemble PROVE LinkedInv'
  OBVIOUS
<1>1. UNCHANGED <<options, found, units, linked>> /\ at = "assemble" /\ at \in Linking
  BY DEF Assemble, Linking
<1>2. linked = << >> /\ FoundGiven'
  BY <1>1 DEF LinkedInv, NotLinked, FoundGiven, Starting, found
<1>3. CasmFiles' = CasmFiles /\ NamedWell' = NamedWell
  BY <1>1, NamesStay
<1>4. turn \in Nat /\ turn > 0 /\ Len(CasmFiles) \in Nat
  BY CasmFilesAre, SequenceFacts DEF BuildInv, Progress
<1>5. ASSUME NamedWell
      PROVE  /\ at' = "assemble" => \A n \in 1..Len(CasmFiles) : n < turn' => HoldsObject(n)'
             /\ at' = "link" => \A n \in 1..Len(CasmFiles) : HoldsObject(n)'
  <2>0. \A n \in 1..Len(CasmFiles) : n < turn => HoldsObject(n)
    BY <1>1, <1>5 DEF LinkedInv, ObjectsInv
  <2>1. CASE turn > Len(CasmFiles) /\ at' = "link" /\ UNCHANGED files
    <3>1. \A n \in 1..Len(CasmFiles) : HoldsObject(n)
      BY <1>4, <2>0, <2>1
    <3>2. ASSUME NEW n \in 1..Len(CasmFiles) PROVE HoldsObject(n)'
      <4>1. HoldsObject(n) /\ ObjectOf(CasmFiles[n]) \in DOMAIN files
        BY <3>1 DEF HoldsObject, Exists
      <4>. QED  BY <1>1, <2>1, <4>1, ObjectKept
    <3>. QED  BY <2>1, <3>2
  <2>2. CASE at' = "done"
    BY <2>2
  <2>3. CASE /\ ~(turn > Len(CasmFiles)) /\ Exists(CasmFiles[turn]) /\ at' = "assemble" /\ turn' = turn + 1
             /\ files' = Holding(ObjectOf(CasmFiles[turn]), Object(files[CasmFiles[turn]]))
    <3>. DEFINE path == ObjectOf(CasmFiles[turn])
    <3>1. turn \in 1..Len(CasmFiles)
      BY <1>4, <2>3
    <3>2. files[CasmFiles[turn]] = MadeOf(turn)
      BY <1>1, <1>5, <2>3, <3>1, AssembledIsMade
    <3>3. /\ DOMAIN files' = DOMAIN files \cup {path} /\ files'[path] = Object(MadeOf(turn))
          /\ \A other \in DOMAIN files \ {path} : files'[other] = files[other]
      BY <2>3, <3>2, HoldingIs
    <3>4. ASSUME NEW n \in 1..Len(CasmFiles), n < turn + 1 PROVE HoldsObject(n)'
      <4>1. CASE ObjectOf(CasmFiles[n]) = path
        <5>1. MadeOf(n) = MadeOf(turn)
          BY <1>1, <1>5, <3>1, <4>1, ObjectsApart
        <5>2. MadeOf(n)' = MadeOf(n)
          BY <1>1, MadeStays
        <5>. HIDE DEF path
        <5>. QED  BY <1>3, <3>3, <4>1, <5>1, <5>2 DEF HoldsObject, Exists
      <4>2. CASE ObjectOf(CasmFiles[n]) # path
        <5>1. n # turn
          BY <4>2
        <5>2. HoldsObject(n) /\ ObjectOf(CasmFiles[n]) \in DOMAIN files
          BY <1>4, <2>0, <3>4, <5>1 DEF HoldsObject, Exists
        <5>. HIDE DEF path
        <5>. QED  BY <1>1, <3>3, <4>2, <5>2, ObjectKept
      <4>. QED  BY <4>1, <4>2
    <3>. QED  BY <2>3, <3>4
  <2>. QED  BY <2>1, <2>2, <2>3 DEF Assemble, Subprocess, Assembled, TakesGivenObject, GoTo, NextTurn, Fail
<1>6. at' \in {"assemble", "link", "done"}
  BY DEF Assemble, Subprocess, TakesGivenObject, GoTo, NextTurn, Fail
<1>7. ObjectsInv'
  BY <1>1, <1>2, <1>3, <1>5 DEF ObjectsInv, ProgramIsWhatWasCompiled
<1>. QED  BY <1>1, <1>2, <1>7 DEF LinkedInv, NotLinked

LEMMA LinkLinks == BuildInv /\ KeptInv /\ LinkedInv /\ (Link \/ RunProgram \/ Clean) => LinkedInv'
<1>. SUFFICES ASSUME BuildInv, KeptInv, LinkedInv, Link \/ RunProgram \/ Clean PROVE LinkedInv'
  OBVIOUS
<1>1. UNCHANGED <<options, found, units>> /\ at \in Linking
  BY DEF Link, RunProgram, Clean, Linking
<1>2. FoundGiven'
  BY <1>1 DEF LinkedInv, FoundGiven, Linking, Starting, found
<1>3. NamedWell' = NamedWell /\ Promised' = Promised
  BY <1>1, NamesStay, PromisedStays
<1>4. at' \in {"run", "clean", "done"}
  BY DEF Link, RunProgram, Clean, Subprocess, GoTo, Fail
<1>5. NamedWell => (linked' # << >> => linked' = Promised)
  <2>. SUFFICES ASSUME NamedWell, linked' # << >> PROVE linked' = Promised
    OBVIOUS
  <2>1. CASE UNCHANGED linked
    BY <2>1, ProgramIs DEF LinkedInv, ObjectsInv
  <2>2. CASE Link /\ linked' = [n \in DOMAIN LinkArguments |-> files[LinkArguments[n]]]
    <3>1. \A n \in 1..Len(CasmFiles) : HoldsObject(n)
      BY <2>2 DEF Link, LinkedInv, ObjectsInv
    <3>2. Range(objects) \cup Range(archives) \subseteq Present \cup Leftovers
      BY <1>1 DEF LinkedInv, FoundGiven, Linking, Starting
    <3>3. [n \in DOMAIN LinkArguments |-> files[LinkArguments[n]]] = Promised
      BY <1>1, <3>1, <3>2, LinksWhatIsPromised
    <3>. QED  BY <2>2, <3>3
  <2>. QED  BY <2>1, <2>2 DEF Link, RunProgram, Clean, Subprocess
<1>6. NamedWell' => ProgramIsWhatWasCompiled'
  BY <1>3, <1>5 DEF ProgramIsWhatWasCompiled, Promised
<1>. QED  BY <1>2, <1>4, <1>6 DEF LinkedInv, NotLinked, ObjectsInv

LEMMA LinkedNext == BuildInv /\ KeptInv /\ CodeInv /\ LinkedInv /\ [Next]_vars => LinkedInv'
<1>1. ASSUME LinkedInv, UNCHANGED vars PROVE LinkedInv'
  <2>1. UNCHANGED <<options, found, units, files, at, turn, linked>>
    BY <1>1 DEF vars
  <2>2. NamedWell' = NamedWell /\ Promised' = Promised /\ CasmFiles' = CasmFiles
    BY <2>1, NamesStay, PromisedStays
  <2>3. \A n : HoldsObject(n)' = HoldsObject(n)
    <3>1. \A n : MadeOf(n)' = MadeOf(n)
      BY <2>1, MadeStays
    <3>. QED  BY <2>1, <2>2, <3>1 DEF HoldsObject, Exists
  <2>4. ProgramIsWhatWasCompiled' = ProgramIsWhatWasCompiled
    BY <2>1, <2>2 DEF ProgramIsWhatWasCompiled, Promised
  <2>. QED  BY <1>1, <2>1, <2>2, <2>3, <2>4 DEF LinkedInv, FoundGiven, NotLinked, ObjectsInv, found
<1>. QED  BY <1>1, LinkedEarly, LinkedWhileWriting, AssembleLinks, LinkLinks DEF Next, Returned

(* The program is linked of the code of this build's units, of the assembly *)
(* files, objects and archives it was given, each once and in that order,   *)
(* whatever an earlier build left: where no two sources make one object and *)
(* what is linked is neither what is published nor a file that was not      *)
(* there on purpose.                                                        *)
THEOREM ProgramIsOfThisBuild == Spec => [](NamedWell => ProgramIsWhatWasCompiled)
<1>1. Init => BuildInv /\ KeptInv /\ CodeInv /\ LinkedInv
  BY BuildInit, KeptInit, CodeInit, LinkedInit
<1>2. BuildInv /\ KeptInv /\ CodeInv /\ LinkedInv /\ [Next]_vars => (BuildInv /\ KeptInv /\ CodeInv /\ LinkedInv)'
  BY BuildNext, KeptNext, CodeNext, LinkedNext
<1>3. LinkedInv => (NamedWell => ProgramIsWhatWasCompiled)
  BY DEF LinkedInv, ObjectsInv
<1>. QED  BY <1>1, <1>2, <1>3, PTL DEF Spec

-----------------------------------------------------------------------------
(* The declarations the units import. *)
DeclsExist == at \notin Starting \cup {"done"} => \A p \in Range(decls) : Exists(p)
Declared == Exists(DeclarationsPath) /\ files[DeclarationsPath] = Declarations(BuildDeclarations(AlreadyDeclared))
DeclaredInv ==
  /\ DeclsExist
  /\ options.run /\ NeedsDeclarations /\ options.emitDecls # DeclarationsPath /\ at \in {"publish", "write", "assemble"} => Declared

LEMMA DeclaredInit == Init => DeclaredInv
BY DEF Init, DeclaredInv, DeclsExist, Starting

LEMMA DeclaredEarly ==
  ASSUME BuildInv, DeclaredInv,
         FindStdlib \/ FindLibrary \/ CheckGiven \/ Preprocess \/ Parse \/ Check \/ Lower \/ Generate \/ EndCompilation
  PROVE  DeclaredInv'
<1>1. at' \notin {"publish", "write", "assemble"} /\ UNCHANGED files
  BY EarlySteps DEF Unwritten, Starting, Compiling
<1>2. CASE FindStdlib \/ FindLibrary
  BY <1>1, <1>2 DEF FindStdlib, FindLibrary, GoTo, NextTurn, Fail, DeclaredInv, DeclsExist, Starting
<1>3. CASE CheckGiven
  <2>1. UNCHANGED <<objects, archives, decls>>
    BY <1>3 DEF CheckGiven, found
  <2>2. at' # "done" => \A p \in Range(objects \o archives \o decls) : Exists(p)
    BY <1>3 DEF CheckGiven, Fail
  <2>. QED  BY <1>1, <2>1, <2>2, JoinedRange DEF DeclaredInv, DeclsExist, Exists
<1>4. CASE Preprocess \/ Parse \/ Check \/ Lower \/ Generate \/ EndCompilation
  <2>1. at \notin Starting \cup {"done"} /\ UNCHANGED <<objects, archives, decls>>
    BY <1>4 DEF Preprocess, Parse, Check, Lower, Generate, EndCompilation, Starting, found
  <2>. QED  BY <1>1, <2>1 DEF DeclaredInv, DeclsExist, Exists
<1>. QED  BY <1>2, <1>3, <1>4

LEMMA DeclarationsStay ==
  ASSUME UNCHANGED <<options, found, units>>
  PROVE  BuildDeclarations(AlreadyDeclared)' = BuildDeclarations(AlreadyDeclared)
<1>1. AlreadyDeclared' = AlreadyDeclared
  BY NamesStay
<1>. QED  BY <1>1 DEF BuildDeclarations

LEMMA DeclaredStays ==
  ASSUME UNCHANGED <<options, found, units>>, Declared, DeclarationsPath \in DOMAIN files',
         files'[DeclarationsPath] = files[DeclarationsPath]
  PROVE  Declared'
<1>1. UNCHANGED <<DeclarationsPath, AlreadyDeclared>>
  BY NamesStay
<1>2. BuildDeclarations(AlreadyDeclared)' = BuildDeclarations(AlreadyDeclared)
  BY DeclarationsStay
<1>. QED  BY <1>1, <1>2 DEF Declared, Exists

LEMMA DeclaredByHolding ==
  ASSUME UNCHANGED <<options, found, units>>, Declared, NEW path, path # DeclarationsPath, NEW content, files' = Holding(path, content)
  PROVE  Declared'
<1>1. DOMAIN files' = DOMAIN files \cup {path} /\ \A other \in DOMAIN files \ {path} : files'[other] = files[other]
  BY HoldingIs
<1>2. DeclarationsPath \in DOMAIN files
  BY DEF Declared, Exists
<1>3. DeclarationsPath \in DOMAIN files' /\ files'[DeclarationsPath] = files[DeclarationsPath]
  BY <1>1, <1>2
<1>. QED  BY <1>3, DeclaredStays

LEMMA DeclaredNext == BuildInv /\ DeclaredInv /\ [Next]_vars => DeclaredInv'
<1>. SUFFICES ASSUME BuildInv, DeclaredInv, [Next]_vars PROVE DeclaredInv'
  OBVIOUS
<1>1. CASE UNCHANGED vars
  <2>1. UNCHANGED <<options, found, units, files, at>> /\ UNCHANGED decls
    BY <1>1 DEF vars, found
  <2>2. UNCHANGED <<NeedsDeclarations, DeclarationsPath>>
    BY <2>1, NamesStay
  <2>3. Declared => Declared'
    BY <2>1, DeclaredStays DEF Declared, Exists
  <2>. QED  BY <2>1, <2>2, <2>3 DEF DeclaredInv, DeclsExist, Exists
<1>2. CASE FindStdlib \/ FindLibrary \/ CheckGiven \/ Preprocess \/ Parse \/ Check \/ Lower \/ Generate \/ EndCompilation
  BY <1>2, DeclaredEarly
<1>3. CASE Declare \/ Publish \/ WriteUnit \/ Assemble
  <2>1. UNCHANGED <<options, found, units>> /\ UNCHANGED <<NeedsDeclarations, DeclarationsPath, decls>> /\ at \in Writing \cup Linking
    BY <1>3, NamesStay DEF Declare, Publish, WriteUnit, Assemble, found, Writing, Linking
  <2>2. UNCHANGED files \/ \E path, content : files' = Holding(path, content)
    BY <1>3 DEF Declare, Publish, WriteUnit, Assemble, Writes, Subprocess
  <2>3. DOMAIN files \subseteq DOMAIN files'
    BY <2>2, HoldingIs
  <2>4. DeclsExist'
    BY <2>1, <2>3 DEF DeclaredInv, DeclsExist, Exists, Writing, Linking, Starting
  <2>5. ASSUME options.run, NeedsDeclarations, options.emitDecls # DeclarationsPath, at' \in {"publish", "write", "assemble"}
        PROVE  Declared'
    <3>0. UNCHANGED files /\ Declared => Declared'
      BY <2>1, DeclaredStays DEF Declared, Exists
    <3>1. CASE Declare
      <4>1. files' = Holding(DeclarationsPath, Declarations(BuildDeclarations(AlreadyDeclared)))
        BY <2>5, <3>1 DEF Declare, Writes, Fail
      <4>2. DeclarationsPath \in DOMAIN files' /\ files'[DeclarationsPath] = Declarations(BuildDeclarations(AlreadyDeclared))
        BY <4>1, HoldingIs
      <4>3. BuildDeclarations(AlreadyDeclared)' = BuildDeclarations(AlreadyDeclared)
        BY <2>1, DeclarationsStay
      <4>. QED  BY <2>1, <4>2, <4>3 DEF Declared, Exists
    <3>2. CASE Publish
      <4>1. Declared
        BY <2>5, <3>2 DEF Publish, DeclaredInv
      <4>2. UNCHANGED files \/ \E content : files' = Holding(options.emitDecls, content)
        BY <3>2 DEF Publish, Writes
      <4>. QED  BY <2>1, <2>5, <3>0, <4>1, <4>2, DeclaredByHolding
    <3>3. CASE WriteUnit
      <4>1. Declared
        BY <2>5, <3>3 DEF WriteUnit, DeclaredInv
      <4>2. turn \in Nat /\ turn > 0 /\ Len(units) \in Nat
        BY SequenceFacts DEF BuildInv, UnitsWell, Progress
      <4>3. UNCHANGED files \/ (turn \in 1..Len(units) /\ \E content : files' = Holding(units[turn].casm, content))
        BY <3>3, <4>2 DEF WriteUnit, Writes
      <4>4. turn \in 1..Len(units) => units[turn].casm.ext = "casm"
        BY <2>5, UnitCasm DEF SingleOutput
      <4>5. DeclarationsPath.ext = "decls.casm"
        BY <2>1, OthersExtension
      <4>. QED  BY <2>1, <3>0, <4>1, <4>3, <4>4, <4>5, DeclaredByHolding
    <3>4. CASE Assemble
      <4>1. Declared
        BY <2>5, <3>4 DEF Assemble, DeclaredInv
      <4>2. turn \in Nat /\ turn > 0 /\ Len(CasmFiles) \in Nat
        BY CasmFilesAre, SequenceFacts DEF BuildInv, Progress
      <4>3. UNCHANGED files \/ (turn \in 1..Len(CasmFiles) /\ \E content : files' = Holding(ObjectOf(CasmFiles[turn]), content))
        BY <3>4, <4>2 DEF Assemble, Subprocess
      <4>4. DeclarationsPath.ext = "decls.casm" /\ \A n \in 1..Len(CasmFiles) : ObjectOf(CasmFiles[n]).ext = "cobj"
        BY <2>1, OthersExtension
      <4>. QED  BY <2>1, <3>0, <4>1, <4>3, <4>4, DeclaredByHolding
    <3>. QED  BY <1>3, <3>1, <3>2, <3>3, <3>4
  <2>. QED  BY <2>1, <2>4, <2>5 DEF DeclaredInv
<1>4. CASE Link \/ RunProgram \/ Clean
  <2>1. at' \in {"run", "clean", "done"} /\ at \in Linking /\ UNCHANGED decls /\ (at' # "done" => DOMAIN files \subseteq DOMAIN files')
    <3>1. CASE Link
      <4>1. UNCHANGED files \/ \E content : files' = Holding(ProgramPath, content)
        BY <3>1 DEF Link, Subprocess
      <4>. QED  BY <3>1, <4>1, HoldingIs DEF Link, Subprocess, GoTo, Fail, Linking, found
    <3>2. CASE RunProgram \/ Clean
      BY <3>2 DEF RunProgram, Clean, GoTo, Fail, Linking, found
    <3>. QED  BY <1>4, <3>1, <3>2
  <2>. QED  BY <2>1 DEF DeclaredInv, DeclsExist, Exists, Starting, Linking
<1>. QED  BY <1>1, <1>2, <1>3, <1>4 DEF Next, Returned

LEMMA DeclsAreGiven ==
  ASSUME KeptInv, DeclaredInv, DeclsApart, at = "assemble", NEW p \in Range(decls)
  PROVE  NamesIn(p) = DeclaredBy(p)
<1>1. p \in DOMAIN files
  BY DEF DeclaredInv, DeclsExist, Exists, Starting
<1>2. p \notin MadeFiles
  BY DEF DeclsApart
<1>3. files[p] \in {Given(p), Leftover(p)}
  BY <1>1, <1>2 DEF KeptInv, OnlyMade, AsBefore
<1>4. files[p].kind # "declarations"
  BY <1>3 DEF Given, Leftover
<1>. QED  BY <1>4 DEF NamesIn

LEMMA UnitsNeedDeclarations ==
  ASSUME BuildInv, units # << >>, ~NeedsDeclarations
  PROVE  objects \o archives = << >> /\ decls = << >>
<1>1. IsSequence(objects) /\ IsSequence(archives) /\ IsSequence(decls)
  BY DEF BuildInv, FoundWell
<1>2. \A s, t : IsSequence(s) /\ IsSequence(t) => IsSequence(s \o t) /\ Len(s \o t) = Len(s) + Len(t)
  BY Joined
<1>. DEFINE both == objects \o archives
<1>3. IsSequence(both)
  BY <1>1, <1>2
<1>4. both \o decls = << >>
  BY DEF NeedsDeclarations
<1>. HIDE DEF both
<1>5. Len(both) + Len(decls) = 0 /\ Len(both) \in Nat /\ Len(decls) \in Nat
  BY <1>1, <1>2, <1>3, <1>4, SequenceFacts
<1>6. \A s : IsSequence(s) /\ Len(s) = 0 => s = << >>
  BY DEF IsSequence
<1>. QED  BY <1>1, <1>3, <1>5, <1>6 DEF both

OneAnd(u, x, t) ==
  /\ IsSequence(u) /\ Len(u) = 1 + Len(t) /\ u[1] = x
  /\ \A n \in 1..Len(t) : u[1 + n] = t[n]
LEMMA OneAndTheRest ==
  ASSUME NEW x, NEW t, IsSequence(t), NEW u, u = <<x>> \o t
  PROVE  OneAnd(u, x, t)
<1>. DEFINE S == Range(t) \cup {x}
            one == <<x>>
<1>1. t \in Seq(S) /\ one \in Seq(S) /\ Len(one) = 1 /\ one[1] = x
  <2>1. t \in Seq(Range(t)) /\ Range(t) \subseteq S /\ x \in S
    BY DEF IsSequence
  <2>. HIDE DEF S
  <2>. QED  BY <2>1
<1>2. u = one \o t
  OBVIOUS
<1>. HIDE DEF S, one
<1>3. u \in Seq(S) /\ Len(u) = 1 + Len(t) /\ u[1] = x /\ \A n \in 1..Len(t) : u[1 + n] = t[n]
  BY <1>1, <1>2
<1>. QED  BY <1>3, SequenceOf DEF OneAnd

LEMMA ImportedOnce ==
  ASSUME BuildInv, KeptInv, DeclaredInv, FromWords, DeclsApart, at = "assemble", NeedsDeclarations, units # << >>,
         NEW entry \in Exported, ~IsLinkerSymbol(entry.name),
         NEW imports, OneAnd(imports, DeclarationsPath, decls)
  PROVE  Cardinality({n \in DOMAIN imports : entry.name \in NamesIn(imports[n])}) = 1
<1>. DEFINE built == BuildDeclarations(AlreadyDeclared)
            Naming == {n \in DOMAIN imports : entry.name \in NamesIn(imports[n])}
<1>1. Merged(AlreadyDeclared, built, Exported)
  BY UnitsExport, DeclarationsMerge
<1>2. files[DeclarationsPath] = Declarations(built)
  BY DEF DeclaredInv, Declared, DeclsApart, BuildInv, Progress, Linking
<1>. HIDE DEF built
<1>3. NamesIn(DeclarationsPath) = {declared.name : declared \in built}
  BY <1>2 DEF NamesIn, Declarations
<1>6. /\ Len(decls) \in Nat /\ DOMAIN imports = 1..(Len(decls) + 1)
      /\ imports[1] = DeclarationsPath
      /\ \A n \in 1..Len(decls) : imports[1 + n] = decls[n] /\ decls[n] \in Range(decls)
  <2>0. /\ IsSequence(imports) /\ Len(imports) = 1 + Len(decls) /\ imports[1] = DeclarationsPath
        /\ \A n \in 1..Len(decls) : imports[1 + n] = decls[n]
    BY DEF OneAnd
  <2>1. /\ Len(decls) \in Nat /\ DOMAIN imports = 1..Len(imports) /\ \A n \in 1..Len(decls) : decls[n] \in Range(decls)
    BY <2>0, SequenceFacts DEF BuildInv, FoundWell
  <2>. QED  BY <2>0, <2>1
<1>7. \A n \in 1..Len(decls) : NamesIn(imports[1 + n]) = DeclaredBy(decls[n])
  BY <1>6, DeclsAreGiven
<1>8. AlreadyDeclared = UNION {DeclaredBy(decls[n]) : n \in 1..Len(decls)}
  <2>1. Range(decls) = {decls[n] : n \in 1..Len(decls)}
    BY SequenceFacts DEF BuildInv, FoundWell
  <2>. QED  BY <2>1 DEF AlreadyDeclared
<1>9. \A m \in DOMAIN imports : m = 1 \/ (m - 1 \in 1..Len(decls) /\ 1 + (m - 1) = m)
  BY <1>6
<1>10. CASE entry.name \in AlreadyDeclared
  <2>1. PICK k \in 1..Len(decls) : entry.name \in DeclaredBy(decls[k])
    BY <1>8, <1>10
  <2>2. 1 + k \in Naming
    BY <1>6, <1>7, <2>1
  <2>3. ASSUME NEW m \in Naming PROVE m = 1 + k
    <3>1. m # 1
      BY <1>1, <1>3, <1>6, <1>10 DEF Merged
    <3>2. m - 1 \in 1..Len(decls) /\ 1 + (m - 1) = m
      BY <1>9, <3>1
    <3>3. entry.name \in DeclaredBy(decls[m - 1])
      BY <1>7, <3>2
    <3>4. m - 1 = k
      BY <2>1, <3>2, <3>3 DEF DeclsApart
    <3>. QED  BY <3>2, <3>4
  <2>4. Naming = {1 + k}
    <3>. HIDE DEF Naming
    <3>. QED  BY <2>2, <2>3
  <2>. QED  BY <2>4, FS_Singleton
<1>11. CASE entry.name \notin AlreadyDeclared
  <2>1. 1 \in Naming
    <3>1. \E declared \in built : declared.name = entry.name
      BY <1>1, <1>11 DEF Merged, Unwanted
    <3>. QED  BY <1>3, <1>6, <3>1
  <2>2. ASSUME NEW m \in Naming PROVE m = 1
    <3>. SUFFICES ASSUME m # 1 PROVE FALSE
      OBVIOUS
    <3>1. m - 1 \in 1..Len(decls) /\ 1 + (m - 1) = m
      BY <1>9
    <3>2. entry.name \in DeclaredBy(decls[m - 1])
      BY <1>7, <3>1
    <3>. QED  BY <1>8, <1>11, <3>1, <3>2
  <2>3. Naming = {1}
    <3>. HIDE DEF Naming
    <3>. QED  BY <2>1, <2>2
  <2>. QED  BY <2>3, FS_Singleton
<1>. QED  BY <1>10, <1>11

(* Every name a unit exports is declared by one of the files it imports and *)
(* by no other: by those it was given or by the one that is made of the rest *)
(* of the units.  Where the files that are given declare no name twice and  *)
(* are not ones this build writes over, and the one it makes is not the one *)
(* it publishes.                                                            *)
THEOREM ImportsDeclareOnceAlways == Spec => [](DeclsApart => ImportsDeclareOnce)
<1>. DEFINE Facts == BuildInv /\ KeptInv /\ CodeInv /\ DeclaredInv /\ FromWords
<1>1. Init => Facts
  BY BuildInit, KeptInit, CodeInit, DeclaredInit, FromWordsAlways
<1>2. Facts /\ [Next]_vars => Facts'
  BY BuildNext, KeptNext, CodeNext, DeclaredNext, FromWordsAlways
<1>3. Facts => (DeclsApart => ImportsDeclareOnce)
  <2>. SUFFICES ASSUME Facts, DeclsApart, at = "assemble", NEW unit \in Range(units),
                       NEW imports, imports = files[unit.casm].imports, imports # << >> \/ objects \o archives # << >>,
                       NEW entry \in Range(ExportsOf(unit.source)), ~IsLinkerSymbol(entry.name)
                PROVE  Cardinality({n \in DOMAIN imports : entry.name \in NamesIn(imports[n])}) = 1
    BY DEF ImportsDeclareOnce
  <2>1. PICK n \in 1..Len(units) : unit = units[n]
    BY SequenceFacts DEF BuildInv, UnitsWell
  <2>2. files[unit.casm] = TextOf(unit)
    BY <2>1 DEF CodeInv, DeclsApart, HoldsText, Linking
  <2>3. imports = (IF NeedsDeclarations THEN <<DeclarationsPath>> ELSE << >>) \o decls
    BY <2>2 DEF TextOf, Code
  <2>4. units # << >>
    <3>1. Len(<< >>) = 0
      OBVIOUS
    <3>. QED  BY <2>1, <3>1
  <2>5. NeedsDeclarations
    <3>. SUFFICES ASSUME ~NeedsDeclarations PROVE FALSE
      OBVIOUS
    <3>1. objects \o archives = << >> /\ decls = << >>
      BY <2>4, UnitsNeedDeclarations
    <3>2. imports = << >>
      BY <2>3, <3>1
    <3>. QED  BY <3>1, <3>2
  <2>6. entry \in Exported
    BY DEF Exported
  <2>7. OneAnd(imports, DeclarationsPath, decls)
    <3>1. imports = <<DeclarationsPath>> \o decls
      BY <2>3, <2>5
    <3>2. IsSequence(decls)
      BY DEF BuildInv, FoundWell
    <3>. QED  BY <3>1, <3>2, OneAndTheRest
  <2>. QED  BY <2>4, <2>5, <2>6, <2>7, ImportedOnce
<1>. QED  BY <1>1, <1>2, <1>3, PTL DEF Spec
=============================================================================
