----------------------------- MODULE Preprocessor -----------------------------
(***************************************************************************)
(* The preprocessor (libs/preprocessor): expandFile reads the physical     *)
(* lines of a file, splices them into logical ones, obeys the directives   *)
(* among them and writes the rest, macros expanded, with an entry of the   *)
(* line map for every line written.  An #include reads another file first. *)
(*                                                                         *)
(* A file is decided line by line as it is read: the first time its lines  *)
(* come from `vocabulary`, and when it is read again they are the same     *)
(* ones.  A directive is a record, its operands already parsed; what       *)
(* follows it on the line is text.  Every line ends in a newline.          *)
(***************************************************************************)
EXTENDS Macros, DiagnosticPolicy

CONSTANTS
  Files,              \* what an #include can resolve to
  Main,               \* the file run() is given
  Unreadable,         \* the files that exist but cannot be opened
  Vocabularies,       \* each a set of lines to write a program with
  MaxLines,           \* how many lines the files have in all
  MaxIncludeDepth     \* kMaxIncludeDepth

PreprocessorWarnings ==
  {"UserWarning", "UnknownPragma", "InvalidWarningPragma", "UncontrollableDiagnostic",
   "MacroExpansionByteLimit", "MacroExpansionPassLimit"}

(* The errors a run may always report and still succeed: an expression or  *)
(* a macro call that cannot be read.                                       *)
ForgivenErrors == {"IfExpressionSyntax", "MalformedMacroInvocation", "MacroArgumentCount"}

PreprocessorErrors ==
  ForgivenErrors \cup
  {"ConditionalExpectsMacroName", "ElifWithoutIf", "ElseWithoutIf", "EndifWithoutIf",
   "UnterminatedConditional", "IncludeExpectsTarget", "IncludeNotFound", "IncludeCycle",
   "IncludeTooDeep", "CannotOpenFile", "DefineExpectsName", "InvalidMacroParameterList",
   "UnterminatedMacroParameterList", "UndefExpectsName", "UserError", "UnsupportedDirective"}

(* What an expression asks for: a value that needs nothing of the program, *)
(* whether a name is defined, whether a header is there.  A __has_include  *)
(* is not `closed` when its target is missing, and `target` then "", or    *)
(* the parenthesis after it.  The expression is `readable` or it is not.   *)
ConditionType ==
  [asks : {"value"}, value : BOOLEAN, readable : BOOLEAN]
    \cup [asks : {"defined"}, name : Token, readable : BOOLEAN]
    \cup [asks : {"has_include"}, target : STRING, closed : BOOLEAN, readable : BOOLEAN]

(* What a line can say.                                                    *)
DirectiveType ==
  [op : {"none", "else", "endif", "error", "warning", "line", "empty"}]
    \cup [op : {"if", "elif"}, condition : ConditionType]
    \cup [op : {"ifdef", "ifndef", "undef"}, name : Token]
    \cup [op : {"include", "include_next"}, target : STRING]
    \cup [op : {"define"}, name : Token, functionLike : BOOLEAN, parameters : Seq(Token),
          faults : SUBSET {"InvalidMacroParameterList", "UnterminatedMacroParameterList"}]
    \cup [op : {"pragma"}, what : {"once", "push", "pop", "unknown", "unreadable"}]
    \cup [op : {"pragma"}, what : {"set"}, action : Actions, numbers : Seq(STRING)]

LineType == [dir : DirectiveType, text : Line, continues : BOOLEAN]

(* The words this module writes itself, for a directive read as text and   *)
(* for a backslash that stays.                                             *)
ASSUME WordsAssumption == {"w", "\\"} \subseteq Token
ASSUME VocabularyAssumption == \A lines \in Vocabularies : lines \subseteq LineType
ASSUME FilesAssumption == Main \in Files \ Unreadable
ASSUME DepthAssumption == MaxIncludeDepth \in Nat \ {0}
ASSUME WarningsAssumption == /\ PreprocessorWarnings \subseteq WarningIds
                             /\ PreprocessorErrors \cap WarningIds = {}

VARIABLES
  vocabulary,            \* the lines the program is written with
  content, ended,        \* the lines of each file read so far, and whether it ends there
  stack,                 \* one record per file being expanded
  logical,               \* the logical line being assembled
  phase,                 \* what the loop over a file's lines is doing
  macros,                \* _macros
  pragmaOnce,            \* _pragmaOnce
  warningPragmaDepth,    \* _warningPragmaDepth
  policy,                \* out.diagnosticPolicy
  out,                   \* the text and the line map, an entry per line
  reports,               \* the diagnostics
  ok,                    \* the result of run()
  inForce                \* history: the action asked for, and what each push remembered

files   == <<vocabulary, content, ended>>
pragmas == <<pragmaOnce, warningPragmaDepth, policy, inForce>>
vars    == <<files, stack, logical, phase, macros, pragmas, out, reports, ok>>

NoDirective == [op |-> "none"]
NoMacros == [name \in {} |-> NoDirective]

Logical(dir, text, from) ==
  [dir |-> dir, text |-> text, from |-> from, taken |-> 0, commentOpen |-> FALSE]

-----------------------------------------------------------------------------
(* The file being expanded.                                                *)

(* `cComment` and `misread` are history: whether C has a comment open, and  *)
(* whether a line was met that this preprocessor does not follow comments  *)
(* through.                                                                *)
Frame(file) ==
  [file |-> file, position |-> 0, sourceLine |-> 0, logicalLine |-> 0, inBlockComment |-> FALSE,
   conditionals |-> <<>>, ok |-> TRUE, cComment |-> FALSE, misread |-> FALSE]

Top == Last(stack)
Active(frame) == frame.conditionals # <<>> => Last(frame.conditionals).active

LinesDecided == FoldFunction(LAMBDA lines, sum : Len(lines) + sum, 0, content)

NextLines ==
  LET lines == content[Top.file]
  IN CASE Top.position < Len(lines) -> {lines[Top.position + 1]}
       [] Top.position = Len(lines) /\ ~ended[Top.file] /\ LinesDecided < MaxLines -> vocabulary
       [] OTHER -> {}

(* The next physical line is `line`, whether or not it is taken.           *)
Decide(line) ==
  /\ content' = IF Top.position < Len(content[Top.file]) THEN content
                ELSE [content EXCEPT ![Top.file] = Append(@, line)]
  /\ UNCHANGED <<vocabulary, ended>>

NoMoreLines ==
  /\ Top.position = Len(content[Top.file])
  /\ ended' = [ended EXCEPT ![Top.file] = TRUE]
  /\ UNCHANGED <<vocabulary, content>>

(* A line as text, a directive being a word like any other.                *)
Tokens(dir, text) == IF dir = NoDirective THEN text ELSE <<"w">> \o text

SetTop(frame) == stack' = ReplaceAt(stack, Len(stack), frame)

-----------------------------------------------------------------------------
(* Diagnostics.                                                            *)

(* Mutant: the last line written rather than the next.                     *)
LastOutputLine == Len(out)

OutputLine == Len(out) + 1

(* What the program asked for about a diagnostic is kept with it, and the  *)
(* directive that was at work.                                             *)
Reported(id, severity) ==
  [id |-> id, severity |-> severity, by |-> logical.dir.op,
   asked |-> IF id \in WarningIds THEN inForce.current[id] ELSE "Default"]

Errors(ids) == {Reported(id, "Error") : id \in ids}

PolicedWarning(id) ==
  LET action == ActionFor(policy, id, OutputLine)
  IN CASE action = "Ignored" -> {}
       [] action = "Error" -> {Reported(id, "Error")}
       [] OTHER -> {Reported(id, "Warning")}

Say(said) == reports' = reports \cup said

-----------------------------------------------------------------------------
(* What is written.                                                        *)

(* `from` and `governed` are history: the physical line the entry stands   *)
(* for, and the action in force when it was written.                       *)
Written(line, text, from) ==
  [file |-> Top.file, line |-> line, text |-> text, from |-> from, governed |-> inForce'.current]

(* The end of most directives: an empty line in place of this one.         *)
Blank(frame) ==
  /\ SetTop(frame)
  /\ out' = Append(out, Written(frame.logicalLine, <<>>, logical.from))
  /\ phase' = "read"

Failed(frame) == [frame EXCEPT !.ok = FALSE]

(* C's reading of the line, and whether this one is about to differ.       *)
Text == Tokens(logical.dir, logical.text)
Follow(frame, differs) ==
  [frame EXCEPT !.cComment = EndsInComment(Text, @), !.misread = @ \/ differs]

-----------------------------------------------------------------------------
(* Reading a logical line.                                                 *)

ReadLine ==
  /\ phase = "read"
  /\ \E line \in NextLines :
       /\ Decide(line)
       /\ SetTop([Top EXCEPT !.position = @ + 1, !.sourceLine = @ + 1, !.logicalLine = Top.sourceLine + 1])
       /\ logical' = Logical(line.dir, line.text, Top.position + 1)
       /\ phase' = IF line.continues THEN "splice" ELSE "interpret"
  /\ UNCHANGED <<macros, pragmas, out, reports, ok>>

(* Mutant: the lines spliced in are not counted.                           *)
SpliceLineUncounted ==
  /\ phase = "splice"
  /\ \E line \in NextLines :
       /\ Decide(line)
       /\ SetTop([Top EXCEPT !.position = @ + 1])
       /\ logical' = [logical EXCEPT !.text = @ \o Tokens(line.dir, line.text)]
       /\ phase' = IF line.continues THEN "splice" ELSE "interpret"
  /\ UNCHANGED <<macros, pragmas, out, reports, ok>>

SpliceLine ==
  /\ phase = "splice"
  /\ \E line \in NextLines :
       /\ Decide(line)
       /\ SetTop([Top EXCEPT !.position = @ + 1, !.sourceLine = @ + 1])
       /\ logical' = [logical EXCEPT !.text = @ \o Tokens(line.dir, line.text)]
       /\ phase' = IF line.continues THEN "splice" ELSE "interpret"
  /\ UNCHANGED <<macros, pragmas, out, reports, ok>>

SpliceAtEnd ==
  /\ phase = "splice"
  /\ NoMoreLines
  /\ phase' = "interpret"
  /\ UNCHANGED <<stack, logical, macros, pragmas, out, reports, ok>>

IsDirective == logical.dir # NoDirective /\ ~Top.inBlockComment

Directive(ops) ==
  /\ phase = "interpret"
  /\ IsDirective
  /\ logical.dir.op \in ops

(* The frame a directive works on: a comment it leaves open is not noticed. *)
Obeying == Follow(Top, EndsInComment(logical.text, FALSE))

-----------------------------------------------------------------------------
(* Conditionals.                                                           *)

Condition == logical.dir.condition
Valid == Condition.readable
Holds == CASE Condition.asks = "value" -> Condition.value
           [] Condition.asks = "defined" -> Condition.name \in DOMAIN macros
           [] OTHER -> Condition.target \in Files

(* A __has_include that is not closed is an error of its own, and the rest *)
(* of the directive is dropped: what came before it may be read all the    *)
(* same.                                                                   *)
ExpressionErrors ==
  (IF Valid THEN {} ELSE {"IfExpressionSyntax"})
    \cup (IF Condition.asks = "has_include" /\ ~Condition.closed THEN {"IncludeExpectsTarget"} ELSE {})

(* `tested` is history: what each branch of the group so far came to.      *)
Opened(value) ==
  [Obeying EXCEPT !.conditionals = Append(@,
     [parentActive |-> Active(Top), active |-> Active(Top) /\ value, branchTaken |-> value,
      sawElse |-> FALSE, tested |-> <<value>>])]

If ==
  /\ Directive({"if"})
  /\ Say(Errors(ExpressionErrors))
  /\ UNCHANGED <<files, logical, macros, pragmas, ok>>
  /\ Blank(Opened(Valid /\ Holds))

IfDefined ==
  /\ Directive({"ifdef", "ifndef"})
  /\ UNCHANGED <<files, logical, macros, pragmas, ok>>
  /\ \/ /\ logical.dir.name = ""
        /\ Say(Errors({"ConditionalExpectsMacroName"}))
        /\ Blank(Failed(Opened(FALSE)))
     \/ /\ logical.dir.name # ""
        /\ Blank(Opened((logical.dir.name \in DOMAIN macros) # (logical.dir.op = "ifndef")))
        /\ UNCHANGED reports

Unmatched == Top.conditionals # <<>> => Last(Top.conditionals).sawElse

SetConditional(conditional) ==
  [Obeying EXCEPT !.conditionals = Append(Front(@), conditional)]

(* Mutant: a branch that held is forgotten by the next.                    *)
OnlyTheLastBranch(c, value) ==
  [c EXCEPT !.active = c.parentActive /\ ~c.branchTaken /\ value,
            !.branchTaken = value,
            !.tested = Append(@, value)]

AnotherBranch(c, value) ==
  [c EXCEPT !.active = c.parentActive /\ ~c.branchTaken /\ value,
            !.branchTaken = @ \/ value,
            !.tested = Append(@, value)]

Elif ==
  /\ Directive({"elif"})
  /\ UNCHANGED <<files, logical, macros, pragmas, ok>>
  /\ \/ /\ Unmatched
        /\ Say(Errors({"ElifWithoutIf"}))
        /\ Blank(Failed(Obeying))
     \/ /\ ~Unmatched
        /\ Say(Errors(ExpressionErrors))
        /\ Blank(SetConditional(AnotherBranch(Last(Top.conditionals), Valid /\ Holds)))

Else ==
  /\ Directive({"else"})
  /\ UNCHANGED <<files, logical, macros, pragmas, ok>>
  /\ \/ /\ Unmatched
        /\ Say(Errors({"ElseWithoutIf"}))
        /\ Blank(Failed(Obeying))
     \/ /\ ~Unmatched
        /\ Blank(SetConditional([AnotherBranch(Last(Top.conditionals), TRUE) EXCEPT !.sawElse = TRUE]))
        /\ UNCHANGED reports

Endif ==
  /\ Directive({"endif"})
  /\ UNCHANGED <<files, logical, macros, pragmas, ok>>
  /\ \/ /\ Top.conditionals = <<>>
        /\ Say(Errors({"EndifWithoutIf"}))
        /\ Blank(Failed(Obeying))
     \/ /\ Top.conditionals # <<>>
        /\ Blank([Obeying EXCEPT !.conditionals = Front(@)])
        /\ UNCHANGED reports

Conditionals == {"if", "ifdef", "ifndef", "elif", "else", "endif"}

(* Any other line of a group that is not taken.                            *)
SkipInactive ==
  /\ phase = "interpret"
  /\ ~(IsDirective /\ logical.dir.op \in Conditionals)
  /\ ~Active(Top)
  /\ UNCHANGED <<files, logical, macros, pragmas, reports, ok>>
  /\ Blank(Follow(Top, EndsInComment(Text, Top.cComment) # Top.inBlockComment))

ActiveDirective(ops) == Directive(ops) /\ Active(Top)

-----------------------------------------------------------------------------
(* Includes.                                                               *)

Run ==
  /\ phase = "start"
  /\ stack' = <<Frame(Main)>>
  /\ phase' = "read"
  /\ UNCHANGED <<files, logical, macros, pragmas, out, reports, ok>>

BeingExpanded(file) == \E i \in DOMAIN stack : stack[i].file = file

(* The start of expandFile.  A file that is not read leaves no line behind. *)
Enter(file) ==
  /\ phase' = "read"
  /\ UNCHANGED <<files, logical, macros, pragmas, out, ok>>
  /\ \/ /\ file \in pragmaOnce
        /\ SetTop(Obeying)
        /\ UNCHANGED reports
     \/ /\ file \notin pragmaOnce
        /\ BeingExpanded(file) \/ Len(stack) >= MaxIncludeDepth \/ file \in Unreadable
        /\ Say(Errors({IF BeingExpanded(file) THEN "IncludeCycle"
                       ELSE IF Len(stack) >= MaxIncludeDepth THEN "IncludeTooDeep"
                       ELSE "CannotOpenFile"}))
        /\ SetTop(Failed(Obeying))
     \/ /\ file \notin pragmaOnce \cup Unreadable
        /\ ~BeingExpanded(file)
        /\ Len(stack) < MaxIncludeDepth
        /\ stack' = Append(ReplaceAt(stack, Len(stack), Obeying), Frame(file))
        /\ UNCHANGED reports

Include ==
  /\ ActiveDirective({"include", "include_next"})
  /\ logical.dir.target \in Files
  /\ Enter(logical.dir.target)

(* Mutant: a header that is not found is reported and forgotten.           *)
IncludeNothingQuietly ==
  /\ ActiveDirective({"include", "include_next"})
  /\ logical.dir.target \notin Files
  /\ Say(Errors({IF logical.dir.target = "" THEN "IncludeExpectsTarget" ELSE "IncludeNotFound"}))
  /\ UNCHANGED <<files, logical, macros, pragmas, ok>>
  /\ Blank(Obeying)

IncludeNothing ==
  /\ ActiveDirective({"include", "include_next"})
  /\ logical.dir.target \notin Files
  /\ Say(Errors({IF logical.dir.target = "" THEN "IncludeExpectsTarget" ELSE "IncludeNotFound"}))
  /\ UNCHANGED <<files, logical, macros, pragmas, ok>>
  /\ Blank(Failed(Obeying))

(* The end of a file: its open conditionals are reported and go with it.   *)
EndOfFile ==
  /\ phase = "read"
  /\ NoMoreLines
  /\ LET open == Top.conditionals # <<>>
         fine == Top.ok /\ ~open
         below == Front(stack)
     IN /\ Say(IF open THEN Errors({"UnterminatedConditional"}) ELSE {})
        /\ IF below = <<>>
           THEN stack' = below /\ ok' = fine /\ phase' = "done"
           ELSE /\ stack' = [below EXCEPT ![Len(below)].ok = @ /\ fine]
                /\ UNCHANGED <<ok, phase>>
  /\ UNCHANGED <<logical, macros, pragmas, out>>

-----------------------------------------------------------------------------
(* Macros, messages and pragmas.                                           *)

(* A parameter list that cannot be read is an error, and the name defined  *)
(* as far as it was read all the same.                                     *)
Define ==
  /\ ActiveDirective({"define"})
  /\ UNCHANGED <<files, logical, pragmas, ok>>
  /\ LET dir == logical.dir
         macro == [functionLike |-> dir.functionLike, parameters |-> dir.parameters,
                   replacement |-> WithoutDirectiveComment(logical.text)]
     IN \/ /\ dir.name = ""
           /\ Say(Errors({"DefineExpectsName"}))
           /\ Blank(Failed(Obeying))
           /\ UNCHANGED macros
        \/ /\ dir.name # ""
           /\ macros' = [name \in DOMAIN macros \cup {dir.name} |->
                           IF name = dir.name THEN macro ELSE macros[name]]
           /\ Say(Errors(dir.faults))
           /\ Blank(IF dir.faults = {} THEN Obeying ELSE Failed(Obeying))

Undef ==
  /\ ActiveDirective({"undef"})
  /\ UNCHANGED <<files, logical, pragmas, ok>>
  /\ \/ /\ logical.dir.name = ""
        /\ Say(Errors({"UndefExpectsName"}))
        /\ Blank(Failed(Obeying))
        /\ UNCHANGED macros
     \/ /\ logical.dir.name # ""
        /\ macros' = Restrict(macros, DOMAIN macros \ {logical.dir.name})
        /\ Blank(Obeying)
        /\ UNCHANGED reports

UserMessage ==
  /\ ActiveDirective({"error", "warning"})
  /\ UNCHANGED <<files, logical, macros, pragmas, ok>>
  /\ \/ /\ logical.dir.op = "error"
        /\ Say(Errors({"UserError"}))
        /\ Blank(Failed(Obeying))
     \/ /\ logical.dir.op = "warning"
        /\ Say(PolicedWarning("UserWarning"))
        /\ Blank(Obeying)

UnsupportedDirective ==
  /\ ActiveDirective({"line", "empty"})
  /\ UNCHANGED <<files, logical, macros, pragmas, ok>>
  /\ \/ /\ logical.dir.op = "empty"
        /\ Blank(Obeying)
        /\ UNCHANGED reports
     \/ /\ logical.dir.op = "line"
        /\ Say(Errors({"UnsupportedDirective"}))
        /\ Blank(Failed(Obeying))

Pragma(whats) == ActiveDirective({"pragma"}) /\ logical.dir.what \in whats

(* Mutant: the file that is compiled is remembered, not the one that says so. *)
PragmaOnceOfMain ==
  /\ Pragma({"once"})
  /\ pragmaOnce' = pragmaOnce \cup {stack[1].file}
  /\ UNCHANGED <<files, logical, macros, warningPragmaDepth, policy, inForce, reports, ok>>
  /\ Blank(Obeying)

PragmaOnce ==
  /\ Pragma({"once"})
  /\ pragmaOnce' = pragmaOnce \cup {Top.file}
  /\ UNCHANGED <<files, logical, macros, warningPragmaDepth, policy, inForce, reports, ok>>
  /\ Blank(Obeying)

(* A pragma this compiler does not know, or a warning pragma it cannot read. *)
PragmaIgnored ==
  /\ Pragma({"unknown", "unreadable"})
  /\ Say(PolicedWarning(IF logical.dir.what = "unknown" THEN "UnknownPragma"
                        ELSE "InvalidWarningPragma"))
  /\ UNCHANGED <<files, logical, macros, pragmas, ok>>
  /\ Blank(Obeying)

PragmaPush ==
  /\ Pragma({"push"})
  /\ warningPragmaDepth' = warningPragmaDepth + 1
  /\ policy' = Append(policy, Push(OutputLine))
  /\ inForce' = [inForce EXCEPT !.saved = Append(@, inForce.current)]
  /\ UNCHANGED <<files, logical, macros, pragmaOnce, reports, ok>>
  /\ Blank(Obeying)

PragmaPop ==
  /\ Pragma({"pop"})
  /\ UNCHANGED <<files, logical, macros, pragmaOnce, ok>>
  /\ \/ /\ warningPragmaDepth = 0
        /\ Say(PolicedWarning("InvalidWarningPragma"))
        /\ UNCHANGED <<warningPragmaDepth, policy, inForce>>
     \/ /\ warningPragmaDepth > 0
        /\ warningPragmaDepth' = warningPragmaDepth - 1
        /\ policy' = Append(policy, Pop(OutputLine))
        /\ inForce' = [current |-> Last(inForce.saved), saved |-> Front(inForce.saved)]
        /\ UNCHANGED reports
  /\ Blank(Obeying)

(* A list of numbers is taken one by one, after which the line is done.    *)
PragmaSet ==
  /\ Pragma({"set"})
  /\ phase' = "list"
  /\ UNCHANGED <<files, stack, logical, macros, pragmas, out, reports, ok>>

Number == logical.dir.numbers[logical.taken + 1]
NumbersLeft == logical.taken < Len(logical.dir.numbers)

NextNumber == /\ logical' = [logical EXCEPT !.taken = @ + 1]
              /\ UNCHANGED <<files, stack, phase, macros, pragmaOnce, warningPragmaDepth, out, ok>>

PragmaNumber ==
  /\ phase = "list"
  /\ NumbersLeft
  /\ Number \in WarningIds \cup {"all"}
  /\ policy' = Append(policy, Set(OutputLine, Number, logical.dir.action))
  /\ inForce' = [inForce EXCEPT !.current =
       [id \in WarningIds |-> IF Number \in {id, "all"} THEN logical.dir.action ELSE @[id]]]
  /\ NextNumber
  /\ UNCHANGED reports

(* A number that names no warning is warned about under the changes so far. *)
PragmaBadNumber ==
  /\ phase = "list"
  /\ NumbersLeft
  /\ Number \notin WarningIds \cup {"all"}
  /\ Say(PolicedWarning("UncontrollableDiagnostic"))
  /\ NextNumber
  /\ UNCHANGED <<policy, inForce>>

PragmaListEnds ==
  /\ phase = "list"
  /\ ~NumbersLeft
  /\ UNCHANGED <<files, logical, macros, pragmas, reports, ok>>
  /\ Blank(Obeying)

-----------------------------------------------------------------------------
(* Text.                                                                   *)

(* expandMacros tests for a quote and for // before it asks whether the    *)
(* line starts inside a comment.                                           *)
MisreadStart(text) == Top.inBlockComment /\ text # <<>> /\ text[1] \in {"//", "'"}

(* Mutant: every line starts outside a comment.                            *)
ExpandedAfresh(text, frame) == Expand(text, FALSE, macros)

Expanded(text, frame) == Expand(text, frame.inBlockComment, macros)

(* The text is expanded and written; each line joined to it leaves an      *)
(* empty one behind.                                                       *)
Emit(text, frame, taken) ==
  LET expanded == Expanded(text, frame)
      warnings == expanded.errors \cap PreprocessorWarnings
  IN /\ out' = out \o <<Written(frame.logicalLine, expanded.text, logical.from)>>
               \o [k \in 1..taken |-> Written(frame.logicalLine + k, <<>>, frame.position - taken + k)]
     /\ Say({Reported(id, "Warning") : id \in warnings}
            \cup Errors(expanded.errors \cap ForgivenErrors))
     /\ SetTop([frame EXCEPT !.inBlockComment = expanded.open,
                             !.misread = @ \/ "MacroExpansionByteLimit" \in warnings])
     /\ phase' = "read"

(* A line of text, unless it leaves a macro call open.                     *)
EmitLine ==
  /\ phase = "interpret"
  /\ ~IsDirective
  /\ Active(Top)
  /\ ~LeavesMacroCallOpen(Text, Top.inBlockComment, macros)
  /\ UNCHANGED <<files, logical, macros, pragmas, ok>>
  /\ Emit(Text, Follow(Top, MisreadStart(Text)), 0)

StartJoin ==
  /\ phase = "interpret"
  /\ ~IsDirective
  /\ Active(Top)
  /\ LeavesMacroCallOpen(Text, Top.inBlockComment, macros)
  /\ logical' = [logical EXCEPT
       !.dir = NoDirective,
       !.text = SubSeq(Text, 1, LineCommentAt(Text, Top.inBlockComment) - 1),
       !.commentOpen = EndsInComment(Text, Top.inBlockComment)]
  /\ SetTop(Follow(Top, MisreadStart(Text)))
  /\ phase' = "join"
  /\ UNCHANGED <<files, macros, pragmas, out, reports, ok>>

CallOpen == LeavesMacroCallOpen(logical.text, Top.inBlockComment, macros)

(* A line that is joined is not spliced: its backslash stays.              *)
JoinedTokens(line) ==
  Tokens(line.dir, line.text) \o (IF line.continues THEN <<"\\">> ELSE <<>>)

JoinLine ==
  /\ phase = "join"
  /\ CallOpen
  /\ \E line \in NextLines :
       LET text == JoinedTokens(line)
       IN /\ logical.commentOpen \/ line.dir = NoDirective
          /\ Decide(line)
          /\ logical' = [logical EXCEPT
               !.text = @ \o SubSeq(text, 1, LineCommentAt(text, logical.commentOpen) - 1),
               !.taken = @ + 1,
               !.commentOpen = EndsInComment(text, @)]
          /\ SetTop([Top EXCEPT !.position = @ + 1, !.sourceLine = @ + 1,
                                !.cComment = EndsInComment(text, @)])
  /\ UNCHANGED <<phase, macros, pragmas, out, reports, ok>>

(* The call is whole, or a directive or the end of the file stops it.      *)
JoinEnds ==
  \/ ~CallOpen /\ UNCHANGED files
  \/ CallOpen /\ NoMoreLines
  \/ /\ CallOpen
     /\ \E line \in NextLines : /\ ~logical.commentOpen /\ line.dir # NoDirective
                                /\ Decide(line)

(* A comment inside the call is part of its arguments to expandMacros.     *)
EmitJoined ==
  /\ phase = "join"
  /\ JoinEnds
  /\ UNCHANGED <<logical, macros, pragmas, ok>>
  /\ Emit(logical.text, [Top EXCEPT !.misread = @ \/ logical.commentOpen], logical.taken)

-----------------------------------------------------------------------------
Finished == phase = "done" /\ UNCHANGED vars

Init ==
  /\ vocabulary \in Vocabularies
  /\ content = [file \in Files |-> <<>>]
  /\ ended = [file \in Files |-> FALSE]
  /\ stack = <<>>
  /\ logical = Logical(NoDirective, <<>>, 0)
  /\ phase = "start"
  /\ macros = NoMacros
  /\ pragmaOnce = {}
  /\ warningPragmaDepth = 0
  /\ policy = <<>>
  /\ out = <<>>
  /\ reports = {}
  /\ ok = TRUE
  /\ inForce = [current |-> [id \in WarningIds |-> "Default"], saved |-> <<>>]

Next ==
  \/ Run \/ ReadLine \/ SpliceLine \/ SpliceAtEnd \/ EndOfFile
  \/ If \/ IfDefined \/ Elif \/ Else \/ Endif \/ SkipInactive
  \/ Include \/ IncludeNothing \/ Define \/ Undef \/ UserMessage \/ UnsupportedDirective
  \/ PragmaOnce \/ PragmaIgnored \/ PragmaPush \/ PragmaPop
  \/ PragmaSet \/ PragmaNumber \/ PragmaBadNumber \/ PragmaListEnds
  \/ EmitLine \/ StartJoin \/ JoinLine \/ EmitJoined
  \/ Finished

Spec == Init /\ [][Next]_vars

-----------------------------------------------------------------------------
(* Properties.                                                             *)

ForceType == [WarningIds -> Actions]

(* Every variable has its type, and no file is expanded inside itself.     *)
TypeOK ==
  /\ ok \in BOOLEAN
  /\ ended \in [Files -> BOOLEAN]
  /\ phase \in {"start", "read", "splice", "interpret", "list", "join", "done"}
  /\ pragmaOnce \subseteq Files
  /\ warningPragmaDepth = Len(inForce.saved)
  /\ \A i \in DOMAIN policy : policy[i] \in Change
  /\ inForce.current \in ForceType
  /\ \A name \in DOMAIN macros : macros[name] \in Macro
  /\ Len(stack) <= MaxIncludeDepth
  /\ \A i, j \in DOMAIN stack : stack[i].file = stack[j].file => i = j
  /\ \A i \in DOMAIN stack : stack[i].position <= Len(content[stack[i].file])
  /\ (phase = "done") = (stack = <<>> /\ phase # "start")

(* Replaying the changes up to a line gives, at any later time, what was   *)
(* in force when that line was written: a push and its pop bracket exactly *)
(* the lines between them, through includes and groups that are skipped.   *)
PragmaInForce ==
  \A line \in DOMAIN out : \A id \in WarningIds :
    ActionFor(policy, id, line) = out[line].governed[id]

(* A pragma says nothing about a line already written: what is in force    *)
(* there is never changed by what follows.                                 *)
PragmasNeverReachBack ==
  [][\A line \in DOMAIN out : \A id \in WarningIds :
       ActionFor(policy', id, line) = ActionFor(policy, id, line)]_vars

(* A line with text is mapped to the physical line its text begins on,     *)
(* whatever was spliced, joined or included before it.                     *)
MapNamesTheLine ==
  \A line \in DOMAIN out : out[line].text # <<>> => out[line].line = out[line].from

(* An expression or a macro call that cannot be read is an error too, and  *)
(* leaves the result alone; so does a missing target, when it is missing   *)
(* from a __has_include and not from an #include.                          *)
Forgiven(report) ==
  \/ report.id \in ForgivenErrors
  \/ report.id = "IncludeExpectsTarget" /\ report.by \in {"if", "elif"}

(* run() fails exactly when a directive, a file or a group left open was   *)
(* reported as an error that is not forgiven.                              *)
FailsWithAReason ==
  phase = "done" =>
    (~ok <=> \E report \in reports :
       /\ report.severity = "Error"
       /\ report.id \notin WarningIds
       /\ ~Forgiven(report))

(* A branch is active exactly when it is the first of its group that held  *)
(* and the group stands in an active branch itself.                        *)
FirstTrueBranch ==
  \A i \in DOMAIN stack : \A k \in DOMAIN stack[i].conditionals :
    LET group(j) == stack[i].conditionals[j]
        tested == group(k).tested
    IN group(k).active <=> /\ k > 1 => group(k - 1).active
                           /\ Last(tested)
                           /\ \A earlier \in 1..(Len(tested) - 1) : ~tested[earlier]

(* The block comment carried from line to line is the one C has open, as   *)
(* long as no directive left a comment open, none began or ended in a      *)
(* group that is skipped, no line inside one began with // or a quote, none *)
(* was open when a macro call was cut short, and no line outgrew the limit. *)
CommentsFollowC ==
  \A i \in DOMAIN stack :
    (phase = "read" \/ i < Len(stack)) /\ ~stack[i].misread =>
      stack[i].inBlockComment = stack[i].cComment

(* A header that begins with #pragma once is written once, however many    *)
(* times it is included.                                                   *)
OnceContributesOnce ==
  \A i, j \in DOMAIN out :
    i < j /\ out[i].file = out[j].file
      /\ content[out[i].file][1].dir = [op |-> "pragma", what |-> "once"]
      /\ ~content[out[i].file][1].continues
    => out[i].line < out[j].line

(* The pragma governs the preprocessor's own warnings too: one turned off  *)
(* is not reported, and one made an error is one.                          *)
PragmaGovernsOwnWarnings ==
  \A report \in reports :
    /\ report.asked # "Ignored"
    /\ report.asked = "Error" => report.severity = "Error"
=============================================================================
