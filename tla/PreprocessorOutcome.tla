-------------------------- MODULE PreprocessorOutcome --------------------------
(***************************************************************************)
(* What a run of the preprocessor comes to, for every program: its result  *)
(* against the errors that were reported, and what is written of a header  *)
(* that asks to be read once.                                              *)
(***************************************************************************)
EXTENDS PreprocessorProofs

Fatal(report) ==
  report.severity = "Error" /\ report.id \notin WarningIds /\ ~Forgiven(report)

AnyFatal == \E report \in reports : Fatal(report)
AnyFailed(s) == \E i \in DOMAIN s : ~s[i].ok

(* Until the end, a file that failed is still being expanded whenever an   *)
(* error has been reported that is not forgiven.                           *)
FailInv ==
  /\ AnyFatal <=> IF phase = "done" THEN ~ok ELSE AnyFailed(stack)
  /\ phase # "done" => ok = TRUE

LEMMA FatalsSaid ==
  ASSUME NEW ids \in SUBSET (PreprocessorErrors \ ForgivenErrors), ids # {}, Say(Errors(ids)),
         "IncludeExpectsTarget" \in ids => logical.dir.op \notin {"if", "elif"}
  PROVE  AnyFatal'
<1>0. PICK id \in PreprocessorErrors \ ForgivenErrors : id \in ids
  OBVIOUS
<1>1. Reported(id, "Error") \in reports'
  BY <1>0 DEF Say, Errors
<1>2. /\ Reported(id, "Error").id = id /\ Reported(id, "Error").severity = "Error"
      /\ Reported(id, "Error").by = logical.dir.op
  BY DEF Reported
<1>3. id \notin WarningIds
  BY WarningsAssumption
<1>4. ~Forgiven(Reported(id, "Error"))
  BY <1>0, <1>2 DEF Forgiven
<1>. QED  BY <1>1, <1>2, <1>3, <1>4 DEF AnyFatal, Fatal

LEMMA FatalSaid ==
  ASSUME NEW id \in PreprocessorErrors \ ForgivenErrors, Say(Errors({id})),
         id = "IncludeExpectsTarget" => logical.dir.op \notin {"if", "elif"}
  PROVE  AnyFatal'
BY FatalsSaid

LEMMA NothingFatalSaid ==
  ASSUME NEW said, Say(said), \A report \in said : report.id \in WarningIds \/ Forgiven(report)
  PROVE  AnyFatal' <=> AnyFatal
BY DEF Say, AnyFatal, Fatal

LEMMA WarningSaid ==
  ASSUME NEW id \in PreprocessorWarnings, Say(PolicedWarning(id))
  PROVE  AnyFatal' <=> AnyFatal
<1>1. \A report \in PolicedWarning(id) : report.id = id
  BY DEF PolicedWarning, Reported
<1>2. id \in WarningIds
  BY WarningsAssumption
<1>. QED  BY <1>1, <1>2, NothingFatalSaid

LEMMA ForgivenSaid ==
  ASSUME NEW ids \in SUBSET ForgivenErrors, NEW warnings \in SUBSET PreprocessorWarnings,
         Say({Reported(id, "Warning") : id \in warnings} \cup Errors(ids))
  PROVE  AnyFatal' <=> AnyFatal
<1>1. \A id, severity : Reported(id, severity).id = id
  BY DEF Reported
<1>2. \A report \in {Reported(id, "Warning") : id \in warnings} \cup Errors(ids) :
        report.id \in WarningIds \/ Forgiven(report)
  BY <1>1, WarningsAssumption DEF Errors, Forgiven
<1>. QED  BY <1>2, NothingFatalSaid

(* What setting the frame on top does to the frames that have failed.      *)
LEMMA TopReplacedFails ==
  ASSUME StackInv, stack # <<>>, NEW frame, SetTop(frame)
  PROVE  /\ frame.ok = Top.ok => (AnyFailed(stack') <=> AnyFailed(stack))
         /\ frame.ok = FALSE => AnyFailed(stack')
<1>1. IsSequence(stack)
  BY DEF StackInv, Chain
<1>2. /\ IsSequence(stack') /\ Len(stack') = Len(stack)
      /\ \A i \in 1..Len(stack) : stack'[i] = IF i = Len(stack) THEN frame ELSE stack[i]
  BY <1>1, LastReplaced DEF SetTop
<1>3. DOMAIN stack = 1..Len(stack) /\ DOMAIN stack' = 1..Len(stack) /\ Len(stack) \in DOMAIN stack
  BY <1>1, <1>2, SequenceFacts
<1>. QED  BY <1>2, <1>3 DEF AnyFailed, Top, Last

(* A step that fails, and one that does not.                               *)
LEMMA StepFails ==
  ASSUME StackInv, stack # <<>>, FailInv, phase' # "done", UNCHANGED ok,
         NEW frame, SetTop(frame), frame.ok = FALSE, AnyFatal'
  PROVE  FailInv'
<1>1. phase # "done"
  BY DEF StackInv
<1>. QED  BY <1>1, TopReplacedFails DEF FailInv

LEMMA StepSucceeds ==
  ASSUME StackInv, stack # <<>>, FailInv, phase' # "done", UNCHANGED ok,
         NEW frame, SetTop(frame), frame.ok = Top.ok, AnyFatal' <=> AnyFatal
  PROVE  FailInv'
<1>1. phase # "done"
  BY DEF StackInv
<1>. QED  BY <1>1, TopReplacedFails DEF FailInv

LEMMA BlankFails ==
  ASSUME StackInv, stack # <<>>, FailInv, UNCHANGED ok,
         NEW frame, Blank(frame), frame.ok = FALSE,
         NEW id \in PreprocessorErrors \ ForgivenErrors, Say(Errors({id})),
         id = "IncludeExpectsTarget" => logical.dir.op \notin {"if", "elif"}
  PROVE  FailInv'
<1>1. AnyFatal'
  BY FatalSaid
<1>2. SetTop(frame) /\ phase' = "read"
  BY DEF Blank
<1>. QED  BY <1>1, <1>2, StepFails

LEMMA BlankSucceeds ==
  ASSUME StackInv, stack # <<>>, FailInv, UNCHANGED ok,
         NEW frame, Blank(frame), frame.ok = Top.ok, AnyFatal' <=> AnyFatal
  PROVE  FailInv'
<1>1. SetTop(frame) /\ phase' = "read"
  BY DEF Blank
<1>. QED  BY <1>1, StepSucceeds

LEMMA NothingSaid ==
  ASSUME UNCHANGED reports
  PROVE  AnyFatal' <=> AnyFatal
BY DEF AnyFatal, Fatal

(* What is wrong with the expression of an #if or #elif is forgiven, a     *)
(* __has_include without a target included.                                *)
LEMMA ExpressionSaid ==
  ASSUME Say(Errors(ExpressionErrors)), logical.dir.op \in {"if", "elif"}
  PROVE  AnyFatal' <=> AnyFatal
<1>1. \A id \in ExpressionErrors : id \in ForgivenErrors \/ id = "IncludeExpectsTarget"
  BY DEF ExpressionErrors, ForgivenErrors
<1>2. \A id : Reported(id, "Error").id = id /\ Reported(id, "Error").by = logical.dir.op
  BY DEF Reported
<1>3. \A report \in Errors(ExpressionErrors) : Forgiven(report)
  BY <1>1, <1>2 DEF Errors, Forgiven
<1>. QED  BY <1>3, NothingFatalSaid

LEMMA ConditionalsFail ==
  ASSUME StackInv, FailInv, If \/ IfDefined \/ Elif \/ Else \/ Endif \/ SkipInactive
  PROVE  FailInv'
<1>0. stack # <<>> /\ UNCHANGED ok
  BY DEF StackInv, If, IfDefined, Elif, Else, Endif, SkipInactive, Directive
<1>1. CASE If
  <2>. DEFINE value == Valid /\ Holds
  <2>1. Blank(Opened(value)) /\ value \in BOOLEAN
    BY <1>1 DEF If
  <2>2. AnyFatal' <=> AnyFatal
    BY <1>1, ExpressionSaid DEF If, Directive
  <2>. HIDE DEF value
  <2>. QED  BY <1>0, <2>1, <2>2, OpenedFrame, BlankSucceeds
<1>2. CASE IfDefined
  <2>. DEFINE value == (logical.dir.name \in DOMAIN macros) # (logical.dir.op = "ifndef")
  <2>1. CASE Say(Errors({"ConditionalExpectsMacroName"})) /\ Blank(Failed(Opened(FALSE)))
    BY <1>0, <2>1, OpenedFrame, BlankFails DEF PreprocessorErrors, ForgivenErrors
  <2>2. CASE UNCHANGED reports /\ Blank(Opened(value))
    <3>1. value \in BOOLEAN
      OBVIOUS
    <3>. HIDE DEF value
    <3>. QED  BY <1>0, <2>2, <3>1, OpenedFrame, NothingSaid, BlankSucceeds
  <2>. QED  BY <1>2, <2>1, <2>2 DEF IfDefined
<1>3. CASE Elif
  <2>1. CASE Say(Errors({"ElifWithoutIf"})) /\ Blank(Failed(Obeying))
    BY <1>0, <2>1, ObeyingFrame, BlankFails DEF PreprocessorErrors, ForgivenErrors
  <2>2. CASE /\ ~Unmatched
             /\ Say(Errors(ExpressionErrors))
             /\ Blank(SetConditional(AnotherBranch(Last(Top.conditionals), Valid /\ Holds)))
    <3>. DEFINE value == Valid /\ Holds
    <3>1. Top.conditionals # <<>> /\ value \in BOOLEAN
      BY <2>2 DEF Unmatched
    <3>2. Blank(SetConditional(AnotherBranch(Last(Top.conditionals), value)))
      BY <2>2
    <3>3. AnyFatal' <=> AnyFatal
      BY <1>3, <2>2, ExpressionSaid DEF Elif, Directive
    <3>. HIDE DEF value
    <3>. QED  BY <1>0, <3>1, <3>2, <3>3, BranchFrame, BlankSucceeds
  <2>. QED  BY <1>3, <2>1, <2>2 DEF Elif
<1>4. CASE Else
  <2>1. CASE Say(Errors({"ElseWithoutIf"})) /\ Blank(Failed(Obeying))
    BY <1>0, <2>1, ObeyingFrame, BlankFails DEF PreprocessorErrors, ForgivenErrors
  <2>2. CASE /\ ~Unmatched
             /\ UNCHANGED reports
             /\ Blank(SetConditional([AnotherBranch(Last(Top.conditionals), TRUE) EXCEPT !.sawElse = TRUE]))
    <3>1. Top.conditionals # <<>>
      BY <2>2 DEF Unmatched
    <3>. QED  BY <1>0, <2>2, <3>1, BranchFrame, NothingSaid, BlankSucceeds
  <2>. QED  BY <1>4, <2>1, <2>2 DEF Else
<1>5. CASE Endif
  <2>1. CASE Say(Errors({"EndifWithoutIf"})) /\ Blank(Failed(Obeying))
    BY <1>0, <2>1, ObeyingFrame, BlankFails DEF PreprocessorErrors, ForgivenErrors
  <2>2. CASE UNCHANGED reports /\ Top.conditionals # <<>> /\ Blank([Obeying EXCEPT !.conditionals = Front(@)])
    <3>1. WellNested(Front(Top.conditionals))
      BY <1>0, <2>2, TopFrame, GroupClosed DEF FrameInv
    <3>2. [Obeying EXCEPT !.conditionals = Front(@)] = [Obeying EXCEPT !.conditionals = Front(Top.conditionals)]
      BY <1>0, ObeyingFrame
    <3>. QED  BY <1>0, <2>2, <3>1, <3>2, RegroupedFrame, NothingSaid, BlankSucceeds
  <2>. QED  BY <1>5, <2>1, <2>2 DEF Endif
<1>6. CASE SkipInactive
  <2>1. UNCHANGED reports /\ \E differs : Blank(Follow(Top, differs))
    BY <1>6 DEF SkipInactive
  <2>. QED  BY <1>0, <2>1, FollowedFrame, NothingSaid, BlankSucceeds
<1>. QED  BY <1>1, <1>2, <1>3, <1>4, <1>5, <1>6

LEMMA PlainDirectivesFail ==
  ASSUME StackInv, LinesInv, SettingsInv, FailInv, PlainDirective
  PROVE  FailInv'
<1>0. stack # <<>>
  BY PlainDirectivesBlank
<1>1. UNCHANGED ok
  BY DEF PlainDirective, IncludeNothing, Define, Undef, UserMessage, UnsupportedDirective, PragmaOnce,
     PragmaIgnored, PragmaPush, PragmaPop, PragmaListEnds
<1>2. \/ Blank(Obeying) /\ UNCHANGED reports
      \/ Blank(Obeying) /\ Say({})
      \/ Blank(Obeying) /\ \E id \in PreprocessorWarnings : Say(PolicedWarning(id))
      \/ Blank(Failed(Obeying)) /\ \E ids \in SUBSET (PreprocessorErrors \ ForgivenErrors) :
                                     ids # {} /\ Say(Errors(ids))
  <2>0. \A id \in PreprocessorErrors \ ForgivenErrors :
          {id} \in SUBSET (PreprocessorErrors \ ForgivenErrors) /\ {id} # {}
    OBVIOUS
  <2>1. CASE IncludeNothing
    BY <2>0, <2>1 DEF IncludeNothing, PreprocessorErrors, ForgivenErrors
  <2>2. CASE Define
    <3>1. CASE Say(Errors({"DefineExpectsName"})) /\ Blank(Failed(Obeying))
      BY <2>0, <3>1 DEF PreprocessorErrors, ForgivenErrors
    <3>2. CASE /\ Say(Errors(logical.dir.faults))
               /\ Blank(IF logical.dir.faults = {} THEN Obeying ELSE Failed(Obeying))
      <4>1. logical.dir \in DefineType
        BY <2>2, DefineOnly DEF Define, ActiveDirective, Directive, LinesInv
      <4>2. logical.dir.faults \in SUBSET (PreprocessorErrors \ ForgivenErrors)
        BY <4>1 DEF DefineType, PreprocessorErrors, ForgivenErrors
      <4>3. Errors({}) = {}
        BY DEF Errors
      <4>. QED  BY <3>2, <4>2, <4>3
    <3>. QED  BY <2>2, <3>1, <3>2 DEF Define
  <2>6. CASE Undef
    BY <2>0, <2>6 DEF Undef, PreprocessorErrors, ForgivenErrors
  <2>3. CASE UserMessage \/ UnsupportedDirective
    BY <2>0, <2>3 DEF UserMessage, UnsupportedDirective, PreprocessorErrors, ForgivenErrors, PreprocessorWarnings
  <2>4. CASE PragmaOnce \/ PragmaIgnored
    BY <2>4 DEF PragmaOnce, PragmaIgnored, PreprocessorWarnings
  <2>5. CASE PragmaPush \/ PragmaPop \/ PragmaListEnds
    BY <2>5 DEF PragmaPush, PragmaPop, PragmaListEnds, PreprocessorWarnings
  <2>. QED  BY <2>1, <2>2, <2>3, <2>4, <2>5, <2>6 DEF PlainDirective
<1>3. logical.dir.op \notin {"if", "elif"}
  <2>1. PlainDirective => phase = "list" \/ logical.dir.op \notin {"if", "elif"}
    BY DEF PlainDirective, IncludeNothing, Define, Undef, UserMessage, UnsupportedDirective, PragmaOnce,
       PragmaIgnored, PragmaPush, PragmaPop, PragmaListEnds, Pragma, ActiveDirective, Directive
  <2>. QED  BY <2>1 DEF SettingsInv
<1>4. CASE Blank(Obeying) /\ (AnyFatal' <=> AnyFatal)
  BY <1>0, <1>1, <1>4, ObeyingFrame, BlankSucceeds
<1>5. CASE Blank(Failed(Obeying)) /\ \E ids \in SUBSET (PreprocessorErrors \ ForgivenErrors) :
                                        ids # {} /\ Say(Errors(ids))
  <2>1. AnyFatal' /\ SetTop(Failed(Obeying)) /\ phase' # "done"
    BY <1>3, <1>5, FatalsSaid DEF Blank
  <2>. QED  BY <1>0, <1>1, <2>1, ObeyingFrame, StepFails
<1>6. Say({}) => (AnyFatal' <=> AnyFatal)
  BY NothingFatalSaid
<1>. QED  BY <1>2, <1>4, <1>5, <1>6, NothingSaid, WarningSaid

LEMMA IncludesFail ==
  ASSUME StackInv, FailInv, Include
  PROVE  FailInv'
<1>1. PICK file \in Files : Enter(file)
  BY DEF Include
<1>2. stack # <<>> /\ phase # "done" /\ phase' = "read" /\ UNCHANGED ok
  BY <1>1 DEF StackInv, Include, Enter, ActiveDirective, Directive
<1>3. CASE SetTop(Obeying) /\ UNCHANGED reports
  BY <1>2, <1>3, ObeyingFrame, NothingSaid, StepSucceeds
<1>4. CASE /\ SetTop(Failed(Obeying))
           /\ Say(Errors({IF BeingExpanded(file) THEN "IncludeCycle"
                          ELSE IF Len(stack) >= MaxIncludeDepth THEN "IncludeTooDeep"
                          ELSE "CannotOpenFile"}))
  <2>1. \E id \in PreprocessorErrors \ ForgivenErrors : id # "IncludeExpectsTarget" /\ Say(Errors({id}))
    BY <1>4 DEF PreprocessorErrors, ForgivenErrors
  <2>. QED  BY <1>2, <1>4, <2>1, ObeyingFrame, FatalSaid, StepFails
<1>5. CASE /\ stack' = Append(ReplaceAt(stack, Len(stack), Obeying), Frame(file))
           /\ UNCHANGED reports
  <2>. DEFINE below == ReplaceAt(stack, Len(stack), Obeying)
  <2>1. IsSequence(stack) /\ Obeying.ok = Top.ok
    BY <1>2, ObeyingFrame DEF StackInv, Chain
  <2>2. /\ IsSequence(below) /\ Len(below) = Len(stack)
        /\ \A i \in 1..Len(stack) : below[i] = IF i = Len(stack) THEN Obeying ELSE stack[i]
    BY <1>2, <2>1, LastReplaced
  <2>3. DOMAIN stack = 1..Len(stack) /\ DOMAIN below = 1..Len(stack) /\ Len(stack) \in Nat
    BY <2>1, <2>2, SequenceFacts
  <2>4. \A i \in DOMAIN stack : below[i].ok = stack[i].ok
    BY <2>1, <2>2, <2>3 DEF Top, Last
  <2>. HIDE DEF below
  <2>5. /\ IsSequence(stack') /\ Len(stack') = Len(stack) + 1
        /\ \A i \in 1..Len(stack') : stack'[i] = IF i = Len(stack') THEN Frame(file) ELSE below[i]
    BY <1>5, <2>2, Appended DEF below
  <2>6. DOMAIN stack' = 1..(Len(stack) + 1)
    BY <2>5, SequenceFacts
  <2>7. Frame(file).ok = TRUE
    BY DEF Frame
  <2>8. \A i \in DOMAIN stack : i \in DOMAIN stack' /\ stack'[i].ok = stack[i].ok
    BY <2>3, <2>4, <2>5, <2>6
  <2>9. \A i \in DOMAIN stack' : i \in DOMAIN stack \/ stack'[i].ok = TRUE
    BY <2>3, <2>5, <2>6, <2>7
  <2>10. AnyFailed(stack') <=> AnyFailed(stack)
    BY <2>8, <2>9 DEF AnyFailed
  <2>. QED  BY <1>2, <1>5, <2>10, NothingSaid DEF FailInv
<1>. QED  BY <1>1, <1>3, <1>4, <1>5 DEF Enter

(* A file that ends passes its failure on to the one that included it, or  *)
(* to the run.                                                             *)
LEMMA EndOfFileFails ==
  ASSUME StackInv, FailInv, EndOfFile
  PROVE  FailInv'
<1>. DEFINE open == Top.conditionals # <<>>
            fine == Top.ok /\ ~open
            below == Front(stack)
            n == Len(below)
<1>1. stack # <<>> /\ phase = "read" /\ IsSequence(stack)
  BY DEF StackInv, Chain, EndOfFile
<1>2. /\ IsSequence(below) /\ Len(below) = Len(stack) - 1
      /\ \A i \in 1..Len(below) : below[i] = stack[i]
  BY <1>1, Shortened
<1>3. /\ Len(stack) \in Nat /\ Len(stack) > 0 /\ DOMAIN stack = 1..Len(stack)
      /\ n \in Nat /\ Len(stack) = n + 1 /\ DOMAIN below = 1..n
      /\ below = <<>> <=> n = 0
  BY <1>1, <1>2, SequenceFacts
<1>4. AnyFatal <=> (AnyFailed(below) \/ ~Top.ok)
  <2>1. AnyFatal <=> AnyFailed(stack)
    BY <1>1 DEF FailInv
  <2>2. \A i \in DOMAIN stack : i \in DOMAIN below \/ i = Len(stack)
    BY <1>3
  <2>3. \A i \in DOMAIN below : i \in DOMAIN stack /\ below[i] = stack[i]
    BY <1>2, <1>3
  <2>4. Top = stack[Len(stack)] /\ Len(stack) \in DOMAIN stack
    BY <1>3 DEF Top, Last
  <2>. QED  BY <2>1, <2>2, <2>3, <2>4 DEF AnyFailed
<1>5. AnyFatal' <=> (AnyFatal \/ open)
  <2>1. CASE open
    <3>1. Say(Errors({"UnterminatedConditional"}))
      BY <2>1 DEF EndOfFile
    <3>. QED  BY <2>1, <3>1, FatalSaid DEF PreprocessorErrors, ForgivenErrors
  <2>2. CASE ~open
    <3>1. Say({})
      BY <2>2 DEF EndOfFile
    <3>. QED  BY <2>2, <3>1, NothingFatalSaid
  <2>. QED  BY <2>1, <2>2
<1>6. AnyFatal' <=> (AnyFailed(below) \/ ~fine)
  BY <1>4, <1>5
<1>7. CASE below = <<>> /\ stack' = below /\ ok' = fine /\ phase' = "done"
  <2>1. ~AnyFailed(below)
    BY <1>3, <1>7 DEF AnyFailed
  <2>. QED  BY <1>6, <1>7, <2>1 DEF FailInv
<1>8. CASE /\ below # <<>> /\ stack' = [below EXCEPT ![Len(below)].ok = @ /\ fine]
           /\ UNCHANGED <<ok, phase>>
  <2>. DEFINE passedOn == below[n].ok /\ fine
  <2>1. n \in DOMAIN below
    BY <1>3, <1>8
  <2>2. stack' = [below EXCEPT ![n] = [below[n] EXCEPT !.ok = passedOn]]
    BY <1>8, <2>1
  <2>3. FrameInv(below[n])
    BY <1>2, <1>3, <2>1 DEF StackInv, Chain
  <2>4. [below[n] EXCEPT !.ok = passedOn].ok = passedOn
    <3>. HIDE DEF passedOn
    <3>. QED  BY <2>3 DEF FrameInv, FrameFields
  <2>5. DOMAIN stack' = DOMAIN below
        /\ stack'[n].ok = passedOn
        /\ \A i \in DOMAIN below : i # n => stack'[i] = below[i]
    <3>. DEFINE frame == [below[n] EXCEPT !.ok = passedOn]
    <3>. HIDE DEF frame, below, n, passedOn
    <3>1. stack' = [below EXCEPT ![n] = frame] /\ frame.ok = passedOn
      BY <2>2, <2>4 DEF frame
    <3>. QED  BY <2>1, <3>1
  <2>6. AnyFailed(stack') <=> (AnyFailed(below) \/ ~fine)
    BY <2>1, <2>5 DEF AnyFailed
  <2>. QED  BY <1>1, <1>6, <1>8, <2>6 DEF FailInv
<1>. QED  BY <1>7, <1>8 DEF EndOfFile

(* Reading a line keeps the file's result.                                 *)
LEMMA ReadingSucceeds ==
  ASSUME StackInv, FailInv, Run \/ ReadLine \/ SpliceLine \/ SpliceAtEnd
  PROVE  FailInv'
<1>1. UNCHANGED <<reports, ok>> /\ phase' # "done" /\ phase # "done"
  BY DEF Run, ReadLine, SpliceLine, SpliceAtEnd
<1>2. AnyFatal' <=> AnyFatal
  BY <1>1, NothingSaid
<1>3. CASE Run
  <2>1. stack = <<>> /\ stack' = <<Frame(Main)>>
    BY <1>3 DEF Run, StackInv
  <2>2. ~AnyFailed(stack) /\ ~AnyFailed(stack')
    <3>1. Frame(Main).ok = TRUE
      BY DEF Frame
    <3>2. DOMAIN <<>> = {}
      OBVIOUS
    <3>3. \A i \in DOMAIN stack' : stack'[i] = Frame(Main)
      BY <2>1
    <3>. QED  BY <2>1, <3>1, <3>2, <3>3 DEF AnyFailed
  <2>. QED  BY <1>1, <1>2, <2>2 DEF FailInv
<1>4. CASE ReadLine
  <2>. DEFINE frame == [Top EXCEPT !.position = @ + 1, !.sourceLine = @ + 1,
                                   !.logicalLine = Top.sourceLine + 1]
  <2>1. stack # <<>> /\ SetTop(frame)
    BY <1>4 DEF ReadLine, StackInv
  <2>2. frame.ok = Top.ok
    BY <2>1, TopFrame, FrameAdvanced
  <2>. QED  BY <1>1, <1>2, <2>1, <2>2, StepSucceeds
<1>5. CASE SpliceLine
  <2>. DEFINE frame == [Top EXCEPT !.position = @ + 1, !.sourceLine = @ + 1]
  <2>1. stack # <<>> /\ SetTop(frame)
    BY <1>5 DEF SpliceLine, StackInv
  <2>2. frame.ok = Top.ok
    BY <2>1, TopFrame, FrameAdvanced
  <2>. QED  BY <1>1, <1>2, <2>1, <2>2, StepSucceeds
<1>6. CASE SpliceAtEnd
  BY <1>1, <1>2, <1>6 DEF SpliceAtEnd, FailInv
<1>. QED  BY <1>3, <1>4, <1>5, <1>6

(* So does a list of warning numbers, the ones that name none included.    *)
LEMMA ListSucceeds ==
  ASSUME FailInv, PragmaSet \/ PragmaNumber \/ PragmaBadNumber
  PROVE  FailInv'
<1>1. /\ UNCHANGED <<stack, ok>>
      /\ phase' # "done"
      /\ UNCHANGED reports \/ Say(PolicedWarning("UncontrollableDiagnostic"))
  BY DEF PragmaSet, Pragma, ActiveDirective, Directive, PragmaNumber, PragmaBadNumber, NextNumber
<1>2. phase # "done"
  BY DEF PragmaSet, Pragma, ActiveDirective, Directive, PragmaNumber, PragmaBadNumber
<1>3. AnyFatal' <=> AnyFatal
  BY <1>1, NothingSaid, WarningSaid DEF PreprocessorWarnings
<1>. QED  BY <1>1, <1>2, <1>3 DEF FailInv

(* A line that is expanded may be misread, but its file goes on.           *)
LEMMA EmitSucceeds ==
  ASSUME StackInv, stack # <<>>, FailInv, UNCHANGED ok,
         NEW text, NEW frame, SameFile(frame), frame.ok = Top.ok, NEW taken, Emit(text, frame, taken)
  PROVE  FailInv'
<1>. DEFINE errors == Expanded(text, frame).errors
<1>1. phase' = "read" /\ \E after : SetTop(after) /\ after.ok = Top.ok
  BY EmittedTop
<1>2. AnyFatal' <=> AnyFatal
  <2>1. Say({Reported(id, "Warning") : id \in errors \cap PreprocessorWarnings}
            \cup Errors(errors \cap ForgivenErrors))
    BY DEF Emit
  <2>. HIDE DEF errors
  <2>. QED  BY <2>1, ForgivenSaid
<1>. QED  BY <1>1, <1>2, StepSucceeds

LEMMA TextSucceeds ==
  ASSUME StackInv, FailInv, EmitLine \/ StartJoin \/ JoinLine \/ EmitJoined
  PROVE  FailInv'
<1>0. stack # <<>> /\ UNCHANGED ok
  BY DEF StackInv, EmitLine, StartJoin, JoinLine, EmitJoined
<1>1. CASE EmitLine
  BY <1>0, <1>1, FollowedFrame, EmitSucceeds DEF EmitLine
<1>2. CASE StartJoin
  <2>1. \E frame : SetTop(frame) /\ frame.ok = Top.ok
    BY <1>0, <1>2, FollowedFrame DEF StartJoin
  <2>2. UNCHANGED reports /\ phase' # "done"
    BY <1>2 DEF StartJoin
  <2>. QED  BY <1>0, <2>1, <2>2, NothingSaid, StepSucceeds
<1>3. CASE JoinLine
  <2>1. PICK line : SetTop([Top EXCEPT !.position = @ + 1, !.sourceLine = @ + 1,
                                       !.cComment = EndsInComment(JoinedTokens(line), @)])
    BY <1>3 DEF JoinLine
  <2>. DEFINE comment == EndsInComment(JoinedTokens(line), Top.cComment)
              frame == [Top EXCEPT !.position = @ + 1, !.sourceLine = @ + 1, !.cComment = comment]
  <2>2. SetTop(frame)
    BY <2>1
  <2>3. frame.ok = Top.ok
    <3>. HIDE DEF comment
    <3>. QED  BY <1>0, TopFrame DEF FrameInv, FrameFields
  <2>4. UNCHANGED reports /\ phase' # "done"
    BY <1>3 DEF JoinLine
  <2>. QED  BY <1>0, <2>2, <2>3, <2>4, NothingSaid, StepSucceeds
<1>4. CASE EmitJoined
  <2>. DEFINE misread == Top.misread \/ logical.commentOpen
              frame == [Top EXCEPT !.misread = misread]
  <2>1. Emit(logical.text, frame, logical.taken)
    BY <1>4 DEF EmitJoined
  <2>2. SameFile(frame) /\ frame.ok = Top.ok
    <3>. HIDE DEF misread
    <3>. QED  BY <1>0, MisreadFrame
  <2>. HIDE DEF frame
  <2>. QED  BY <1>0, <2>1, <2>2, EmitSucceeds
<1>. QED  BY <1>1, <1>2, <1>3, <1>4

(* A run fails exactly when a directive, a file or a group left open was   *)
(* reported as an error that is not forgiven: the failure of each file     *)
(* reaches the run through every file that includes it, and nothing else   *)
(* makes one.  The same error is forgiven when __has_include reports it    *)
(* and not when #include does.                                             *)
THEOREM FailsWithAReasonAlways == Spec => []FailsWithAReason
<1>1. Init => FailInv
  <2>1. DOMAIN <<>> = {}
    OBVIOUS
  <2>. QED  BY <2>1 DEF Init, FailInv, AnyFatal, AnyFailed
<1>2. StackInv /\ LinesInv /\ SettingsInv /\ FailInv /\ [Next]_vars => FailInv'
  <2>1. ASSUME FailInv, UNCHANGED vars
        PROVE  FailInv'
    BY <2>1, NothingSaid DEF FailInv, vars
  <2>. QED  BY <2>1, ReadingSucceeds, EndOfFileFails, ConditionalsFail, IncludesFail,
            PlainDirectivesFail, ListSucceeds, TextSucceeds
            DEF Next, ConditionalStep, PlainDirective, Finished
<1>3. FailInv => FailsWithAReason
  BY DEF FailInv, FailsWithAReason, AnyFatal, Fatal
<1>. QED  BY <1>1, <1>2, <1>3, StackInvHolds, LinesInvHolds, SettingsInvHolds, PTL DEF Spec

-----------------------------------------------------------------------------
(* A header that begins with #pragma once.                                 *)

OnceLine == [op |-> "pragma", what |-> "once"]

(* A file that begins with the pragma, as far as it has been read.         *)
OnceFile(file) ==
  content[file] # <<>> => content[file][1].dir = OnceLine /\ ~content[file][1].continues

Fresh(frame) == frame.conditionals = <<>> /\ ~frame.inBlockComment

(* The file on top has read that line and is about to obey it.             *)
AboutToObey == phase = "interpret" /\ logical.dir = OnceLine /\ Fresh(Top)

(* The lines taken for the one being dealt with are lines of its file.     *)
PlaceInv ==
  /\ phase \in OnALine =>
       /\ Top.logicalLine \in Nat
       /\ Top.logicalLine + (IF phase = "join" THEN logical.taken ELSE 0) <= Top.position
  /\ phase \in {"splice", "interpret"} => logical.taken = 0

(* Only the file on top may be at its start, and that one has left no mark. *)
FreshInv ==
  /\ \A i \in DOMAIN stack : stack[i].position = 0 =>
       i = Len(stack) /\ phase = "read" /\ Fresh(stack[i]) /\ stack[i].file \notin pragmaOnce
  /\ phase = "start" => pragmaOnce = {}

WrittenInv ==
  \A i \in DOMAIN out : out[i].file \in Files /\ out[i].line \in Nat

(* Nothing of the file has been written: it is at its first line at most.  *)
NotYet(file) ==
  /\ \A i \in DOMAIN out : out[i].file # file
  /\ \A k \in DOMAIN stack : stack[k].file = file =>
       k = Len(stack) /\ (stack[k].position = 0 \/ (stack[k].position = 1 /\ AboutToObey))

(* Its lines were written in order, the ones still to be written after.    *)
InOrder(file) ==
  /\ \A i, j \in DOMAIN out : i < j /\ out[i].file = file /\ out[j].file = file => out[i].line < out[j].line
  /\ \A k \in DOMAIN stack, i \in DOMAIN out : stack[k].file = file /\ out[i].file = file =>
       /\ out[i].line <= stack[k].position
       /\ k = Len(stack) /\ phase \in OnALine => out[i].line < stack[k].logicalLine

OnceInv ==
  /\ WrittenInv /\ PlaceInv /\ FreshInv
  /\ \A file \in Files : OnceFile(file) => (file \in pragmaOnce \/ NotYet(file)) /\ InOrder(file)

(* The first line of a file never changes.                                 *)
LEMMA OnceFileBefore ==
  ASSUME StackInv, LinesInv, [Next]_vars, NEW file \in Files, OnceFile(file)'
  PROVE  OnceFile(file)
<1>1. content[file] \in Seq(LineType)
  BY DEF LinesInv
<1>2. ASSUME stack # <<>>, NEW line, Decide(line)
      PROVE  content[file] # <<>> => content'[file] # <<>> /\ content'[file][1] = content[file][1]
  <2>1. UNCHANGED content \/ content' = [content EXCEPT ![Top.file] = Append(content[Top.file], line)]
    BY <1>2, TopFrame DEF Decide, LinesInv, FrameInv
  <2>2. content'[file] = content[file] \/ content'[file] = Append(content[file], line)
    BY <2>1 DEF LinesInv
  <2>3. content[file] # <<>> => Append(content[file], line) # <<>> /\ Append(content[file], line)[1] = content[file][1]
    <3>1. IsSequence(content[file])
      BY <1>1, AnySequence
    <3>. DEFINE s == content[file]
    <3>. HIDE DEF s
    <3>2. IsSequence(s) /\ s = content[file]
      BY <3>1 DEF s
    <3>3. s # <<>> => Len(s) \in Nat /\ Len(s) > 0
      BY <3>2, SequenceFacts
    <3>4. /\ Append(s, line) # <<>> /\ Len(Append(s, line)) = Len(s) + 1
          /\ \A i \in 1..Len(Append(s, line)) : Append(s, line)[i] = IF i = Len(Append(s, line)) THEN line ELSE s[i]
      BY <3>2, Appended
    <3>5. s # <<>> => Append(s, line) # <<>> /\ Append(s, line)[1] = s[1]
      BY <3>3, <3>4
    <3>. QED  BY <3>2, <3>5
  <2>. QED  BY <2>2, <2>3
<1>3. UNCHANGED content \/ (stack # <<>> /\ \E line : Decide(line))
  <2>1. CASE UNCHANGED vars \/ Run \/ ReadLine \/ SpliceLine \/ SpliceAtEnd \/ EndOfFile
    BY <2>1 DEF vars, files, Run, ReadLine, SpliceLine, SpliceAtEnd, EndOfFile, NoMoreLines, StackInv
  <2>2. CASE If \/ IfDefined \/ Elif \/ Else \/ Endif \/ SkipInactive
    BY <2>2 DEF If, IfDefined, Elif, Else, Endif, SkipInactive, files
  <2>3. CASE Include \/ IncludeNothing \/ Define \/ Undef \/ UserMessage \/ UnsupportedDirective
    BY <2>3 DEF Include, Enter, IncludeNothing, Define, Undef, UserMessage, UnsupportedDirective, files
  <2>4. CASE PragmaOnce \/ PragmaIgnored \/ PragmaPush \/ PragmaPop \/ PragmaListEnds
    BY <2>4 DEF PragmaOnce, PragmaIgnored, PragmaPush, PragmaPop, PragmaListEnds, files
  <2>5. CASE PragmaSet \/ PragmaNumber \/ PragmaBadNumber
    BY <2>5 DEF PragmaSet, PragmaNumber, PragmaBadNumber, NextNumber, files
  <2>6. CASE EmitLine \/ StartJoin \/ JoinLine \/ EmitJoined
    BY <2>6 DEF EmitLine, StartJoin, JoinLine, EmitJoined, JoinEnds, NoMoreLines, files, StackInv
  <2>. QED  BY <2>1, <2>2, <2>3, <2>4, <2>5, <2>6 DEF Next, Finished
<1>4. content[file] # <<>> => content'[file] # <<>> /\ content'[file][1] = content[file][1]
  BY <1>2, <1>3
<1>. QED  BY <1>4 DEF OnceFile

(* Whatever a file begins with is the first line read of it.               *)
LEMMA LineIsRead ==
  ASSUME StackInv, LinesInv, stack # <<>>, NEW line \in NextLines, Decide(line)
  PROVE  content'[Top.file] # <<>> /\ content'[Top.file][Top.position + 1] = line
<1>. DEFINE s == content[Top.file]
<1>1. Top.file \in Files /\ Top.position \in Nat /\ s \in Seq(LineType)
  BY TopFrame DEF FrameInv, LinesInv
<1>. HIDE DEF s
<1>2. CASE Top.position < Len(s)
  <2>1. line = s[Top.position + 1] /\ content' = content
    BY <1>2 DEF NextLines, Decide, s
  <2>2. s # <<>>
    BY <1>1, <1>2
  <2>. QED  BY <2>1, <2>2 DEF s
<1>3. CASE ~(Top.position < Len(s))
  <2>1. Top.position = Len(s) /\ line \in vocabulary
    BY <1>3 DEF NextLines, s
  <2>2. content'[Top.file] = Append(s, line)
    BY <1>1, <1>3 DEF Decide, LinesInv, s
  <2>3. line \in LineType
    BY <2>1, VocabularyAssumption DEF LinesInv
  <2>. QED  BY <1>1, <2>1, <2>2, <2>3
<1>. QED  BY <1>2, <1>3

(* The stack with another frame on top.                                    *)
Above(frame) ==
  /\ Len(stack') = Len(stack) /\ DOMAIN stack' = DOMAIN stack
  /\ \A i \in DOMAIN stack : stack'[i] = IF i = Len(stack) THEN frame ELSE stack[i]

LEMMA TopPlace ==
  ASSUME StackInv, stack # <<>>
  PROVE  /\ DOMAIN stack = 1..Len(stack) /\ Len(stack) \in Nat /\ Len(stack) \in DOMAIN stack
         /\ Top = stack[Len(stack)]
BY SequenceFacts DEF StackInv, Chain, Top, Last

LEMMA TopAbove ==
  ASSUME StackInv, stack # <<>>, NEW frame, SetTop(frame) \/ (UNCHANGED stack /\ frame = Top)
  PROVE  Above(frame) /\ Top' = frame
<1>1. CASE SetTop(frame)
  <2>1. /\ IsSequence(stack') /\ Len(stack') = Len(stack) /\ Last(stack') = frame
        /\ \A i \in 1..Len(stack) : stack'[i] = IF i = Len(stack) THEN frame ELSE stack[i]
    BY <1>1, LastReplaced DEF SetTop, StackInv, Chain
  <2>. QED  BY <2>1, TopPlace, SequenceFacts DEF Above, Top
<1>2. CASE UNCHANGED stack /\ frame = Top
  BY <1>2, TopPlace DEF Above, Top
<1>. QED  BY <1>1, <1>2

(* A file that begins with the pragma has obeyed it by its second line.    *)
LEMMA OnceObeyed ==
  ASSUME StackInv, OnceInv, phase \in OnALine, OnceFile(Top.file),
         AboutToObey => Top.file \in pragmaOnce', pragmaOnce \subseteq pragmaOnce'
  PROVE  Top.file \in pragmaOnce'
<1>1. stack # <<>>
  BY DEF StackInv, OnALine
<1>2. Top.file \in Files /\ Len(stack) \in DOMAIN stack /\ Top = stack[Len(stack)] /\ phase # "read"
  BY <1>1, TopFrame, TopPlace DEF FrameInv, OnALine
<1>3. Top.position # 0
  BY <1>2 DEF OnceInv, FreshInv
<1>4. Top.file \in pragmaOnce \/ NotYet(Top.file)
  BY <1>2 DEF OnceInv
<1>. QED  BY <1>2, <1>3, <1>4 DEF NotYet

(* What a step does to the files being expanded and to what is written:    *)
(* it begins a line,                                                       *)
LineBegun(frame) ==
  /\ stack # <<>> /\ phase = "read" /\ phase' \in {"splice", "interpret"}
  /\ Above(frame) /\ Top' = frame
  /\ frame.file = Top.file /\ frame.position = Top.position + 1 /\ frame.logicalLine = Top.position + 1
  /\ frame.conditionals = Top.conditionals /\ frame.inBlockComment = Top.inBlockComment
  /\ logical'.taken = 0
  /\ UNCHANGED <<out, pragmaOnce>>
  /\ \A file : file = Top.file /\ Top.position = 0 /\ OnceFile(file)' =>
       phase' = "interpret" /\ logical'.dir = OnceLine

(* goes on with it,                                                        *)
LineHeld(frame) ==
  /\ phase \in OnALine /\ phase' \in OnALine
  /\ Above(frame) /\ Top' = frame
  /\ frame.file = Top.file /\ frame.logicalLine = Top.logicalLine
  /\ frame.position \in {Top.position, Top.position + 1}
  /\ ~AboutToObey
  /\ PlaceInv'
  /\ UNCHANGED <<out, pragmaOnce>>

(* writes it,                                                              *)
LinesAdded ==
  /\ DOMAIN out \subseteq DOMAIN out' /\ DOMAIN out' \subseteq Nat
  /\ \A i \in DOMAIN out : out'[i] = out[i]
  /\ \A j \in DOMAIN out' \ DOMAIN out :
       /\ out'[j].file = Top.file /\ out'[j].line \in Top.logicalLine..Top.position
       /\ \A i \in DOMAIN out : i < j
       /\ \A i \in DOMAIN out' \ DOMAIN out : i < j => out'[i].line < out'[j].line

LineWritten(frame) ==
  /\ phase \in OnALine /\ phase' = "read"
  /\ Above(frame) /\ Top' = frame
  /\ frame.file = Top.file /\ frame.position = Top.position
  /\ LinesAdded
  /\ AboutToObey => Top.file \in pragmaOnce'
  /\ pragmaOnce \subseteq pragmaOnce'

(* begins a file,                                                          *)
FileEntered(file) ==
  /\ phase = "interpret" /\ phase' = "read"
  /\ ~AboutToObey
  /\ file \in Files \ pragmaOnce
  /\ UNCHANGED <<out, pragmaOnce>>
  /\ Len(stack') = Len(stack) + 1 /\ DOMAIN stack' = DOMAIN stack \cup {Len(stack) + 1}
  /\ stack'[Len(stack) + 1] = Frame(file)
  /\ \A i \in DOMAIN stack : /\ stack[i].file # file
                             /\ stack'[i].file = stack[i].file
                             /\ stack'[i].position = stack[i].position

(* or leaves one.                                                          *)
FileLeft ==
  /\ stack # <<>> /\ phase = "read" /\ phase' \in {"read", "done"}
  /\ UNCHANGED <<out, pragmaOnce>>
  /\ DOMAIN stack' = DOMAIN stack \ {Len(stack)}
  /\ \A i \in DOMAIN stack' : /\ stack'[i].file = stack[i].file
                              /\ stack'[i].position = stack[i].position

LEMMA BegunKeepsOnce ==
  ASSUME StackInv, LinesInv, OnceInv, [Next]_vars, NEW frame, LineBegun(frame)
  PROVE  OnceInv'
<1>1. /\ stack # <<>> /\ phase = "read" /\ phase' \in OnALine /\ phase' # "join" /\ phase' # "start"
      /\ Top' = frame /\ UNCHANGED <<out, pragmaOnce>>
      /\ Len(stack') = Len(stack) /\ DOMAIN stack' = DOMAIN stack
      /\ stack'[Len(stack)] = frame
      /\ \A i \in DOMAIN stack : i # Len(stack) => stack'[i] = stack[i]
      /\ Len(stack) \in DOMAIN stack /\ Top = stack[Len(stack)]
  BY TopPlace DEF LineBegun, Above, OnALine
<1>2. /\ frame.file = Top.file /\ frame.position = Top.position + 1
      /\ frame.logicalLine = Top.position + 1 /\ Top.position \in Nat /\ Top.file \in Files
  BY <1>1, TopFrame DEF LineBegun, FrameInv
<1>3. WrittenInv'
  BY <1>1 DEF OnceInv, WrittenInv
<1>4. PlaceInv'
  BY <1>1, <1>2 DEF PlaceInv, LineBegun
<1>5. FreshInv'
  BY <1>1, <1>2 DEF OnceInv, FreshInv
<1>6. ASSUME NEW file \in Files, OnceFile(file)'
      PROVE  (file \in pragmaOnce' \/ NotYet(file)') /\ InOrder(file)'
  <2>1. (file \in pragmaOnce \/ NotYet(file)) /\ InOrder(file)
    BY <1>6, OnceFileBefore DEF OnceInv
  <2>2. InOrder(file)'
    <3>1. ASSUME NEW k \in DOMAIN stack', NEW i \in DOMAIN out, stack'[k].file = file, out[i].file = file
          PROVE  /\ out[i].line <= stack'[k].position
                 /\ k = Len(stack') => out[i].line < stack'[k].logicalLine
      <4>1. CASE k = Len(stack)
        <5>1. out[i].line \in Nat /\ out[i].line <= Top.position
          BY <1>1, <1>2, <2>1, <3>1, <4>1 DEF InOrder, OnceInv, WrittenInv
        <5>. QED  BY <1>1, <1>2, <4>1, <5>1
      <4>2. CASE k # Len(stack)
        BY <1>1, <2>1, <3>1, <4>2 DEF InOrder
      <4>. QED  BY <4>1, <4>2
    <3>. QED  BY <1>1, <2>1, <3>1 DEF InOrder
  <2>3. ASSUME NotYet(file)
        PROVE  NotYet(file)'
    <3>1. ASSUME NEW k \in DOMAIN stack', stack'[k].file = file
          PROVE  k = Len(stack') /\ stack'[k].position = 1 /\ AboutToObey'
      <4>1. stack[k].file = file
        BY <1>1, <1>2, <3>1
      <4>2. k = Len(stack) /\ Top.file = file /\ Top.position = 0
        BY <1>1, <2>3, <3>1, <4>1 DEF NotYet, AboutToObey
      <4>3. Fresh(Top)
        BY <1>1, <4>2 DEF OnceInv, FreshInv
      <4>4. phase' = "interpret" /\ logical'.dir = OnceLine
        BY <1>6, <4>2 DEF LineBegun
      <4>5. Fresh(Top)'
        BY <4>3 DEF Fresh, LineBegun
      <4>. QED  BY <1>1, <1>2, <4>2, <4>4, <4>5 DEF AboutToObey
    <3>. QED  BY <1>1, <2>3, <3>1 DEF NotYet
  <2>. QED  BY <1>1, <2>1, <2>2, <2>3
<1>. QED  BY <1>3, <1>4, <1>5, <1>6 DEF OnceInv

LEMMA HeldKeepsOnce ==
  ASSUME StackInv, LinesInv, OnceInv, [Next]_vars, NEW frame, LineHeld(frame)
  PROVE  OnceInv'
<1>0. stack # <<>>
  BY DEF LineHeld, OnALine, StackInv
<1>1. /\ phase \in OnALine /\ phase # "read" /\ phase' \in OnALine /\ phase' # "start"
      /\ UNCHANGED <<out, pragmaOnce>>
      /\ Len(stack') = Len(stack) /\ DOMAIN stack' = DOMAIN stack
      /\ stack'[Len(stack)] = frame
      /\ \A i \in DOMAIN stack : i # Len(stack) => stack'[i] = stack[i]
      /\ Len(stack) \in DOMAIN stack /\ Top = stack[Len(stack)]
  BY <1>0, TopPlace DEF LineHeld, Above, OnALine
<1>2. /\ frame.file = Top.file /\ frame.logicalLine = Top.logicalLine
      /\ frame.position \in {Top.position, Top.position + 1}
      /\ Top.position \in Nat /\ Top.position # 0 /\ Top.file \in Files
  <2>1. Top.position # 0
    BY <1>1 DEF OnceInv, FreshInv
  <2>. QED  BY <1>0, <2>1, TopFrame DEF LineHeld, FrameInv
<1>3. WrittenInv' /\ PlaceInv'
  BY <1>1 DEF OnceInv, WrittenInv, LineHeld
<1>5. FreshInv'
  BY <1>1, <1>2 DEF OnceInv, FreshInv
<1>6. ASSUME NEW file \in Files, OnceFile(file)'
      PROVE  (file \in pragmaOnce' \/ NotYet(file)') /\ InOrder(file)'
  <2>0. OnceFile(file)
    BY <1>6, OnceFileBefore
  <2>1. (file \in pragmaOnce \/ NotYet(file)) /\ InOrder(file)
    BY <2>0 DEF OnceInv
  <2>2. InOrder(file)'
    <3>1. ASSUME NEW k \in DOMAIN stack', NEW i \in DOMAIN out, stack'[k].file = file, out[i].file = file
          PROVE  /\ out[i].line <= stack'[k].position
                 /\ k = Len(stack') => out[i].line < stack'[k].logicalLine
      <4>1. CASE k = Len(stack)
        <5>1. out[i].line \in Nat /\ out[i].line <= Top.position /\ out[i].line < Top.logicalLine
          BY <1>1, <1>2, <2>1, <3>1, <4>1 DEF InOrder, OnceInv, WrittenInv
        <5>. QED  BY <1>1, <1>2, <4>1, <5>1
      <4>2. CASE k # Len(stack)
        BY <1>1, <2>1, <3>1, <4>2 DEF InOrder
      <4>. QED  BY <4>1, <4>2
    <3>. QED  BY <1>1, <2>1, <3>1 DEF InOrder
  <2>3. ASSUME file \notin pragmaOnce
        PROVE  NotYet(file)'
    <3>1. file # Top.file
      BY <1>1, <2>0, <2>3, OnceObeyed DEF LineHeld
    <3>2. NotYet(file)
      BY <2>1, <2>3
    <3>3. \A k \in DOMAIN stack' : stack'[k].file # file
      BY <1>1, <1>2, <3>1, <3>2 DEF NotYet
    <3>. QED  BY <1>1, <3>2, <3>3 DEF NotYet
  <2>. QED  BY <1>1, <2>2, <2>3
<1>. QED  BY <1>3, <1>5, <1>6 DEF OnceInv

LEMMA WrittenKeepsOnce ==
  ASSUME StackInv, LinesInv, OnceInv, [Next]_vars, NEW frame, LineWritten(frame)
  PROVE  OnceInv'
<1>0. stack # <<>>
  BY DEF LineWritten, OnALine, StackInv
<1>1. /\ phase \in OnALine /\ phase # "read" /\ phase' = "read"
      /\ pragmaOnce \subseteq pragmaOnce'
      /\ Len(stack') = Len(stack) /\ DOMAIN stack' = DOMAIN stack
      /\ stack'[Len(stack)] = frame
      /\ \A i \in DOMAIN stack : i # Len(stack) => stack'[i] = stack[i]
      /\ Len(stack) \in DOMAIN stack /\ Top = stack[Len(stack)]
  BY <1>0, TopPlace DEF LineWritten, Above, OnALine
<1>2. /\ frame.file = Top.file /\ frame.position = Top.position
      /\ Top.position \in Nat /\ Top.position # 0 /\ Top.file \in Files /\ Top.logicalLine \in Nat
  <2>1. Top.position # 0
    BY <1>1 DEF OnceInv, FreshInv
  <2>. QED  BY <1>0, <1>1, <2>1, TopFrame DEF LineWritten, FrameInv, OnceInv, PlaceInv
<1>a. /\ DOMAIN out \subseteq DOMAIN out' /\ DOMAIN out' \subseteq Nat
      /\ \A i \in DOMAIN out : out'[i] = out[i]
  BY DEF LineWritten, LinesAdded
<1>b. ASSUME NEW j \in DOMAIN out' \ DOMAIN out
      PROVE  /\ out'[j].file = Top.file
             /\ out'[j].line \in Nat /\ Top.logicalLine <= out'[j].line /\ out'[j].line <= Top.position
             /\ \A i \in DOMAIN out : i < j
             /\ \A i \in DOMAIN out' \ DOMAIN out : i < j => out'[i].line < out'[j].line
  BY <1>b, <1>2 DEF LineWritten, LinesAdded
<1>3. WrittenInv'
  BY <1>a, <1>b, <1>2 DEF OnceInv, WrittenInv
<1>4. PlaceInv'
  BY <1>1 DEF PlaceInv, OnALine
<1>5. FreshInv'
  BY <1>1, <1>2 DEF OnceInv, FreshInv
<1>6. ASSUME NEW file \in Files, OnceFile(file)'
      PROVE  (file \in pragmaOnce' \/ NotYet(file)') /\ InOrder(file)'
  <2>0. OnceFile(file)
    BY <1>6, OnceFileBefore
  <2>1. (file \in pragmaOnce \/ NotYet(file)) /\ InOrder(file)
    BY <2>0 DEF OnceInv
  <2>a. ASSUME NEW i \in DOMAIN out, out[i].file = file, file = Top.file
        PROVE  out[i].line < Top.logicalLine /\ out[i].line <= Top.position /\ out[i].line \in Nat
    BY <1>1, <2>1, <2>a DEF InOrder, OnceInv, WrittenInv
  <2>2. InOrder(file)'
    <3>1. ASSUME NEW i \in DOMAIN out', NEW j \in DOMAIN out', i < j, out'[i].file = file, out'[j].file = file
          PROVE  out'[i].line < out'[j].line
      <4>1. CASE i \in DOMAIN out /\ j \in DOMAIN out
        BY <1>a, <2>1, <3>1, <4>1 DEF InOrder
      <4>2. CASE i \in DOMAIN out /\ j \notin DOMAIN out
        <5>1. file = Top.file /\ out[i].file = file /\ out'[i] = out[i]
          BY <1>a, <1>b, <3>1, <4>2
        <5>2. out[i].line < Top.logicalLine /\ out[i].line \in Nat
          BY <2>a, <4>2, <5>1
        <5>3. Top.logicalLine <= out'[j].line /\ out'[j].line \in Nat
          BY <1>b, <4>2
        <5>. QED  BY <1>2, <5>1, <5>2, <5>3
      <4>3. CASE i \notin DOMAIN out /\ j \in DOMAIN out
        <5>1. j < i /\ i \in Nat /\ j \in Nat
          BY <1>a, <1>b, <4>3
        <5>. QED  BY <3>1, <5>1
      <4>4. CASE i \notin DOMAIN out /\ j \notin DOMAIN out
        BY <1>b, <3>1, <4>4
      <4>. QED  BY <4>1, <4>2, <4>3, <4>4
    <3>2. ASSUME NEW k \in DOMAIN stack', NEW i \in DOMAIN out', stack'[k].file = file, out'[i].file = file
          PROVE  out'[i].line <= stack'[k].position
      <4>1. stack'[k].file = stack[k].file /\ stack'[k].position = stack[k].position /\ k \in DOMAIN stack
        BY <1>1, <1>2
      <4>2. CASE i \in DOMAIN out
        BY <1>a, <2>1, <3>2, <4>1, <4>2 DEF InOrder
      <4>3. CASE i \notin DOMAIN out
        <5>1. stack[k].file = Top.file
          BY <1>b, <3>2, <4>1, <4>3
        <5>2. k = Len(stack)
          BY <1>1, <4>1, <5>1 DEF StackInv, Chain
        <5>. QED  BY <1>1, <1>b, <4>1, <4>3, <5>2
      <4>. QED  BY <4>2, <4>3
    <3>. QED  BY <1>1, <3>1, <3>2 DEF InOrder, OnALine
  <2>3. ASSUME file \notin pragmaOnce'
        PROVE  NotYet(file)'
    <3>1. file # Top.file
      BY <1>1, <2>0, <2>3, OnceObeyed DEF LineWritten
    <3>2. NotYet(file)
      BY <1>1, <2>1, <2>3
    <3>3. \A k \in DOMAIN stack' : stack'[k].file # file
      BY <1>1, <1>2, <3>1, <3>2 DEF NotYet
    <3>4. \A i \in DOMAIN out' : out'[i].file # file
      BY <1>a, <1>b, <3>1, <3>2 DEF NotYet
    <3>. QED  BY <3>3, <3>4 DEF NotYet
  <2>. QED  BY <2>2, <2>3
<1>. QED  BY <1>3, <1>4, <1>5, <1>6 DEF OnceInv

LEMMA EnteredKeepsOnce ==
  ASSUME StackInv, LinesInv, OnceInv, [Next]_vars, NEW entered, FileEntered(entered)
  PROVE  OnceInv'
<1>0. stack # <<>> /\ phase \in OnALine /\ phase # "read" /\ phase' = "read" /\ phase' \notin OnALine
  BY DEF FileEntered, OnALine, StackInv
<1>1. /\ entered \in Files \ pragmaOnce /\ UNCHANGED <<out, pragmaOnce>>
      /\ Len(stack') = Len(stack) + 1 /\ DOMAIN stack' = DOMAIN stack \cup {Len(stack) + 1}
      /\ stack'[Len(stack) + 1] = Frame(entered)
      /\ \A i \in DOMAIN stack : /\ stack[i].file # entered
                                 /\ stack'[i].file = stack[i].file
                                 /\ stack'[i].position = stack[i].position
  BY DEF FileEntered
<1>2. /\ Frame(entered).file = entered /\ Frame(entered).position = 0 /\ Fresh(Frame(entered))
  BY DEF Frame, Fresh
<1>3. WrittenInv' /\ PlaceInv'
  BY <1>0, <1>1 DEF OnceInv, WrittenInv, PlaceInv, OnALine
<1>4. \A i \in DOMAIN stack : stack[i].position # 0
  BY <1>0 DEF OnceInv, FreshInv
<1>5. FreshInv'
  BY <1>0, <1>1, <1>2, <1>4 DEF FreshInv
<1>6. ASSUME NEW file \in Files, OnceFile(file)'
      PROVE  (file \in pragmaOnce' \/ NotYet(file)') /\ InOrder(file)'
  <2>0. OnceFile(file)
    BY <1>6, OnceFileBefore
  <2>1. (file \in pragmaOnce \/ NotYet(file)) /\ InOrder(file)
    BY <2>0 DEF OnceInv
  <2>2. InOrder(file)'
    <3>1. ASSUME NEW k \in DOMAIN stack', NEW i \in DOMAIN out, stack'[k].file = file, out[i].file = file
          PROVE  out[i].line <= stack'[k].position
      <4>1. CASE k \in DOMAIN stack
        BY <1>1, <2>1, <3>1, <4>1 DEF InOrder
      <4>2. CASE k = Len(stack) + 1
        BY <1>1, <1>2, <2>1, <3>1, <4>2 DEF NotYet
      <4>. QED  BY <1>1, <4>1, <4>2
    <3>. QED  BY <1>0, <1>1, <2>1, <3>1 DEF InOrder
  <2>3. ASSUME file \notin pragmaOnce
        PROVE  NotYet(file)'
    <3>1. file # Top.file
      BY <1>0, <1>1, <2>0, <2>3, OnceObeyed DEF FileEntered
    <3>2. NotYet(file)
      BY <2>1, <2>3
    <3>3. \A k \in DOMAIN stack : stack[k].file # file
      BY <1>0, <3>1, <3>2, TopPlace DEF NotYet
    <3>. QED  BY <1>1, <1>2, <3>2, <3>3 DEF NotYet
  <2>. QED  BY <1>1, <2>2, <2>3
<1>. QED  BY <1>3, <1>5, <1>6 DEF OnceInv

LEMMA LeftKeepsOnce ==
  ASSUME StackInv, LinesInv, OnceInv, [Next]_vars, FileLeft
  PROVE  OnceInv'
<1>1. /\ phase' \notin OnALine /\ phase' # "start" /\ UNCHANGED <<out, pragmaOnce>>
      /\ DOMAIN stack' = DOMAIN stack \ {Len(stack)}
      /\ \A i \in DOMAIN stack' : /\ stack'[i].file = stack[i].file
                                  /\ stack'[i].position = stack[i].position
  BY DEF FileLeft, OnALine
<1>3. WrittenInv' /\ PlaceInv'
  BY <1>1 DEF OnceInv, WrittenInv, PlaceInv, OnALine
<1>5. FreshInv'
  BY <1>1 DEF OnceInv, FreshInv
<1>6. ASSUME NEW file \in Files, OnceFile(file)'
      PROVE  (file \in pragmaOnce' \/ NotYet(file)') /\ InOrder(file)'
  <2>1. (file \in pragmaOnce \/ NotYet(file)) /\ InOrder(file)
    BY <1>6, OnceFileBefore DEF OnceInv
  <2>2. InOrder(file)'
    BY <1>1, <2>1 DEF InOrder
  <2>3. NotYet(file) => NotYet(file)'
    BY <1>1 DEF NotYet
  <2>. QED  BY <1>1, <2>1, <2>2, <2>3
<1>. QED  BY <1>3, <1>5, <1>6 DEF OnceInv

-----------------------------------------------------------------------------
(* Which step is which.                                                    *)

LEMMA ReadingBegins ==
  ASSUME StackInv, LinesInv, ReadLine
  PROVE  \E frame : LineBegun(frame)
<1>1. stack # <<>> /\ FrameInv(Top)
  BY TopFrame DEF ReadLine, StackInv
<1>2. PICK line \in NextLines :
        /\ Decide(line)
        /\ logical' = Logical(line.dir, line.text, Top.position + 1)
        /\ phase' = IF line.continues THEN "splice" ELSE "interpret"
  BY DEF ReadLine
<1>. DEFINE next == Top.position + 1
            frame == [Top EXCEPT !.position = next, !.sourceLine = next, !.logicalLine = next]
<1>3. SetTop(frame)
  <2>1. Top.sourceLine + 1 = next
    BY <1>1 DEF FrameInv
  <2>2. SetTop([Top EXCEPT !.position = @ + 1, !.sourceLine = @ + 1, !.logicalLine = Top.sourceLine + 1])
    BY DEF ReadLine
  <2>3. [Top EXCEPT !.position = @ + 1, !.sourceLine = @ + 1, !.logicalLine = Top.sourceLine + 1] = frame
    BY <1>1, <2>1 DEF FrameInv, FrameFields
  <2>. QED  BY <2>2, <2>3
<1>4. /\ frame.file = Top.file /\ frame.position = next /\ frame.logicalLine = next
      /\ frame.conditionals = Top.conditionals /\ frame.inBlockComment = Top.inBlockComment
  <2>. HIDE DEF next
  <2>. QED  BY <1>1 DEF FrameInv, FrameFields
<1>. HIDE DEF frame
<1>5. Above(frame) /\ Top' = frame
  BY <1>1, <1>3, TopAbove
<1>6. logical'.taken = 0 /\ logical'.dir = line.dir
  BY <1>2 DEF Logical
<1>7. phase = "read" /\ phase' \in {"splice", "interpret"} /\ UNCHANGED <<out, pragmaOnce>>
  BY DEF ReadLine, pragmas
<1>8. ASSUME NEW file, file = Top.file, Top.position = 0, OnceFile(file)'
      PROVE  phase' = "interpret" /\ logical'.dir = OnceLine
  <2>1. content'[file] # <<>> /\ content'[file][1] = line
    BY <1>1, <1>2, <1>8, LineIsRead
  <2>2. line.dir = OnceLine /\ ~line.continues
    BY <1>8, <2>1 DEF OnceFile, OnceLine
  <2>. QED  BY <1>2, <1>6, <2>2
<1>9. LineBegun(frame)
  BY <1>1, <1>4, <1>5, <1>6, <1>7, <1>8 DEF LineBegun
<1>. QED  BY <1>9

(* A line that is spliced, joined, or whose warning numbers are taken.     *)
LEMMA HoldingSteps ==
  ASSUME StackInv, SettingsInv, PlaceInv,
         SpliceLine \/ SpliceAtEnd \/ StartJoin \/ JoinLine \/ PragmaSet \/ PragmaNumber \/ PragmaBadNumber
  PROVE  \E frame : LineHeld(frame)
<1>0. /\ phase \in OnALine /\ phase' \in OnALine
      /\ UNCHANGED <<out, pragmaOnce>> /\ ~AboutToObey
      /\ phase' \in {"splice", "interpret"} => phase = "splice" /\ logical'.taken = logical.taken
  <2>1. CASE SpliceLine
    <3>1. phase = "splice" /\ phase' \in {"splice", "interpret"} /\ UNCHANGED <<out, pragmaOnce>>
          /\ \E text : logical' = [logical EXCEPT !.text = text]
      BY <2>1 DEF SpliceLine, pragmas
    <3>2. logical'.taken = logical.taken
      BY <3>1 DEF StackInv, LogicalFields
    <3>. QED  BY <3>1, <3>2 DEF OnALine, AboutToObey
  <2>2. CASE SpliceAtEnd
    BY <2>2 DEF SpliceAtEnd, pragmas, OnALine, AboutToObey
  <2>3. CASE StartJoin
    <3>1. logical.dir = OnceLine => logical.dir # NoDirective
      BY DEF OnceLine, NoDirective
    <3>. QED  BY <2>3, <3>1 DEF StartJoin, pragmas, OnALine, AboutToObey, Fresh, IsDirective
  <2>4. CASE JoinLine
    BY <2>4 DEF JoinLine, pragmas, OnALine, AboutToObey
  <2>5. CASE PragmaSet
    <3>1. OnceLine.what = "once"
      BY DEF OnceLine
    <3>. QED  BY <2>5, <3>1 DEF PragmaSet, Pragma, ActiveDirective, Directive, pragmas, OnALine, AboutToObey
  <2>6. CASE PragmaNumber \/ PragmaBadNumber
    BY <2>6 DEF PragmaNumber, PragmaBadNumber, NextNumber, OnALine, AboutToObey
  <2>. QED  BY <2>1, <2>2, <2>3, <2>4, <2>5, <2>6
<1>1. stack # <<>> /\ FrameInv(Top) /\ Top.position \in Nat /\ Top.logicalLine \in Nat /\ logical.taken \in Nat
      /\ Top.logicalLine <= Top.position
  BY <1>0, TopFrame DEF StackInv, OnALine, FrameInv, PlaceInv
<1>2. CASE SpliceAtEnd \/ PragmaSet \/ PragmaNumber \/ PragmaBadNumber
  <2>1. UNCHANGED stack /\ phase' # "join"
    BY <1>2 DEF SpliceAtEnd, PragmaSet, PragmaNumber, PragmaBadNumber, NextNumber
  <2>2. Above(Top) /\ Top' = Top
    BY <1>1, <2>1, TopAbove
  <2>3. PlaceInv'
    BY <1>0, <1>1, <2>1, <2>2 DEF PlaceInv
  <2>. QED  BY <1>0, <2>2, <2>3 DEF LineHeld
<1>3. CASE StartJoin
  <2>1. PICK frame : SetTop(frame) /\ SameFile(frame) /\ frame.position = Top.position
    BY <1>1, <1>3, FollowedFrame DEF StartJoin
  <2>2. Above(frame) /\ Top' = frame
    BY <1>1, <2>1, TopAbove
  <2>3. phase' = "join" /\ phase = "interpret"
        /\ \E dir, text, open : logical' = [logical EXCEPT !.dir = dir, !.text = text, !.commentOpen = open]
    <3>. DEFINE open == EndsInComment(Text, Top.inBlockComment)
    <3>1. phase' = "join" /\ phase = "interpret"
          /\ \E dir, text : logical' = [logical EXCEPT !.dir = dir, !.text = text, !.commentOpen = open]
      BY <1>3 DEF StartJoin
    <3>. HIDE DEF open
    <3>. QED  BY <3>1
  <2>4. logical'.taken = 0
    BY <2>3 DEF StackInv, LogicalFields, PlaceInv
  <2>5. PlaceInv'
    BY <1>1, <2>1, <2>2, <2>3, <2>4 DEF PlaceInv, SameFile
  <2>. QED  BY <1>0, <2>1, <2>2, <2>5 DEF LineHeld, SameFile
<1>4. CASE SpliceLine
  <2>. DEFINE frame == [Top EXCEPT !.position = @ + 1, !.sourceLine = @ + 1]
  <2>1. SetTop(frame) /\ phase' # "join"
    BY <1>4 DEF SpliceLine
  <2>2. frame.file = Top.file /\ frame.position = Top.position + 1 /\ frame.logicalLine = Top.logicalLine
    BY <1>1, FrameAdvanced
  <2>. HIDE DEF frame
  <2>3. Above(frame) /\ Top' = frame
    BY <1>1, <2>1, TopAbove
  <2>4. PlaceInv'
    BY <1>0, <1>1, <2>1, <2>2, <2>3 DEF PlaceInv
  <2>. QED  BY <1>0, <2>2, <2>3, <2>4 DEF LineHeld
<1>5. CASE JoinLine
  <2>1. PICK line : SetTop([Top EXCEPT !.position = @ + 1, !.sourceLine = @ + 1,
                                       !.cComment = EndsInComment(JoinedTokens(line), @)])
    BY <1>5 DEF JoinLine
  <2>. DEFINE comment == EndsInComment(JoinedTokens(line), Top.cComment)
              frame == [Top EXCEPT !.position = @ + 1, !.sourceLine = @ + 1, !.cComment = comment]
  <2>2. SetTop(frame)
    BY <2>1
  <2>3. frame.file = Top.file /\ frame.position = Top.position + 1 /\ frame.logicalLine = Top.logicalLine
    <3>. HIDE DEF comment
    <3>. QED  BY <1>1 DEF FrameInv, FrameFields
  <2>. HIDE DEF frame
  <2>4. Above(frame) /\ Top' = frame
    BY <1>1, <2>2, TopAbove
  <2>5. phase = "join" /\ phase' = "join" /\ logical'.taken = logical.taken + 1
    <3>1. phase = "join" /\ phase' = "join"
          /\ \E text, open : logical' = [logical EXCEPT !.text = text, !.taken = @ + 1, !.commentOpen = open]
      <4>1. PICK other : logical' = [logical EXCEPT
              !.text = @ \o SubSeq(JoinedTokens(other), 1, LineCommentAt(JoinedTokens(other), logical.commentOpen) - 1),
              !.taken = @ + 1,
              !.commentOpen = EndsInComment(JoinedTokens(other), @)]
        BY <1>5 DEF JoinLine
      <4>. DEFINE open == EndsInComment(JoinedTokens(other), logical.commentOpen)
                  text == logical.text \o SubSeq(JoinedTokens(other), 1,
                            LineCommentAt(JoinedTokens(other), logical.commentOpen) - 1)
      <4>2. logical' = [logical EXCEPT !.text = text, !.taken = @ + 1, !.commentOpen = open]
        BY <4>1
      <4>. HIDE DEF open, text
      <4>. QED  BY <1>5, <4>2 DEF JoinLine
    <3>. QED  BY <3>1 DEF StackInv, LogicalFields
  <2>6. PlaceInv'
    BY <1>1, <2>3, <2>4, <2>5 DEF PlaceInv, OnALine
  <2>. QED  BY <1>0, <2>3, <2>4, <2>6 DEF LineHeld
<1>. QED  BY <1>2, <1>3, <1>4, <1>5

LEMMA BlankWrites ==
  ASSUME StackInv, MapInv, PlaceInv, phase \in OnALine, NEW frame, LeavesABlank(frame),
         AboutToObey => Top.file \in pragmaOnce', pragmaOnce \subseteq pragmaOnce'
  PROVE  LineWritten(frame)
<1>1. stack # <<>> /\ IsSequence(out)
  BY DEF StackInv, OnALine, MapInv
<1>2. Top.logicalLine \in Nat /\ Top.position \in Nat /\ Top.logicalLine <= Top.position /\ logical.taken \in Nat
  BY <1>1, TopFrame DEF PlaceInv, StackInv, FrameInv
<1>3. SetTop(frame) /\ frame.file = Top.file /\ frame.position = Top.position /\ phase' = "read"
  BY DEF LeavesABlank, Blank, SameFile
<1>4. Above(frame) /\ Top' = frame
  BY <1>1, <1>3, TopAbove
<1>5. PICK entry : out' = Append(out, entry) /\ entry.file = Top.file /\ entry.line = Top.logicalLine
  BY DEF LeavesABlank, Blank, SameFile, Written
<1>6. /\ IsSequence(out') /\ Len(out') = Len(out) + 1
      /\ \A i \in 1..Len(out') : out'[i] = IF i = Len(out') THEN entry ELSE out[i]
  BY <1>1, <1>5, Appended
<1>7. DOMAIN out = 1..Len(out) /\ DOMAIN out' = 1..Len(out') /\ Len(out) \in Nat
  BY <1>1, <1>6, SequenceFacts
<1>8. LinesAdded
  <2>1. \A j \in DOMAIN out' \ DOMAIN out : j = Len(out')
    BY <1>6, <1>7
  <2>. QED  BY <1>2, <1>5, <1>6, <1>7, <2>1 DEF LinesAdded
<1>. QED  BY <1>3, <1>4, <1>8 DEF LineWritten

LEMMA EmitWrites ==
  ASSUME StackInv, MapInv, phase \in OnALine, ~AboutToObey, UNCHANGED pragmaOnce,
         NEW text, NEW frame, SameFile(frame), frame.position = Top.position, NEW taken \in Nat,
         Top.logicalLine \in Nat, Top.logicalLine + taken <= Top.position, Emit(text, frame, taken)
  PROVE  \E after : LineWritten(after)
<1>1. stack # <<>> /\ IsSequence(out)
  BY DEF StackInv, OnALine, MapInv
<1>2. Top.position \in Nat
  BY <1>1, TopFrame DEF FrameInv
<1>3. PICK after : SetTop(after) /\ after.file = Top.file /\ after.position = Top.position
  BY <1>1, EmittedTop DEF SameFile
<1>4. Above(after) /\ Top' = after
  BY <1>1, <1>3, TopAbove
<1>5. phase' = "read"
  BY DEF Emit
<1>6. /\ IsSequence(out') /\ Len(out') = Len(out) + 1 + taken
      /\ \A i \in 1..Len(out) : out'[i] = out[i]
      /\ out'[Len(out) + 1] = Written(frame.logicalLine, Expanded(text, frame).text, logical.from)
      /\ \A k \in 1..taken :
           out'[Len(out) + 1 + k] = Written(frame.logicalLine + k, <<>>, frame.position - taken + k)
  BY <1>1, EmittedLines
<1>7. DOMAIN out = 1..Len(out) /\ DOMAIN out' = 1..(Len(out) + 1 + taken) /\ Len(out) \in Nat
  BY <1>1, <1>6, SequenceFacts
<1>8. ASSUME NEW k \in 0..taken
      PROVE  /\ out'[Len(out) + 1 + k].file = Top.file
             /\ out'[Len(out) + 1 + k].line = Top.logicalLine + k
  <2>1. frame.logicalLine = Top.logicalLine
    BY DEF SameFile
  <2>2. CASE k = 0
    <3>1. out'[Len(out) + 1].file = Top.file /\ out'[Len(out) + 1].line = Top.logicalLine
      BY <1>6, <2>1 DEF Written
    <3>. QED  BY <1>7, <2>2, <3>1
  <2>3. CASE k # 0
    <3>1. k \in 1..taken
      BY <2>3
    <3>2. out'[Len(out) + 1 + k] = Written(frame.logicalLine + k, <<>>, frame.position - taken + k)
      BY <1>6, <3>1
    <3>. QED  BY <2>1, <3>2 DEF Written
  <2>. QED  BY <2>2, <2>3
<1>9. ASSUME NEW j \in DOMAIN out' \ DOMAIN out
      PROVE  /\ out'[j].file = Top.file
             /\ out'[j].line = Top.logicalLine + (j - Len(out) - 1)
             /\ j - Len(out) - 1 \in 0..taken
  <2>. DEFINE k == j - Len(out) - 1
  <2>1. k \in 0..taken /\ Len(out) + 1 + k = j
    BY <1>7, SMTT(30)
  <2>. HIDE DEF k
  <2>2. out'[j].file = Top.file /\ out'[j].line = Top.logicalLine + k
    BY <1>8, <2>1
  <2>. QED  BY <2>1, <2>2 DEF k
<1>10. LinesAdded
  <2>1. DOMAIN out \subseteq DOMAIN out' /\ DOMAIN out' \subseteq Nat
        /\ \A i \in DOMAIN out : out'[i] = out[i]
    BY <1>6, <1>7
  <2>2. ASSUME NEW j \in DOMAIN out' \ DOMAIN out
        PROVE  /\ out'[j].file = Top.file /\ out'[j].line \in Top.logicalLine..Top.position
               /\ \A i \in DOMAIN out : i < j
               /\ \A i \in DOMAIN out' \ DOMAIN out : i < j => out'[i].line < out'[j].line
    <3>1. out'[j].line \in Top.logicalLine..Top.position
      BY <1>2, <1>9
    <3>2. \A i \in DOMAIN out : i < j
      BY <1>7
    <3>3. ASSUME NEW i \in DOMAIN out' \ DOMAIN out, i < j
          PROVE  out'[i].line < out'[j].line
      <4>1. i \in Nat /\ j \in Nat
        BY <1>7
      <4>2. out'[i].line = Top.logicalLine + (i - Len(out) - 1) /\ out'[j].line = Top.logicalLine + (j - Len(out) - 1)
        BY <1>9
      <4>. QED  BY <1>7, <3>3, <4>1, <4>2
    <3>. QED  BY <1>9, <3>1, <3>2, <3>3
  <2>. QED  BY <2>1, <2>2 DEF LinesAdded
<1>11. LineWritten(after)
  BY <1>3, <1>4, <1>5, <1>10 DEF LineWritten
<1>. QED  BY <1>11

LEMMA WritingSteps ==
  ASSUME StackInv, MapInv, PlaceInv, ConditionalStep \/ PlainDirective \/ EmitLine \/ EmitJoined
  PROVE  \E frame : LineWritten(frame)
<1>1. CASE ConditionalStep
  <2>1. phase \in OnALine /\ \E frame : LeavesABlank(frame)
    BY <1>1, ConditionalsBlank DEF OnALine
  <2>2. UNCHANGED pragmaOnce
    BY <1>1 DEF ConditionalStep, If, IfDefined, Elif, Else, Endif, SkipInactive, pragmas
  <2>3. ~AboutToObey
    <3>1. OnceLine.op = "pragma"
      BY DEF OnceLine
    <3>2. AboutToObey => Active(Top)
      BY DEF AboutToObey, Fresh, Active
    <3>. QED  BY <1>1, <3>1, <3>2
              DEF ConditionalStep, If, IfDefined, Elif, Else, Endif, SkipInactive, Directive, AboutToObey
  <2>. QED  BY <2>1, <2>2, <2>3, BlankWrites
<1>2. CASE PlainDirective
  <2>1. phase \in OnALine
    BY <1>2 DEF PlainDirective, IncludeNothing, Define, Undef, UserMessage, UnsupportedDirective, PragmaOnce,
       PragmaIgnored, PragmaPush, PragmaPop, PragmaListEnds, Pragma, ActiveDirective, Directive, OnALine
  <2>2. \E frame : LeavesABlank(frame)
    BY <1>2, PlainDirectivesBlank, ObeyingFrame DEF LeavesABlank
  <2>3. pragmaOnce \subseteq pragmaOnce'
    BY <1>2 DEF PlainDirective, IncludeNothing, Define, Undef, UserMessage, UnsupportedDirective, PragmaOnce,
       PragmaIgnored, PragmaPush, PragmaPop, PragmaListEnds, pragmas
  <2>4. AboutToObey => Top.file \in pragmaOnce'
    <3>1. OnceLine.op = "pragma" /\ OnceLine.what = "once"
      BY DEF OnceLine
    <3>2. PragmaOnce => Top.file \in pragmaOnce'
      BY DEF PragmaOnce
    <3>3. PlainDirective /\ ~PragmaOnce => ~AboutToObey
      BY <3>1 DEF PlainDirective, IncludeNothing, Define, Undef, UserMessage, UnsupportedDirective,
         PragmaIgnored, PragmaPush, PragmaPop, PragmaListEnds, Pragma, ActiveDirective, Directive, AboutToObey
    <3>. QED  BY <1>2, <3>2, <3>3
  <2>. QED  BY <2>1, <2>2, <2>3, <2>4, BlankWrites
<1>3. CASE EmitLine
  <2>1. phase = "interpret" /\ phase \in OnALine /\ stack # <<>> /\ UNCHANGED pragmaOnce
    BY <1>3 DEF EmitLine, OnALine, StackInv, pragmas
  <2>2. ~AboutToObey
    <3>1. OnceLine # NoDirective
      BY DEF OnceLine, NoDirective
    <3>. QED  BY <1>3, <3>1 DEF EmitLine, IsDirective, AboutToObey, Fresh
  <2>3. Top.logicalLine \in Nat /\ Top.logicalLine + 0 <= Top.position
    BY <2>1 DEF PlaceInv
  <2>4. Emit(Text, Follow(Top, MisreadStart(Text)), 0)
    BY <1>3 DEF EmitLine
  <2>5. SameFile(Follow(Top, MisreadStart(Text))) /\ Follow(Top, MisreadStart(Text)).position = Top.position
    BY <2>1, FollowedFrame
  <2>. QED  BY <2>1, <2>2, <2>3, <2>4, <2>5, EmitWrites
<1>4. CASE EmitJoined
  <2>1. phase = "join" /\ phase \in OnALine /\ stack # <<>> /\ UNCHANGED pragmaOnce /\ ~AboutToObey
        /\ logical.taken \in Nat
    BY <1>4 DEF EmitJoined, OnALine, StackInv, pragmas, AboutToObey
  <2>2. Top.logicalLine \in Nat /\ Top.logicalLine + logical.taken <= Top.position
    BY <2>1 DEF PlaceInv
  <2>. DEFINE misread == Top.misread \/ logical.commentOpen
              frame == [Top EXCEPT !.misread = misread]
  <2>3. Emit(logical.text, frame, logical.taken)
    BY <1>4 DEF EmitJoined
  <2>4. SameFile(frame) /\ frame.position = Top.position
    <3>. HIDE DEF misread
    <3>. QED  BY <2>1, MisreadFrame
  <2>. HIDE DEF frame
  <2>. QED  BY <2>1, <2>2, <2>3, <2>4, EmitWrites
<1>. QED  BY <1>1, <1>2, <1>3, <1>4

(* An #include reads the file, or leaves no line behind.                   *)
LEMMA IncludingSteps ==
  ASSUME StackInv, MapInv, PlaceInv, Include
  PROVE  (\E frame : LineWritten(frame)) \/ \E file : FileEntered(file)
<1>1. PICK file \in Files : Enter(file)
  BY DEF Include
<1>2. /\ stack # <<>> /\ phase = "interpret" /\ phase \in OnALine /\ phase' = "read"
      /\ UNCHANGED <<out, pragmaOnce>>
  BY <1>1 DEF StackInv, Include, Enter, ActiveDirective, Directive, OnALine, pragmas
<1>3. ~AboutToObey
  <2>1. OnceLine.op = "pragma"
    BY DEF OnceLine
  <2>. QED  BY <2>1 DEF Include, ActiveDirective, Directive, AboutToObey
<1>4. CASE SetTop(Obeying) \/ SetTop(Failed(Obeying))
  <2>1. PICK frame : SetTop(frame) /\ SameFile(frame) /\ frame.position = Top.position
    BY <1>2, <1>4, ObeyingFrame
  <2>2. Above(frame) /\ Top' = frame
    BY <1>2, <2>1, TopAbove
  <2>3. LinesAdded
    <3>1. DOMAIN out \subseteq Nat
      BY SequenceFacts DEF MapInv
    <3>. QED  BY <1>2, <3>1 DEF LinesAdded
  <2>4. LineWritten(frame)
    BY <1>2, <1>3, <2>1, <2>2, <2>3 DEF LineWritten, SameFile
  <2>. QED  BY <2>4
<1>5. CASE /\ file \notin pragmaOnce \cup Unreadable
           /\ ~BeingExpanded(file)
           /\ stack' = Append(ReplaceAt(stack, Len(stack), Obeying), Frame(file))
  <2>. DEFINE below == ReplaceAt(stack, Len(stack), Obeying)
  <2>1. IsSequence(stack) /\ Obeying.file = Top.file /\ Obeying.position = Top.position
    BY <1>2, ObeyingFrame DEF StackInv, Chain, SameFile
  <2>2. /\ IsSequence(below) /\ Len(below) = Len(stack)
        /\ \A i \in 1..Len(stack) : below[i] = IF i = Len(stack) THEN Obeying ELSE stack[i]
    BY <1>2, <2>1, LastReplaced
  <2>3. DOMAIN stack = 1..Len(stack) /\ Len(stack) \in Nat
    BY <2>1, SequenceFacts
  <2>4. \A i \in DOMAIN stack : below[i].file = stack[i].file /\ below[i].position = stack[i].position
    BY <2>1, <2>2, <2>3 DEF Top, Last
  <2>. HIDE DEF below
  <2>5. /\ IsSequence(stack') /\ Len(stack') = Len(stack) + 1
        /\ \A i \in 1..Len(stack') : stack'[i] = IF i = Len(stack') THEN Frame(file) ELSE below[i]
    BY <1>5, <2>2, Appended DEF below
  <2>6. DOMAIN stack' = 1..(Len(stack) + 1)
    BY <2>5, SequenceFacts
  <2>7. DOMAIN stack' = DOMAIN stack \cup {Len(stack) + 1}
    BY <2>3, <2>6
  <2>8. stack'[Len(stack) + 1] = Frame(file)
    BY <2>3, <2>5
  <2>9. \A i \in DOMAIN stack : stack'[i].file = stack[i].file /\ stack'[i].position = stack[i].position
    BY <2>3, <2>4, <2>5
  <2>10. FileEntered(file)
    BY <1>1, <1>2, <1>3, <1>5, <2>5, <2>7, <2>8, <2>9 DEF FileEntered, BeingExpanded
  <2>. QED  BY <2>10
<1>. QED  BY <1>1, <1>4, <1>5 DEF Enter

LEMMA EndingLeaves ==
  ASSUME StackInv, EndOfFile
  PROVE  FileLeft
<1>. DEFINE below == Front(stack)
            fine == Top.ok /\ ~(Top.conditionals # <<>>)
<1>1. stack # <<>> /\ IsSequence(stack) /\ phase = "read" /\ phase' \in {"read", "done"}
      /\ UNCHANGED <<out, pragmaOnce>>
  BY DEF StackInv, Chain, EndOfFile, pragmas
<1>2. /\ IsSequence(below) /\ Len(below) = Len(stack) - 1
      /\ \A i \in 1..Len(below) : below[i] = stack[i]
  BY <1>1, Shortened
<1>3. /\ DOMAIN stack = 1..Len(stack) /\ DOMAIN below = 1..(Len(stack) - 1) /\ Len(stack) \in Nat
      /\ below # <<>> => Len(below) \in DOMAIN below
  BY <1>1, <1>2, SequenceFacts
<1>4. DOMAIN below = DOMAIN stack \ {Len(stack)}
  BY <1>3
<1>5. \A i \in DOMAIN below : below[i] = stack[i] /\ FrameInv(below[i])
  BY <1>2, <1>3 DEF StackInv, Chain
<1>. HIDE DEF below
<1>6. stack' = below \/ \E result : stack' = [below EXCEPT ![Len(below)].ok = result]
  <2>. DEFINE result == below[Len(below)].ok /\ fine
  <2>1. \/ stack' = below
        \/ below # <<>> /\ stack' = [below EXCEPT ![Len(below)].ok = @ /\ fine]
    BY DEF EndOfFile, below
  <2>2. below # <<>> /\ stack' = [below EXCEPT ![Len(below)].ok = @ /\ fine] =>
          stack' = [below EXCEPT ![Len(below)].ok = result]
    BY <1>3
  <2>. QED  BY <2>1, <2>2
<1>7. DOMAIN stack' = DOMAIN below
      /\ \A i \in DOMAIN below : stack'[i].position = below[i].position /\ stack'[i].file = below[i].file
  BY <1>5, <1>6 DEF FrameInv, FrameFields
<1>. QED  BY <1>1, <1>4, <1>5, <1>7 DEF FileLeft

LEMMA RunKeepsOnce ==
  ASSUME StackInv, LinesInv, OnceInv, [Next]_vars, Run
  PROVE  OnceInv'
<1>1. /\ phase = "start" /\ phase' = "read" /\ stack = <<>> /\ stack' = <<Frame(Main)>>
      /\ UNCHANGED <<out, pragmaOnce>>
  BY DEF Run, pragmas, StackInv
<1>2. DOMAIN stack = {} /\ DOMAIN stack' = {1} /\ Len(stack') = 1 /\ stack'[1] = Frame(Main)
  BY <1>1
<1>3. Frame(Main).file = Main /\ Frame(Main).position = 0 /\ Fresh(Frame(Main)) /\ Main \in Files
  BY FilesAssumption DEF Frame, Fresh
<1>4. pragmaOnce = {}
  BY <1>1 DEF OnceInv, FreshInv
<1>5. WrittenInv' /\ PlaceInv' /\ FreshInv'
  BY <1>1, <1>2, <1>3, <1>4 DEF OnceInv, WrittenInv, PlaceInv, FreshInv, OnALine
<1>6. ASSUME NEW file \in Files, OnceFile(file)'
      PROVE  NotYet(file)' /\ InOrder(file)'
  <2>1. NotYet(file)
    BY <1>4, <1>6, OnceFileBefore DEF OnceInv
  <2>2. \A i \in DOMAIN out' : out'[i].file # file
    BY <1>1, <2>1 DEF NotYet
  <2>. QED  BY <1>2, <1>3, <2>2 DEF NotYet, InOrder
<1>. QED  BY <1>5, <1>6 DEF OnceInv

(* However many times a header that begins with #pragma once is included,  *)
(* and from wherever, its lines are written once, in order: before it has  *)
(* obeyed the pragma it cannot include anything, and when it has it is     *)
(* never read again.                                                       *)
THEOREM OnceContributesOnceAlways == Spec => []OnceContributesOnce
<1>1. Init => OnceInv
  <2>1. ASSUME Init
        PROVE  OnceInv
    <3>1. DOMAIN out = {} /\ DOMAIN stack = {} /\ phase = "start" /\ pragmaOnce = {}
      BY <2>1 DEF Init
    <3>. QED  BY <3>1 DEF OnceInv, WrittenInv, PlaceInv, FreshInv, NotYet, InOrder, OnALine
  <2>. QED  BY <2>1
<1>2. StackInv /\ LinesInv /\ MapInv /\ SettingsInv /\ OnceInv /\ [Next]_vars => OnceInv'
  <2>. SUFFICES ASSUME StackInv, LinesInv, MapInv, SettingsInv, OnceInv, [Next]_vars
                PROVE  OnceInv'
    OBVIOUS
  <2>0. PlaceInv
    BY DEF OnceInv
  <2>1. CASE UNCHANGED vars \/ Finished
    BY <2>1 DEF Finished, vars, files, pragmas, OnceInv, WrittenInv, PlaceInv, FreshInv, NotYet, InOrder,
       OnceFile, AboutToObey, Top
  <2>2. CASE ReadLine
    BY <2>2, ReadingBegins, BegunKeepsOnce
  <2>3. CASE SpliceLine \/ SpliceAtEnd \/ StartJoin \/ JoinLine \/ PragmaSet \/ PragmaNumber \/ PragmaBadNumber
    BY <2>0, <2>3, HoldingSteps, HeldKeepsOnce
  <2>4. CASE ConditionalStep \/ PlainDirective \/ EmitLine \/ EmitJoined
    BY <2>0, <2>4, WritingSteps, WrittenKeepsOnce
  <2>5. CASE Include
    BY <2>0, <2>5, IncludingSteps, WrittenKeepsOnce, EnteredKeepsOnce
  <2>6. CASE EndOfFile
    BY <2>6, EndingLeaves, LeftKeepsOnce
  <2>. QED  BY <2>1, <2>2, <2>3, <2>4, <2>5, <2>6, RunKeepsOnce DEF Next, ConditionalStep, PlainDirective
<1>3. OnceInv => OnceContributesOnce
  <2>1. ASSUME OnceInv, NEW i \in DOMAIN out, NEW j \in DOMAIN out,
               i < j, out[i].file = out[j].file,
               content[out[i].file][1].dir = [op |-> "pragma", what |-> "once"],
               ~content[out[i].file][1].continues
        PROVE  out[i].line < out[j].line
    <3>1. out[i].file \in Files /\ OnceFile(out[i].file)
      BY <2>1 DEF OnceInv, WrittenInv, OnceFile, OnceLine
    <3>2. InOrder(out[i].file)
      BY <2>1, <3>1 DEF OnceInv
    <3>. QED  BY <2>1, <3>2 DEF InOrder
  <2>. QED  BY <2>1 DEF OnceContributesOnce
<1>. QED  BY <1>1, <1>2, <1>3, StackInvHolds, LinesInvHolds, MapInvHolds, SettingsInvHolds, PTL DEF Spec
================================================================================
