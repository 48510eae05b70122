SPECIFICATION Spec
CONSTANTS
  Files = {"main.c", "a.h", "b.h", "locked.h"}
  Main = "main.c"
  Unreadable = {"locked.h"}
  Vocabularies <- MCVocabularies
  WarningIds = {"UserWarning", "UnknownPragma", "InvalidWarningPragma", "UncontrollableDiagnostic", "MacroExpansionByteLimit", "MacroExpansionPassLimit"}
  MaxLines = 4
  MaxIncludeDepth = 3
  MaxMacroPasses = 3
  MaxExpandedLine = 7
INVARIANTS
  PragmaInForce
  MapNamesTheLine
  FailsWithAReason
  FirstTrueBranch
  CommentsFollowC
  OnceContributesOnce
PROPERTIES
  PragmasNeverReachBack
