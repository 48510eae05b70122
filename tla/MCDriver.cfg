SPECIFICATION Spec
CONSTANTS
  SharedNames = FALSE
  CommandLines <- MCCommandLines
  Environments <- MCEnvironments
  Present <- MCPresent
  Leftovers <- MCLeftovers
  ExportsOf <- MCExportsOf
  DeclaredBy <- MCDeclaredBy
INVARIANTS TypeOK GivenFilesKept ProgramIsWhatWasCompiled ImportsDeclareOnce DeclaresTheDefinition ZeroMeansDone PrintedByItsOwnMap CleanLeavesNothing
