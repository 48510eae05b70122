SPECIFICATION Spec
CONSTANTS
  SharedNames = TRUE
  CommandLines <- MCCommandLines
  Environments <- MCEnvironments
  Present <- MCPresent
  Leftovers <- MCLeftovers
  ExportsOf <- MCExportsOf
  DeclaredBy <- MCDeclaredBy
INVARIANTS GivenFilesKept
