SPECIFICATION Spec
CONSTANTS
  ArgRegisterCount = 4
  CallerSavedPool <- MCCallerSavedPool
  CalleeSavedPool <- MCCalleeSavedPool
  RegisterAllocation = TRUE
  ImmediateOperands = TRUE
  CmpBranchFusion = TRUE
  TailCalls = TRUE
  MaxImmediate = 32767
  LocalSlotReuse = TRUE
  JumpTables = TRUE
  SwitchTableMinCases = 2
  SwitchTableMaxEntries = 4
  SwitchTreeMinCases = 3
  Shapes = {}
  Outside = {"across"}
  Compile <- Lower
  Programs <- MCPrograms
INVARIANTS CallerSavedEndAtCalls
CHECK_DEADLOCK FALSE
