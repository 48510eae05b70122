SPECIFICATION Spec
CONSTANTS
  LocalSlotReuse = TRUE
  JumpTables = TRUE
  SwitchTableMinCases = 2
  SwitchTableMaxEntries = 4
  SwitchTreeMinCases = 3
  Families = {"arithmetic", "pointers", "units", "loops", "switches", "gotos", "conditions", "scopes", "counting", "known"}
  Compile <- LowerUnit
  Programs <- MCPrograms
  Inputs <- MCInputs
  PointerInputs <- MCPointers
  Buffers <- MCBuffers
  Oracles <- MCOracles
INVARIANTS ReturnsItsMeaning CallsInOrder NothingReadUndefined ParamsMeetTheirCall
PROPERTY Returns
CHECK_DEADLOCK FALSE
