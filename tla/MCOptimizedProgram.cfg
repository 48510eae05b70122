SPECIFICATION SpecCompile
CONSTANTS
  LocalSlotReuse = TRUE
  JumpTables = TRUE
  SwitchTableMinCases = 2
  SwitchTableMaxEntries = 4
  SwitchTreeMinCases = 3
  MaxInlineInstrs = 32
  Families = {"units", "pointers", "gotos", "known", "turns", "volatile", "restricted"}
  Compile <- LowerUnit
  Programs <- MCPrograms
  Inputs <- MCInputs
  PointerInputs <- MCPointers
  Buffers <- MCBuffers
  Oracles <- MCOracles
  OptionSets <- MCOptionSets
  RoundLimit <- MaxRounds
  PassOn <- OptimizerPass
  Inlined <- InlineCalls
  Pruned <- RemoveUnusedFunctions
INVARIANTS ReturnsItsMeaning NothingReadUndefined StaysWellFormed RoundsSettle
CHECK_DEADLOCK FALSE
