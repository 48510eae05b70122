SPECIFICATION SpecCompile
CONSTANTS
  LocalSlotReuse = TRUE
  JumpTables = TRUE
  SwitchTableMinCases = 2
  SwitchTableMaxEntries = 4
  SwitchTreeMinCases = 3
  MaxInlineInstrs = 32
  Families = {"miscompiled"}
  Compile <- LowerUnit
  Programs <- MCPrograms
  Inputs <- MCInputs
  PointerInputs <- MCPointers
  Buffers <- MCBuffers
  Oracles <- MCOracles
  OptionSets <- MCOptionSets
  RoundLimit <- MaxRounds
  PassOn <- OptimizerPass
  Inlined <- InlineCalls
  Pruned <- RemoveUnusedFunctions
INVARIANT ReturnsItsMeaning
CHECK_DEADLOCK FALSE
