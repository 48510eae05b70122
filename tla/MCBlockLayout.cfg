SPECIFICATION Spec
CONSTANTS
  N = 3
  Tests = {"int", "float", "fused"}
  Terminators <- MCTerminators
INVARIANT PlacedOnce
PROPERTIES SuccessorsKept NeverTradesFallThrough SecondRoundIdle
CHECK_DEADLOCK FALSE
