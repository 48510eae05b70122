CONSTANTS
  ArgRegisterCount = 4
  MaxArgs = 4
  ArgLists <- MCArgLists
  SavedCounts = {0, 2}
  OtherCallWords = {0, 3}
  LocalWords = 2
  Words <- MCWords
SPECIFICATION Spec
INVARIANTS ParametersArrive TailArrives CallerLocalsKept StackRestored
CHECK_DEADLOCK FALSE
