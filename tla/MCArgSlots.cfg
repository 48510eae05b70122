CONSTANTS
  ArgRegisterCount = 4
  MaxArgs = 6
  ArgLists <- MCArgLists
SPECIFICATION Spec
INVARIANTS NoOverlap SpentBankStaysSpent StackIsDense
CHECK_DEADLOCK FALSE
