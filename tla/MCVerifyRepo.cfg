SPECIFICATION FairSpec
CONSTANTS
  MaxRoot = 10
  Roots = {1, 9, 10}
  MaxFiles = 2
CHECK_DEADLOCK FALSE
INVARIANTS
  NothingLeftBehind
  SuccessIsComplete
PROPERTIES
  VerifyReturns
