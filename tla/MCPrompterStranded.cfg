SPECIFICATION Spec
CONSTANTS
  Calls = {c1}
  OnUI = {}
  NoWin = {}
CHECK_DEADLOCK FALSE
INVARIANTS
  NoStrandedDialog
