SPECIFICATION FairSpec
CONSTANTS
  Calls = {c1, c2, c3}
  OnUI = {c2}
  NoWin = {c3}
CHECK_DEADLOCK FALSE
INVARIANTS
  TypeOK
  AnsweredLeavesNoDialog
PROPERTIES
  ImplementsConsent
  UIGetsFree
  CallUnwinds
  WithdrawnReturns
