SPECIFICATION FairSpec
CONSTANTS
  Threads = {t1, t2}
  Events <- MCFailures
  LogSize = 2
  MaxVersion = 3
CHECK_DEADLOCK FALSE
INVARIANTS
  TypeOK
  SettledIsCurrent
  RingIsTail
  ClosedPumpIsGone
PROPERTIES
  ErrorStaysOnScreen
  ImplementsView
  LatestIsPainted
  OnEventReturns
  CloseReturns
