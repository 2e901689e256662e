SPECIFICATION ModalSpec
CONSTANTS
  Threads = {t1, t2}
  Driver = t1
  Methods = {"show", "hide", "reset", "close"}
  Events <- MCEvents
  LogSize = 1
  MaxVersion = 3
  MaxQueue = 1
CHECK_DEADLOCK FALSE
INVARIANTS
  FlagIsTruth
  RefusalHolds
  NewsIsShown
