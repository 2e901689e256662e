SPECIFICATION TxSpec
CONSTANTS
  Threads = {t1}
  Driver = t1
  Events <- MCEvents
  LogSize = 1
  MaxVersion = 8
  MaxQueue = 1
CHECK_DEADLOCK FALSE
INVARIANTS
  CommittedIsFull
  BarIsEarned
PROPERTIES
  BarAdvances
