SPECIFICATION ModalSpec
CONSTANTS
  Threads = {t1, t2}
  Driver = t1
  Methods = {"reset"}
  Events <- MCEvents
  LogSize = 1
  MaxVersion = 3
  MaxQueue = 2
CHECK_DEADLOCK FALSE
INVARIANTS
  ResetTakesAway
