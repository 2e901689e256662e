SPECIFICATION Spec
CONSTANTS
  Total = 4
  Elapsed <- MCElapsed
  Window = 3
  Scale = 8748
  Nanos = 4
  MaxDuration = 31
  MaxSamples = 6
  Grain <- MCGrain
CHECK_DEADLOCK FALSE
INVARIANTS
  RateIsMeasured
  RateReacts
  RemainingIsHonest
