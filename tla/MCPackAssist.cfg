SPECIFICATION FairSpec
CONSTANTS
  Channels = {"stable", "beta"}
  Paths = {"pack.yaml"}
  Repos = {"main"}
  Breakable = {"roles"}
  HasRunner = TRUE
  MaxTargets = 1
  MaxJobs = 2
CHECK_DEADLOCK FALSE
INVARIANTS
  PublishIsVetted
  VerifyNeedsAPublish
PROPERTIES
  JobsStartClean
  RunningEnds
