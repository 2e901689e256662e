SPECIFICATION Spec
CONSTANTS
  Channels = {"stable", "beta"}
  Paths = {"pack.yaml"}
  Repos = {"main"}
  Breakable = {}
  HasRunner = TRUE
  MaxTargets = 1
  MaxJobs = 2
CHECK_DEADLOCK FALSE
INVARIANTS
  VerifySurvives
