SPECIFICATION Spec
CONSTANTS
  Pairs = {"linux-amd64"}
  Dsts = {"bin/app"}
  MaxPlatforms = 2
  MaxFiles = 2
CHECK_DEADLOCK FALSE
INVARIANTS
  RowsInStep
  RedrawnFilesAreJudged
  LabelsLagOneEdit
