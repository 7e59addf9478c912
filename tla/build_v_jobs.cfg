SPECIFICATION FairSpec
CONSTANTS
  Linux = FALSE
  LTO = FALSE
  Scripts <- BuildScripts
  Artifact <- BuildArtifacts
  Invocations <- WithJobs
  MaxRun = 1
  MaxFault = 1
  MaxLost = 1
PROPERTY RunsEnd
CHECK_DEADLOCK FALSE
