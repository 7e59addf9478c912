SPECIFICATION FairSpec
CONSTANTS
  Linux = TRUE
  LTO = TRUE
  Scripts <- BuildScripts
  Artifact <- BuildArtifacts
  Invocations <- Calls
  MaxRun = 3
  MaxFault = 2
  MaxLost = 1
INVARIANTS TypeOK InOrderGood
PROPERTY RunsEnd
CHECK_DEADLOCK FALSE
