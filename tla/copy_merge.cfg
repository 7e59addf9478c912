SPECIFICATION FairSpec
CONSTANTS
  Sources <- SrcTrees
  Dests <- DstTrees
  Envs <- Systems
  Arg = "dst"
  Data <- Names
  LinkTo <- Links
  MaxLinks = 3
  MaxRun = 2
  MaxFail = 1
INVARIANTS TypeOK OthersKept NoClobber TornByFailure SuccessExact FailureExplained
PROPERTY Ends
CHECK_DEADLOCK FALSE
