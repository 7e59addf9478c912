SPECIFICATION DistSpec
CONSTANTS
  DirOf <- TwoDirs
  Layouts <- Trees
  MaxFail = 1
  DistTargets <- Dist
  LibTargets <- Libs
INVARIANTS TypeOK ViewKept NoVersionLeak StoredOnce NoOverwrite LeftoverDirs WrappersServe
CHECK_DEADLOCK FALSE
