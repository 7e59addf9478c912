SPECIFICATION DistSpec
CONSTANTS
  DirOf <- SubDir
  Layouts <- Between
  MaxFail = 0
  DistTargets <- Dist
  LibTargets <- Libs
INVARIANT NoOverwrite
CHECK_DEADLOCK FALSE
