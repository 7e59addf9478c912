SPECIFICATION DistSpec
CONSTANTS
  DirOf <- SubDir
  Layouts <- MacSome
  MaxFail = 0
  DistTargets <- Dist
  LibTargets <- Libs
INVARIANT NoVersionLeak
CHECK_DEADLOCK FALSE
