SPECIFICATION FairSpec
CONSTANTS
  p1 = p1  p2 = p2  p3 = p3  lin = lin  lin2 = lin2  mac = mac
  Proc = {p1, p2, p3}
  Target = {lin, mac}
  LinuxTarget = {lin}
  TargetOf <- Shared
  CxxProc = {p2}
  Buildable = {"libc", "librt"}
  Complete = {mac}
  MaxLive = 3
  MaxInt = 1
  MaxKill = 1
  MaxFail = 1
INVARIANTS TypeOK LockHasHolder MutexUnlessStolen MissingLibExplained SettledComplete
PROPERTY Terminates
CHECK_DEADLOCK FALSE
