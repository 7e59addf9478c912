SPECIFICATION Spec
CONSTANTS
  p1 = p1  p2 = p2  p3 = p3  lin = lin  lin2 = lin2  mac = mac
  Proc = {p1, p2, p3}
  Target = {lin, mac}
  LinuxTarget = {lin}
  TargetOf <- Shared
  CxxProc = {}
  Buildable = {"libc", "librt"}
  Complete = {}
  MaxLive = 1
  MaxInt = 0
  MaxKill = 0
  MaxFail = 0
PROPERTY KeepsPromise
CHECK_DEADLOCK FALSE
