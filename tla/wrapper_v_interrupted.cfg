SPECIFICATION Spec
CONSTANTS
  p1 = p1  p2 = p2  p3 = p3  lin = lin  lin2 = lin2  mac = mac
  Proc = {p1, p2}
  Target = {lin}
  LinuxTarget = {lin}
  TargetOf <- OneTarget
  CxxProc = {}
  Buildable = {"libc", "librt"}
  Complete = {}
  MaxLive = 1
  MaxInt = 1
  MaxKill = 0
  MaxFail = 0
INVARIANT CompiledAsNeeded
CHECK_DEADLOCK FALSE
