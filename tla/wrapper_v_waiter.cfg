SPECIFICATION Spec
CONSTANTS
  p1 = p1  p2 = p2  p3 = p3  lin = lin  lin2 = lin2  mac = mac
  Proc = {p1, p2, p3}
  Target = {lin, lin2, mac}
  LinuxTarget = {lin, lin2}
  TargetOf <- Apart
  CxxProc = {}
  Buildable = {"libc", "librt"}
  Complete = {mac}
  MaxLive = 3
  MaxInt = 0
  MaxKill = 0
  MaxFail = 0
INVARIANT CompiledAsNeeded
CHECK_DEADLOCK FALSE
