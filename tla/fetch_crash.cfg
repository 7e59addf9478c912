SPECIFICATION Spec
CONSTANTS
  Build = {b1, b2}
  Sys = {"linux"}
  NPatch = 1
  Served = {"good", "other", "page"}
  MaxStart = 3
  MaxKill = 1
  MaxFail = 2
INVARIANTS TypeOK StampHonest FailExplained
PROPERTY StampedUntouched
CHECK_DEADLOCK FALSE
