SPECIFICATION ReadyFairSpec
CONSTANTS
  Sessions = {s1, s2}
  Devices = {d1, d2}
  Tasks = {t1, t2}
  None = None
  TimersExpire = FALSE
  WaitsExpire = "never"
  GrfMayFail = FALSE
PROPERTY EveryTaskCompletes
CHECK_DEADLOCK FALSE
