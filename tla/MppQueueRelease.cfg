SPECIFICATION FairSpec
CONSTANTS
  Sessions = {s1}
  Devices = {d1}
  Tasks = {t1}
  None = None
  TimersExpire = FALSE
  WaitsExpire = "never"
  GrfMayFail = FALSE
PROPERTY ReleasedSessionIsFreed
CHECK_DEADLOCK FALSE
