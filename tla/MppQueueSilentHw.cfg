SPECIFICATION SilentHwSpec
CONSTANTS
  Sessions = {s1}
  Devices = {d1}
  Tasks = {t1, t2}
  None = None
  TimersExpire = TRUE
  WaitsExpire = "any"
  GrfMayFail = FALSE
PROPERTY StartedTaskCompletes
CHECK_DEADLOCK FALSE
