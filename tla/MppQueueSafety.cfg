SPECIFICATION Spec
CONSTANTS
  Sessions = {s1, s2}
  Devices = {d1, d2}
  Tasks = {t1, t2}
  None = None
  TimersExpire = TRUE
  WaitsExpire = "any"
  GrfMayFail = TRUE
SYMMETRY Symmetry
INVARIANTS TypeOK RefCountExact  TaskCountsExact OneTaskRuns CompletedOnce IrqServesItsTask PowerBalanced FreedSessionIsQuiet QueuedIsInSession
PROPERTY StartsClean
CHECK_DEADLOCK FALSE
