SPECIFICATION FairSpec
CONSTANTS
  s1 = s1
  f1 = f1
  rga3 = rga3
  rga2 = rga2
  h1 = h1
  h2 = h2
  None = None
  Jobs = {s1, f1}
  Handles = {h1, h2}
  CoreOrder <- TwoCores
  Sync = {s1}
  Fenced = {f1}
  Src <- MCSrc
  Dst <- MCDst
  Priority <- MCPriority
  Interrupted = {s1}
  Failing = {f1}
  MayHang = {rga3}
  Overdue = {s1}
  MaxImports = 1
INVARIANTS TypeOK QueuesHoldLiveJobs DoneIsExecuted BuffersAreMapped HandlesAreCounted WorkIsTracked PowerBalanced
PROPERTIES SyncReturns FenceIsSignaled
CHECK_DEADLOCK FALSE
