SPECIFICATION Spec
CONSTANTS
  s1 = s1
  f1 = f1
  rga3 = rga3
  rga2 = rga2
  h1 = h1
  h2 = h2
  None = None
  Jobs = {s1}
  Handles = {h1, h2}
  CoreOrder <- OneCore
  Sync = {s1}
  Fenced = {}
  Src <- MCSrc
  Dst <- MCDst
  Priority <- MCPriority
  Interrupted = {}
  Failing = {}
  MayHang = {}
  Overdue = {}
  MaxImports = 1
INVARIANT NeverUndefined
CHECK_DEADLOCK FALSE
