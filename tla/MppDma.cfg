SPECIFICATION Spec
CONSTANTS
  t1 = t1
  t2 = t2
  fa = fa
  fb = fb
  p1 = p1
  p2 = p2
  b1 = b1
  b2 = b2
  b3 = b3
  None = None
  Fds = {fa, fb}
  Tasks = {t1, t2}
  Buffers = {b1, b2}
  Threads = {p1, p2}
  Uses <- MCUses
  MaxBuffers = 1
  MaxTrans = 1
  MayReset = TRUE
SYMMETRY Symmetry
INVARIANTS TypeOK RefsExact HeldBuffersAreMapped EachBufferInOneList ClosedIsUnmapped
CHECK_DEADLOCK FALSE
