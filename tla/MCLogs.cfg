CONSTANTS
  p1 = p1  p2 = p2  a = a  b = b  c = c  d = d  e = e  f = f
  Std = {"stdout"}
  Procs = {p1, p2}
  Inodes = {a, b, c, d, e, f}
  MaxSize = 1
  MaxArchives = 1
  Limit = 2
  MaxTail = 2
  Asked = {1, 2, 3}
  Long = {3}
  MayFail = {"create", "rotate", "recreate", "trim", "append", "truncate", "unlink", "read"}
  MaxLines = 3
  MaxRequests = 3
  MaxCrashes = 1
  None = None  Free = Free  NoJob = NoJob
SPECIFICATION Spec
INVARIANTS IInv SearchComplete
PROPERTIES WriterKept RotationKeeps
SYMMETRY Swaps
CHECK_DEADLOCK FALSE
