CONSTANTS
  h1 = h1  h2 = h2  a = a  b = b  c = c
  Procs = {h1, h2}
  Soft = 2
  Hard = 3
  Inodes = {a, b, c}
  MayFail = {"open", "write", "rename"}
  MaxUnlocks = 2
  MaxCrashes = 1
  Free = Free  None = None  Empty = Empty  Garbage = Garbage
SPECIFICATION FairSpec
INVARIANTS IInv FileWhole Overshoot
PROPERTIES CounterSpec UnlockWorks BlockEnds
