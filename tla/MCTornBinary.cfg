CONSTANTS
  scale = scale  twin = twin  folder = folder  v1 = v1  v2 = v2  h1 = h1  h2 = h2  boot = boot
  Names = {scale}
  Slugs = {folder}
  SlugOf <- MCSlugOf
  Urls = {"direct", "other"}
  Bins = {"tool", "tool-v2"}
  Outside = {}
  BinOf <- MCBinOf
  KindOf <- MCKindOf
  Payloads = {v1, v2}
  Served <- BothServed
  Procs = {h1, h2}
  Boot = boot
  Ops = {"Configure", "Start"}
  MayFail <- AllFaults
  Keep = 1
  Attempts = 1
  SameSecond = FALSE
  MaxRequests = 2
  MaxCrashes = 0
  InitDb <- Direct
  InitFile = v1
  Free = Free  NoRow = NoRow  NoJob = NoJob  NotManaged = NotManaged
  Absent = Absent  Partial = Partial
SPECIFICATION Spec
INVARIANTS InstalledWhole
SYMMETRY Workers
CHECK_DEADLOCK FALSE
