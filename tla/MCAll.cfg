CONSTANTS
  scale = scale  twin = twin  folder = folder  v1 = v1  v2 = v2  h1 = h1  h2 = h2  boot = boot
  Names = {scale, twin}
  Slugs = {folder}
  SlugOf <- MCSlugOf
  Urls = {"direct", "odd"}
  Bins = {"tool", "slug"}
  Outside = {}
  BinOf <- MCBinOf
  KindOf <- MCKindOf
  Payloads = {v1, v2}
  Served <- OneServed
  Procs = {h1, h2}
  Boot = boot
  Ops = {"Register", "Cleanup", "Update", "Configure", "Rollback", "Start", "Stop"}
  MayFail <- AllFaults
  Keep = 1
  Attempts = 2
  SameSecond = TRUE
  MaxRequests = 3
  MaxCrashes = 1
  InitDb <- Direct
  InitFile = v1
  Free = Free  NoRow = NoRow  NoJob = NoJob  NotManaged = NotManaged
  Absent = Absent  Partial = Partial
SPECIFICATION Spec
INVARIANTS NoGhosts IInv
PROPERTIES RegistrySpec PickedBackupKept BoundedWork
SYMMETRY Workers
CHECK_DEADLOCK FALSE
