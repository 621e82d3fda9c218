CONSTANTS
  scale = scale  twin = twin  folder = folder  v1 = v1  v2 = v2  h1 = h1  h2 = h2  boot = boot
  Names = {scale}
  Slugs = {folder}
  SlugOf <- MCSlugOf
  Urls = {"asset", "zip"}
  Bins = {"slug"}
  Outside = {}
  BinOf <- MCBinOf
  KindOf <- MCKindOf
  Payloads = {v1, v2}
  Served <- BothServed
  Procs = {h1, h2}
  Boot = boot
  Ops = {"Register", "Cleanup", "Provision", "Update", "Configure", "Rollback", "Start", "Restart", "Stop"}
  MayFail <- NoFaults
  Keep = 2
  Attempts = 1
  SameSecond = FALSE
  MaxRequests = 4
  MaxCrashes = 0
  InitDb <- Asset
  InitFile = v1
  Free = Free  NoRow = NoRow  NoJob = NoJob  NotManaged = NotManaged
  Absent = Absent  Partial = Partial
SPECIFICATION HSpec
INVARIANTS HInv SnapshotHeld SuccessInstalls
SYMMETRY Workers
CHECK_DEADLOCK FALSE
