CONSTANTS
  scale = scale  twin = twin  folder = folder  v1 = v1  v2 = v2  h1 = h1  h2 = h2  boot = boot
  Names = {scale}
  Slugs = {folder}
  SlugOf <- MCSlugOf
  Urls = {"direct", "odd"}
  Bins = {"tool", "slug", "old"}
  Outside = {"old"}
  BinOf <- MCBinOf
  KindOf <- MCKindOf
  Payloads = {v1, v2}
  Served <- OneServed
  Procs = {h1, h2}
  Boot = boot
  Ops = {"Status", "Configure", "Update"}
  MayFail <- AllFaults
  Keep = 1
  Attempts = 2
  SameSecond = FALSE
  MaxRequests = 2
  MaxCrashes = 1
  InitDb <- OldLayout
  InitFile = v1
  Free = Free  NoRow = NoRow  NoJob = NoJob  NotManaged = NotManaged
  Absent = Absent  Partial = Partial
SPECIFICATION FairSpec
PROPERTIES LayoutKept RequestReturns BootCompletes
CHECK_DEADLOCK FALSE
