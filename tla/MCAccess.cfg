CONSTANTS
  Ids = {s1}
  Procs = {p1}
  TTL = 1
  MaxTime = 3
  MaxCrashes = 1
  MaxRequests = 1
  NoRequest = NoRequest
  Clients = {c1, c2}
  Tokens = {t1, t2}
  Soft = 1
  Hard = 2
  MaxCalls = 2
  MaxInits = 1
  MaxFailed = 2
  NoCall = NoCall
SPECIFICATION AccessFairSpec
INVARIANTS LockdownHolds VerdictTimely NotAfterEnd LiveKept AccessIInv
PROPERTY Reclaimed
CHECK_DEADLOCK FALSE
