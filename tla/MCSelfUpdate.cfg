CONSTANTS
  Items <- MCItems
  Dirs <- MCDirs
  Program <- MCProgram
  Server = "bin"
  Touched <- MCTouched
  BootMade <- MCBootMade
  MayFail = {"tag", "asset", "sums", "verify", "preserve", "wipe", "install",
             "restore", "systemctl"}
  MaxAttempts = 4
  MaxRuns = 2
  MaxCrashes = 1
  Nothing = Nothing
SPECIFICATION FairSpec
INVARIANTS StateSurvives BackInPlace IInv
PROPERTIES UpdateTakesEffect SelfUpdateEnds
CHECK_DEADLOCK FALSE
