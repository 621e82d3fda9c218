CONSTANTS
  Items <- MCItems
  Dirs <- MCDirs
  Program <- MCProgram
  Server = "bin"
  Touched <- MCTouched
  BootMade <- MCBootMade
  MayFail = {"install"}
  MaxAttempts = 1
  MaxRuns = 1
  MaxCrashes = 0
  Nothing = Nothing
SPECIFICATION Spec
INVARIANT RuntimeKept
CHECK_DEADLOCK FALSE
