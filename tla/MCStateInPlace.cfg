CONSTANTS
  Dirs <- MCDirs
  Files <- MCFiles
  Made <- MCMade
  Touched <- MCTouched
  MaxRuns = 1
SPECIFICATION Spec
INVARIANT StateInPlace
CHECK_DEADLOCK FALSE
