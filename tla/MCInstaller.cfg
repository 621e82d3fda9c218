CONSTANTS
  Dirs <- MCDirs
  Files <- MCFiles
  Made <- MCMade
  Touched <- MCTouched
  MaxRuns = 3
SPECIFICATION Spec
INVARIANTS NothingDeleted StartsWithState IInv
CHECK_DEADLOCK FALSE
