SPECIFICATION Spec
CONSTANTS
  None = None
  Files <- MCFiles
  Opened <- MCOpened
  Chosen <- MCChosen
  MaxText = 2
  MaxTimers = 2
  MaxMoves = 3
INVARIANTS
  StaleIsReported
PROPERTIES
  EditsKept
  WatcherComesBack
