SPECIFICATION FairSpec
CONSTANTS
  P1 = P1
  P2 = P2
  F1 = F1
  F2 = F2
  D1 = D1
  D2 = D2
  None = None
  Partial = Partial
  Procs = {P1, P2}
  Files = {F1, F2}
  Dirs = {D1, D2}
  MsrOf <- ApartFiles
  Dir <- ApartDirs
  Keep = {P2}
  Timeout = {P1}
  Unwritable <- KeptUnwritable
  MaxSessions = 2
INVARIANTS
  InputSurvives
  SwappedAtEnd
PROPERTIES
  WatchdogEndsFit
  KeepsPromise
