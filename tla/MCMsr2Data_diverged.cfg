SPECIFICATION Spec
CONSTANTS
  None = None
  Broken = Broken
  MaxSessions = 2
  Options <- MCOptions
  InitialDirs <- MCInitialDirs
INVARIANT GlobalFitMayFail
