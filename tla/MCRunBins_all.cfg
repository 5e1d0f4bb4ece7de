SPECIFICATION Spec
CONSTANTS
  Size = 40
  TenNs = 2
  MaxSessions = 2
  Offsets <- MCOffsets
  Setups <- MCSetups
  UserFiles <- MCUserFiles
INVARIANTS EventsAligned FitBinsAreInRange CommandAsLine
PROPERTY SameAgain
