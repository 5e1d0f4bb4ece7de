SPECIFICATION T0Spec
CONSTANTS
  Size = 40
  TenNs = 2
  MaxSessions = 3
  MaxStarts = 2
  GoodOffset = 3
  NotSet = NotSet
  Offsets <- MCOffsets
  Setups <- MCSetups
  UserFiles <- MCUserFiles
  Cursor <- MCCursor
  Keys <- MCKeys
INVARIANTS ChosenUsed OthersKeepTheirs
