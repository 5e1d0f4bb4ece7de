SPECIFICATION Spec
CONSTANTS
  None = None
  MaxSessions = 2
  Disks <- MCDisks
  Lists <- MCLists
  SearchPath <- MCSearchPath
  Spellings <- MCSpellings
  LemYear <- MCLemYear
  PlainPath <- MCPlainPath
  Requests <- MCRequests
INVARIANTS FitUsesWholeFiles FilesBeforeKept EveryRunDelivered PackedInPlace
PROPERTIES ReadsSameAgain
