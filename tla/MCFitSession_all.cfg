SPECIFICATION MCSpec
CONSTANTS
  R1 = R1
  R2 = R2
  RO = RO
  RS = RS
  RG = RG
  NoOfParams = 3
  Consts = {3}
  Unused = {2}
  RunType = "singleHisto"
  NoOfRuns = 2
  Ranges <- MCRanges
  Orig = RO
  SectorRange = RS
  Garbage = RG
  Lines <- AllLines
  MaxLines = 5
INVARIANTS
  TypeOK
  RejectedBlockRunsNothing
  BinsFollowRange
  RangeLeaksOnlyBySector
  ResultsOfOneMinimum
  LogTellsOfMinimum
  KeptIsOfOneSession
