SPECIFICATION Spec
CONSTANTS
  R1 = R1
  RO = RO
  RS = RS
  RG = RG
  NoOfParams = 3
  Consts = {3}
  Unused = {2}
  RunType = "singleHisto"
  NoOfRuns = 2
  Ranges <- MCRanges
  Orig = RO
  SectorRange = RS
  Garbage = RG
  Lines <- BinRangeLines
  MaxLines = 3
PROPERTIES
  MinimizesCommandedRange
