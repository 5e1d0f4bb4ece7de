SPECIFICATION LoopFairSpec
CONSTANTS
  T1 = T1
  T2 = T2
  Zero = Zero
  Closed = Closed
  P = P
  Q = Q
  None = None
  Torn = Torn
  Threads = {T1, T2}
  NoOfBins = 4
  Time <- MCTime
  Procs = 5
  MinChunk = 3
  WarmUpTime = 1
  Theories <- AllTheories
  ParamSets = {Zero, Closed, P, Q}
  Form <- MCForm
  MaxCalls = 3
INVARIANTS
  RebuiltBeforeLoop
  ValuesOfParameters
PROPERTIES
  KeepsPromise
  CallEnds
