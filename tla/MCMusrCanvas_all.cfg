SPECIFICATION Spec
CONSTANTS
  None = None
  Canvases = {0, 1}
  Setups <- MCSetups
  Users <- MCUsers
  Windows = {"zoomed"}
  MaxTurn = 1
INVARIANTS
  DataInTime
  DrawnAsAsked
  KeysNeverCrash
PROPERTIES
  TransformOfWindow
