SPECIFICATION Spec
CONSTANTS
  Texts = {"", "x", "y"}
  MaxFlight = 2
  MaxActs = 7
  None = None
INVARIANTS TextAgrees ShownIsStored
CHECK_DEADLOCK FALSE
