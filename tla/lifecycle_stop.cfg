SPECIFICATION Spec
CONSTANTS
  Requests = {r1, r2}
  Kinds = {"start", "stop"}
  Segments = {}
  Filled = {}
  Nothing = Nothing
  MaxStarts = 1
  MaxDeaths = 0
  MaxErrors = 0
CHECK_DEADLOCK FALSE
PROPERTIES
  StopIsFinal
