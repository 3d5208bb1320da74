SPECIFICATION Spec
CONSTANTS
  Customers = {c1, c2, c3}
  Handlers = {h1, h2}
  Nobody = Nobody
  Limited = TRUE
  MaxCustomers = 2
  MaxRate = 1
  QuietMinutes = {1}
  Fallback = "QUIET_ABORT"
  Seconds = 2
  Horizon = 2
  MaxUpdates = 1
  MaxFaults = 1
SYMMETRY SendingSymmetry
CHECK_DEADLOCK FALSE
INVARIANTS
  TypeOK
  RateKept
  HeldAtLimit
  NewTemplate
  MarksKept
