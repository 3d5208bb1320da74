SPECIFICATION Spec
CONSTANTS
  d3 = d3
  p1 = p1
  Devices = {d1, d2, d3}
  People = {p1, p2, p3}
  Users <- OneShared
  Requests = {r1, r2, r3}
  Nobody = Nobody
  NoDevice = NoDevice
  NoCustomer = NoCustomer
  TokenIsKey = TRUE
  MaxDeletes = 1
  MaxDeaths = 1
  MaxRepeats = 1
SYMMETRY IdentitySymmetry
CHECK_DEADLOCK FALSE
INVARIANTS
  TypeOK
  IdentifiedResolves
PROPERTY PersonKept
