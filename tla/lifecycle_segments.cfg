SPECIFICATION FairSpec
CONSTANTS
  Requests = {r1, r2}
  Kinds = {"start", "pause", "resume", "stop", "delete",
           "update", "layout"}
  Segments = {s1, s2}
  Filled = {s1, s2}
  Nothing = Nothing
  MaxStarts = 1
  MaxDeaths = 1
  MaxErrors = 1
CHECK_DEADLOCK FALSE
INVARIANTS
  TypeOK
  EnrollsWhenFilled
PROPERTIES
  EnrollsInTheEnd
  EndStays
