SPECIFICATION FairSpec
CONSTANTS
  c1 = c1
  c2 = c2
  c3 = c3
  Customers = {c1, c2, c3}
  Audience <- Three
  Enrollments = {e1, e2}
  Crons = {k1}
  Settings <- Several
  PageSize = 2
  BatchSize = 2
  MaxEntries = 1
  MaxRetries = 1
  MaxDeaths = 1
  MaxRepeats = 1
  MaxDrops = 1
  MaxFaults = 2
  MaxChurn = 1
INVARIANTS
  TypeOK
  EnteredOnce
  EnteredWithRow
  RowsAccounted
  EntriesWithinMax
CHECK_DEADLOCK FALSE
PROPERTY EnteredInTheEnd
