SPECIFICATION FairSpec
CONSTANTS
  c1 = c1
  c2 = c2
  email = email
  plan = plan
  Customers = {c1, c2}
  Declared = {email}
  Custom = {plan}
  Missing = Missing
  Channels = {"_id", "primaryKey"}
  BatchSize = 2
  Collects <- Selected
  Errs <- Fails
  Decides <- Matches
  Includes <- CheckInclusion
  Names <- NamesEvent
  Agrees <- Comparable
  Values = {1, 2}
  Queries <- Created
  Databases <- Emailed
  MaxChanges = 3
  MaxRetries = 0
CHECK_DEADLOCK FALSE
INVARIANTS
  TypeOK
  UpToDate
  EvaluationsAgree
PROPERTY ReadyInTheEnd
