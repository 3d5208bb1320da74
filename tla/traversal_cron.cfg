SPECIFICATION HistorySpec
CONSTANTS
  Steps <- CronSteps
  StartStep = "start"
  NoStep = NoStep
  Type <- CronType
  Destination <- CronDestination
  EventDestination <- NoBranches
  Windowed = {"window", "days"}
  TimeBranched = {"days"}
  Delay <- DelayOne
  Horizon = 2
  LockTimeout = 0
  LockExpires = FALSE
  Customers = {c1}
  Crons = {k1}
  Events = {}
  EventCustomer <- NoEvents
  Matches <- NoEvents
  LastBranch <- NoEvents
  DayWindowed = {"days"}
  MessageSendTypes = {"SEND", "QUIET_ABORT", "LIMIT_HOLD", "REQUEUE"}
  JobIds = {1, 2, 3}
  RequeueIds = {1, 2}
  MaxSends = 2
  MaxRedeliveries = 1
  MaxLosses = 1
INVARIANTS
  TypeOK
  UnlockedAtRest
  MarkMatchesSends
  NoSecondMessage
  CronDisturbsNobody
PROPERTIES
  DelayHonoured
  MessagedStaysMarked
