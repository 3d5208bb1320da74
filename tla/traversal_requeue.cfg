SPECIFICATION FairSpec
CONSTANTS
  Steps <- EventSteps
  StartStep = "start"
  NoStep = NoStep
  Type <- EventType
  Destination <- EventGraph
  EventDestination <- EventBranches
  Windowed = {}
  TimeBranched = {"wait"}
  Delay <- DelayOne
  Horizon = 2
  LockTimeout = 1
  LockExpires = FALSE
  Customers = {c1}
  Crons = {k1}
  Events = {}
  EventCustomer <- OneCustomer
  Matches <- AllMatch
  LastBranch <- Branch1
  DayWindowed = {}
  MessageSendTypes = {"SEND", "REQUEUE"}
  JobIds = {1, 2}
  RequeueIds = {1}
  MaxSends = 1
  MaxRedeliveries = 0
  MaxLosses = 0
PROPERTY RequeuedIsSent
