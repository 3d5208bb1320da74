SPECIFICATION Spec
CONSTANTS
  Steps <- EventSteps
  StartStep = "start"
  NoStep = NoStep
  Type <- EventType
  Destination <- EventGraph
  EventDestination <- EventBranches
  Windowed = {}
  TimeBranched = {"wait"}
  Delay <- DelayOne
  Horizon = 2
  LockTimeout = 0
  LockExpires = FALSE
  Customers = {c1}
  Crons = {k1}
  Events = {e1}
  EventCustomer <- OneCustomer
  Matches <- AllMatch
  LastBranch <- Branch1
  DayWindowed = {}
  MessageSendTypes = {"SEND", "REQUEUE"}
  JobIds = {1, 2, 3}
  RequeueIds = {1}
  MaxSends = 2
  MaxRedeliveries = 0
  MaxLosses = 0
INVARIANT MoverHoldsLock
