SPECIFICATION FairHistorySpec
CONSTANTS
  Steps <- EventSteps
  StartStep = "start"
  NoStep = NoStep
  Type <- EventType
  Destination <- EventGraph
  EventDestination <- EventBranches
  Windowed = {}
  TimeBranched = {"wait"}
  Delay <- DelayZero
  Horizon = 1
  LockTimeout = 1
  LockExpires = TRUE
  Customers = {c1}
  Crons = {k1}
  Events = {e1}
  EventCustomer <- OneCustomer
  Matches <- AllMatch
  LastBranch <- Branch1
  DayWindowed = {}
  MessageSendTypes = {"SEND", "LIMIT_HOLD"}
  JobIds = {1, 2, 3}
  RequeueIds = {1}
  MaxSends = 1
  MaxRedeliveries = 1
  MaxLosses = 0
INVARIANTS
  RowAtRest
  JobLocationCurrent
  OneMover
PROPERTIES
  FollowsWalk
  MoveEnds
