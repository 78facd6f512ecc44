SPECIFICATION Spec
CONSTANTS
  a = a
  x = x
  Names = {a, x}
  OrgNames = {a}
  Unseen = {x}
  Starts <- SomeStarts
  Requests = {1, 2}
  Cron = Cron
  NoOne = NoOne
  Outsider = Outsider
  Limit = 3
  Faults <- AllFaults
  MaxFaults = 1
INVARIANTS TypeOK FailedLeavesNoRepo
PROPERTIES LiveProjectsKept CompensationSparesOthers FirstRunHasToken TrackingIsTrue RowsConverge
CHECK_DEADLOCK FALSE
