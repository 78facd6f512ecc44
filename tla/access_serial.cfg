SPECIFICATION Spec
CONSTANTS
  Assignments = {a1}
  Resolvable = {a1}
  OrgMembers = {}
  Managers = {m1}
  Pollers = {p1, p2}
  NoOne = NoOne
  MaxRetries = 2
  BatchSize = 2
  OverlappingPolls = FALSE
  HasProcessedAt = TRUE
  CronRuns = TRUE
  Faults = {"github", "database", "crash"}
  MaxJobs = 5
  Budget <- OneFault
INVARIANTS TypeOK 
 
SYMMETRY PollerSymmetry
CHECK_DEADLOCK FALSE
