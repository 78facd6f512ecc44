SPECIFICATION Spec
CONSTANTS
  Commits = {c1}
  Targets = {"vercel", "render"}
  Sonar = TRUE
  Sessions = {s1, s2}
  UpdateLimit = 1
  Starts <- SomeStarts
  Faults <- AllFaults
  MaxTokens = 3
  Rollover = 3
INVARIANTS PromotedAsDeployed ConsoleIsTrue
PROPERTIES DeployedWasTested DriftIsTrue
SYMMETRY SessionSymmetry
CHECK_DEADLOCK FALSE
