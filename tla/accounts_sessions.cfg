SPECIFICATION Spec
CONSTANTS
  Browsers = {b1, b2}
  MaxIds = 2
  MaxStamps = 3
  MaxFaults = 1
INVARIANTS SessionsMatchAccounts PlanInForce
PROPERTY DeletedOnlyAsArchived
SYMMETRY Symmetry
CHECK_DEADLOCK FALSE
