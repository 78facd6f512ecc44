SPECIFICATION Spec
CONSTANTS
  Requests = {r1, r2}
  Owner = Owner
  NoOne = NoOne
  FileCount = 2
  Budgets <- SomeBudgets
INVARIANTS SecretsBelong FinishedIsWhole AsTold
SYMMETRY Symmetry
CHECK_DEADLOCK FALSE
