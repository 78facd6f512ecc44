SPECIFICATION Spec
CONSTANTS
  Users = {u1, u2}
  Repos = {r1}
  Handlers = {h1, h2}
  MaxChanges = 3
  Budgets <- SomeBudgets
INVARIANTS TablesAgree HandledOnce
SYMMETRY Symmetry
CHECK_DEADLOCK FALSE
