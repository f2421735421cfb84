CONSTANTS
  NoBudget = NoBudget
  Uncapped = Uncapped
  Requests = {r1, r2, r3}
  Budgets = {b1}
  Caps = {2}
  Durations = {1}
  Strategy = "for_update"
  MaxEstimate = 2
  MaxCost = 1
  MaxTime = 3
  MaxAdminOps = 0
SPECIFICATION Spec
CHECK_DEADLOCK FALSE
PROPERTY ResetClearsLostHolds
