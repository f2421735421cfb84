CONSTANTS
  NoBudget = NoBudget
  Uncapped = Uncapped
  Requests = {r1, r2}
  Budgets = {b1}
  Caps = {1, Uncapped}
  Durations = {0, 1}
  Strategy = "for_update"
  MaxEstimate = 1
  MaxCost = 1
  MaxTime = 2
  MaxAdminOps = 3
SPECIFICATION Spec
INVARIANTS
  ReservedMatchesHolds
  CommittedUnderCap
  ResetOncePerPeriod
SYMMETRY Symmetry
CHECK_DEADLOCK FALSE
