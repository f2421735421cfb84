CONSTANTS
  r1 = r1
  r2 = r2
  Requests = {r1, r2}
  Users = {"budgeted", "unlimited"}
  Budgeted = {"budgeted"}
  Cap = 1
  NoUser = "nobody"
  Master = "master"
  NoPrice = NoPrice
  Prices = {0, 1}
  MaxUnits = 1
  Faults <- AllFaults
SPECIFICATION Spec
INVARIANTS
  CommittedWithinCap
  SpendIsLogged
  LeftoversHaveCause
SYMMETRY Interchangeable
CHECK_DEADLOCK FALSE
