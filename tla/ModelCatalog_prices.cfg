CONSTANTS
  l1 = l1
  l2 = l2
  a1 = a1
  a2 = a2
  Listers = {l1, l2}
  Admins = {a1, a2}
  LastTime = 2
  MaxCalls = 2
SPECIFICATION CatalogSpec
SYMMETRY Symmetry
CONSTRAINT OneHalf
CHECK_DEADLOCK FALSE
INVARIANTS PricesAgree PostedPriceHolds FetchIsNeeded
