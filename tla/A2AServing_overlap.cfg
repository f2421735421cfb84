CONSTANTS
  r1 = r1
  r2 = r2
  r3 = r3
  c1 = c1
  c2 = c2
  MCP = MCP
  Requests = {r1, r2, r3}
  Contexts = {c1, c2}
  MaxExpiries = 1
SPECIFICATION ServingSpec
SYMMETRY Symmetry
CHECK_DEADLOCK FALSE
INVARIANTS UpdatersAreOwn FollowUpHasHistory
