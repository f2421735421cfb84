CONSTANTS
  Formats <- AllFormats
  Faults <- SelectorFaults
  Policies <- AllPolicies
  MaxChunks = 3
SPECIFICATION Spec
INVARIANT EveryPathSettles
CHECK_DEADLOCK FALSE
