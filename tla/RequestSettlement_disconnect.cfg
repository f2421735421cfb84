CONSTANTS
  Formats <- AllFormats
  Faults <- DisconnectFaults
  Policies <- AllPolicies
  MaxChunks = 3
SPECIFICATION Spec
INVARIANT EveryPathSettles
CHECK_DEADLOCK FALSE
