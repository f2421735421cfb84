CONSTANTS
  Formats <- AllFormats
  Policies <- AllPolicies
  ServiceFaults <- AllServiceFaults
  PlatformFaults <- AllPlatformFaults
  Others = {o1}
  MaxBatch = 2
  MaxRounds = 2
  MaxTries = 2
  MaxChunks = 3
  MaxAttempts = 3
SPECIFICATION Spec
ACTION_CONSTRAINT WriterAtPuts
INVARIANTS
  BillIsRight
  HoldsHaveCause
  LogMatchesSpend
  PlatformIsToldRight
  WalkEndsWell
PROPERTIES
  KeepsContract
  EverythingEnds
CHECK_DEADLOCK FALSE
