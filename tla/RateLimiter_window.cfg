CONSTANTS
  Users = {u1, u2}
  Rpm = 2
  Window = 4
  TicksPerSecond = 2
  CleanupInterval = 3
  MaxTime = 7
SPECIFICATION Spec
INVARIANTS
  TypeOK
  WindowHolds
  RetryAfterIsEnough
PROPERTY RejectionsAreDue
CHECK_DEADLOCK FALSE
