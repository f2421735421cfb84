CONSTANTS
  Users = {u1, u2}
  Keys = {k1, k2}
  Files = {f1}
  Requests = {r1, r2}
  Actors = {a1, a2}
  NoUser = NoUser
  NoFile = NoFile
  Faults <- AllFaults
  MaxPages = 2
  Rpm = 2
  Window = 4
  TicksPerSecond = 2
  CleanupInterval = 3
  MaxTime = 6
SPECIFICATION Spec
ACTION_CONSTRAINTS OnePartAtATime AtWork
CONSTRAINTS OneMark OneRequest
SYMMETRY Symmetric
INVARIANTS
  KeysFollowUsers
  StoredIsReachable
  AttachmentsArrive
  LimitHolds
CHECK_DEADLOCK FALSE
