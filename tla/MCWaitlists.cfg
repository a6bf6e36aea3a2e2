SPECIFICATION Spec
CONSTANTS
  u1 = u1
  u2 = u2
  Users = {u1, u2}
  Buyers = {u1}
  MaxCapacity = 2
  Batch = 1
INVARIANTS
  TypeOK
  WaveCoversWaiters
  HoldersDoNotWait
PROPERTIES
  AlertArrives
  WaitlistEnds
CHECK_DEADLOCK FALSE
