SPECIFICATION FairSpec
CONSTANTS
  o1 = o1
  o2 = o2
  Orders = {o1}
  Qty <- OneTicketEach
  MaxAttempts = 1
  InitCapacity = 1
  MaxCapacity = 1
  MaxRequests = 1
  NoAttempt = NoAttempt
PROPERTIES
  PendingEnds
  CancellationSettles
  CaptureRecorded
CHECK_DEADLOCK FALSE
