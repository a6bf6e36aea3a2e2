SPECIFICATION Spec
CONSTANTS
  o1 = o1
  o2 = o2
  Orders = {o1}
  Qty <- OneTicketEach
  MaxAttempts = 2
  InitCapacity = 1
  MaxCapacity = 1
  MaxRequests = 1
  NoAttempt = NoAttempt
CONSTRAINT OneInTrouble
INVARIANTS
  TypeOK
  CaptureSettled
  PurchaseBacked
  AdmissionExclusive
  TicketsKept
  RefundFollowsProvider
  OneActiveAttempt
  CancellationComplete
PROPERTIES
  ImplementsLedger
CHECK_DEADLOCK FALSE
