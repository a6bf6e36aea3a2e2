SPECIFICATION Spec
CONSTANTS
  o1 = o1
  o2 = o2
  Orders = {o1, o2}
  Qty <- OneAndTwo
  MaxAttempts = 1
  InitCapacity = 2
  MaxCapacity = 3
  MaxRequests = 1
  NoAttempt = NoAttempt
CONSTRAINT BeforeTheStart
INVARIANTS
  InventoryAccounting
PROPERTIES
  ImplementsInventory
CHECK_DEADLOCK FALSE
