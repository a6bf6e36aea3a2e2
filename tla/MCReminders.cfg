SPECIFICATION Spec
CONSTANTS
  o1 = o1
  t1 = t1
  u1 = u1
  u2 = u2
  Organizers = {o1}
  Admin = Admin
  Tiers = {t1}
  Starts = {2, 3}
  LastInstant = 3
  NoTier = NoTier
  Users = {u1, u2}
  Day = 2
  Eve = 1
  Batch = 1
  NotSaved = NotSaved
INVARIANTS
  TypeOK
  OwnersKeepTheirEvents
  SalesFitTheEvent
  NothingForgotten
  OneDayReminder
PROPERTIES
  RemindersPlanned
CONSTRAINT Bounds
CHECK_DEADLOCK FALSE
