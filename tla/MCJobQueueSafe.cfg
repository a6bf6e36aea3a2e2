SPECIFICATION Spec
CONSTANTS
  once = once
  again = again
  reminder = reminder
  w1 = w1
  w2 = w2
  Workers = {w1, w2}
  Jobs = {once, again, reminder}
  Recurring = {again}
  ReminderJobs = {reminder}
  MaxAttempts = 2
  MaxWork = 2
  NoJob = NoJob
  NoWorker = NoWorker
SYMMETRY WorkersAlike
INVARIANTS
  TypeOK
  SuccessMeansDone
  NeverStranded
PROPERTIES
  LeaseRespected
CONSTRAINT TwoJobs
