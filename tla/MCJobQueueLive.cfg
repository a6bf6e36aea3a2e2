SPECIFICATION FairSpec
CONSTANTS
  once = once
  again = again
  reminder = reminder
  w1 = w1
  w2 = w2
  Workers = {w1, w2}
  Jobs = {again}
  Recurring = {again}
  ReminderJobs = {}
  MaxAttempts = 2
  MaxWork = 2
  NoJob = NoJob
  NoWorker = NoWorker
PROPERTIES
  WorkFinishes
