SPECIFICATION Spec
CONSTANTS
  link = link
  alert = alert
  w1 = w1
  w2 = w2
  Notices = {alert}
  Linked = {}
  Alerts = {}
  Workers = {w1, w2}
  RetryLimit = 3
  JobLimit = 3
  NoClaim = NoClaim
INVARIANTS
  UncertainNotCancelled
CHECK_DEADLOCK FALSE
