SPECIFICATION Spec
CONSTANTS
  link = link
  alert = alert
  w1 = w1
  w2 = w2
  Notices = {link, alert}
  Linked = {link}
  Alerts = {alert}
  Workers = {w1, w2}
  RetryLimit = 2
  JobLimit = 2
  NoClaim = NoClaim
CONSTRAINT OneAtATime
INVARIANTS
  TypeOK
  OneMail
PROPERTIES
  ImplementsMailbox
  DeliveryEnds
CHECK_DEADLOCK FALSE
