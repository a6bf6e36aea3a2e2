SPECIFICATION Spec
CONSTANTS
  a1 = a1
  a2 = a2
  u1 = u1
  s1 = s1
  s2 = s2
  s3 = s3
  l1 = l1
  l2 = l2
  Users = {a1, a2, u1}
  Admins = {a1, a2}
  Sessions = {s1, s2, s3}
  Links = {l1, l2}
  Lifetime = 1
  MaxTime = 2
  MaxChanges = 2
  NoUser = NoUser
CONSTRAINT OthersSignIn
SYMMETRY RowsAlike
INVARIANTS
  TypeOK
  OneLiveToken
  InactiveSignedOut
  AdminRemains
PROPERTIES
  ImplementsGrants
  PasswordProved
CHECK_DEADLOCK FALSE
