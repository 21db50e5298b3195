CONSTANTS
  Request = {r1, r2, r3}
  MaxAttempts = 2
  MaxCount = 4
  u1 = u1
  u2 = u2
  r1 = r1
  r2 = r2
  r3 = r3
  Scan = {scan}
  Openid = {openid}
  User = {u1, u2}
  Exchange = {r1, r2}
  MaxCalls = 3
  Resource = {resource}
  MaxEdits = 2
  None = None
SPECIFICATION MCSpec
INVARIANTS AttemptsBounded LockoutHasExpiry CodeAnsweredOnce
PROPERTIES LockoutEnds LastSuperAdminStays ConfigSettles RegistryCatchesUp
CHECK_DEADLOCK FALSE
