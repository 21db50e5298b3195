CONSTANTS
  Request = {r1, r2}
  NoRequest = NoRequest
  MaxLogins = 2
  MaxTokens = 3
SPECIFICATION Spec
INVARIANTS LastLoginWins DeadlocksInvolvePasswordChange
PROPERTIES RotationIsCompareAndSwap EveryRequestAnswered
