CONSTANTS
  Stream = {s1, s2}
  MaxChanges = 1
  None = None
SPECIFICATION Spec
PROPERTIES ChangeReachesStream
CHECK_DEADLOCK FALSE
