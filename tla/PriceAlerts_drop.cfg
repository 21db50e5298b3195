CONSTANTS
  Task = {t1, t2}
  Product = {p1}
  Alert = {a1}
  Price = {2, 4}
  Threshold = {50}
  Concurrency = 1
  MaxTime = 3
  None = None
SPECIFICATION Spec
PROPERTIES DropIsNotified
CHECK_DEADLOCK FALSE
