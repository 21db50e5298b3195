CONSTANTS
  Worker = {owner}
  NoWorker = NoWorker
  MaxRequeue = 5
  Owner = owner
  Group = {boss, liepin}
  MultiConfig = {}
  Maintainer = {m1}
  Slow = {{}}
  Crashes = FALSE
SPECIFICATION Spec
INVARIANTS FailedChildFailsParent
CHECK_DEADLOCK FALSE
