CONSTANTS
  Worker = {owner}
  NoWorker = NoWorker
  MaxRequeue = 5
  Owner = owner
  Group = {boss, liepin, zhilian}
  MultiConfig = {boss}
  Maintainer = {m1}
  Slow = {{"job_all"}, {"job_all", liepin}}
  Crashes = TRUE
SPECIFICATION MCSpec
INVARIANTS CompletedCoversAllGroups ErrorsReachParent
PROPERTIES ParentSettles AggregationKeepsResults
CHECK_DEADLOCK FALSE
