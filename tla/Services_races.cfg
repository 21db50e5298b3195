CONSTANTS
  Profile = {p1}
  NoProfile = NoProfile
  Task = {t1, t2, t3}
  NoTask = NoTask
  Request = {a1, a2}
  Maintainer = {}
  Ops = {"disable", "requireLogin", "import", "test", "openLogin"}
  Outlasting = FALSE
  Crashes = TRUE
  RacingProfile = {q1, q2}
  RacingTask = {u1, u2}
  RacingMaintainer = {m1}
  RacingOps = {"enable", "releaseStale", "rename", "delete"}
  Price = {2, 4}
  Threshold = {}
  Concurrency = 1
  MaxTime = 3
  PlatformCron = {productCron}
  Expr = {hourly}
  Zone = {Shanghai, Utc}
  DefaultZone = Shanghai
  MaxChanges = 2
  MaxDays = 1
  MaxRequests = 2
  MaxEdits = 1
  None = None
  Unset = Unset
SPECIFICATION MCSpec
INVARIANTS RuntimeExclusive CrawlHoldsLeaseWhenRacing LeaseNamesOwnerWhenRacing ComparedWithPrevious SchedulesInSync NotBeforeItsTime StreamsAreServed
PROPERTIES OnlyOperatorsUnblock
SYMMETRY Symmetry
