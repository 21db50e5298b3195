CONSTANTS
  Profile = {p1}
  NoProfile = NoProfile
  Task = {t1, t2, t3}
  NoTask = NoTask
  Request = {a1}
  Maintainer = {m1}
  Ops = {}
  Outlasting = FALSE
  Crashes = TRUE
SPECIFICATION Spec
INVARIANTS OneCrawlPerProfile
