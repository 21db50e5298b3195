CONSTANTS
  Crawl = {c1, c2}
  RowId = {r1, r2}
  NoListing = NoListing
  Listing = {"a", "b", "c"}
  Unpriced = {"c"}
  Threshold = 2
  MaxCrawls = 4
  Detail = 5
  WafLimit = 1
  TimeoutLimit = 2
  CookieLimit = 2
  CooldownLimit = 1
  MaxEdits = 2
  Listed = {1, 2, 3, 4, 5}
  PageSize = 2
  MaxPages = 2
  MaxJobs = 3
  MaxShifts = 1
  Wanted = 3
  None = None
SPECIFICATION MCSpec
INVARIANTS AnnouncedOnce CompletedAddsUp GoodIsAnnounced NothingOverlooked BrowserIsClosed
PROPERTIES SeenIsListed DeactivationIsEarned RequestsAreJustified OutdatedOnlyByRace
SYMMETRY Symmetry
CHECK_DEADLOCK FALSE
