------------------------------- MODULE MCJobs -------------------------------
(* A small instance of each part of the jobs domain for TLC, one of which   *)
(* moves in a behaviour while the others stay as they are: focus says which.*)
(* MatchAnalysis moves in two ways, with two tasks on one job and with one  *)
(* task on two jobs.  PlatformDetails, which the cfg describes, has the     *)
(* focus "requests".                                                        *)
EXTENDS PlatformDetails, Sequences, TLC

CONSTANTS
  Crawl, RowId, NoListing,
  Listing, Unpriced, Threshold, MaxCrawls,                   \* JobResults
  Detail, WafLimit, TimeoutLimit, CookieLimit, CooldownLimit, \* JobDetails
  MaxEdits,                                                  \* MatchAnalysis
  Listed, PageSize, MaxPages, MaxJobs, MaxShifts             \* PlatformSearch

\* MatchAnalysis: the same names again, as only one of the parts moves.
Task == Crawl
Job == RowId

\* JobResults: the listings with a salary are of one offer.
Offer == [l \in Listing |-> IF l \in Unpriced THEN "other" ELSE "offer"]

VARIABLES
  focus,
  begun, exists, row, session, announced, lost, renamed, missed, miscounted,
  crawled, pass, at, again, count, described, first, repeated, bailed,
  now, edits, job, editing, resume, result, task, untold, run, told,
  searched, listed, shifts, where, sheet, found, browser, waf, answer, kept, gap

resultsVars == <<begun, exists, row, session, announced, lost, renamed, missed, miscounted>>
detailsVars == <<crawled, pass, at, again, count, described, first, repeated, bailed>>
matchVars == <<now, edits, job, editing, resume, result, task, untold, run, told>>
searchVars == <<searched, listed, shifts, where, sheet, found, browser, waf, answer, kept, gap>>

Results == INSTANCE JobResults
Details == INSTANCE JobDetails WITH platform <- crawled
Match == INSTANCE MatchAnalysis WITH announced <- told
Search == INSTANCE PlatformSearch
  WITH Job <- Listed, platform <- searched, at <- where, page <- sheet

MCInit ==
  /\ focus \in {"results", "details", "oneJob", "oneTask", "search", "requests"}
  /\ Results!Init /\ Details!Init /\ Match!Init /\ Search!Init /\ Init
  /\ focus # "details" => crawled = "boss"
  /\ focus \notin {"oneJob", "oneTask"} => \A j \in Job : job[j] = Match!Deleted
  /\ focus = "oneJob" => \E j \in Job : \A k \in Job \ {j} : job[k] = Match!Deleted
  /\ focus # "search" => searched = "boss" /\ listed = <<>>
  /\ focus # "requests" => platform = "boss"

MCNext ==
  /\ UNCHANGED focus
  /\ \/ /\ focus = "results" /\ Results!Next
        /\ UNCHANGED <<detailsVars, matchVars, searchVars, vars>>
     \/ /\ focus = "details" /\ Details!Next
        /\ UNCHANGED <<resultsVars, matchVars, searchVars, vars>>
     \/ /\ focus \in {"oneJob", "oneTask"} /\ Match!Next
        /\ focus = "oneTask" => \E t \in Task : \A u \in Task \ {t} : task'[u] = Match!NoTask
        /\ UNCHANGED <<resultsVars, detailsVars, searchVars, vars>>
     \/ /\ focus = "search" /\ Search!Next
        /\ UNCHANGED <<resultsVars, detailsVars, matchVars, vars>>
     \/ /\ focus = "requests" /\ Next
        /\ UNCHANGED <<resultsVars, detailsVars, matchVars, searchVars>>

MCSpec ==
  MCInit /\ [][MCNext]_<<focus, resultsVars, detailsVars, matchVars, searchVars, vars>>

\* Names of one kind are interchangeable.
Symmetry == Permutations(Crawl) \cup Permutations(RowId)

\* The properties of the parts, which the modules explain.
AnnouncedOnce == Results!AnnouncedOnce
SeenIsListed == Results!SeenIsListed
DeactivationIsEarned == Results!DeactivationIsEarned
RequestsAreJustified == Details!RequestsAreJustified
OutdatedOnlyByRace == Match!OutdatedOnlyByRace
CompletedAddsUp == Match!CompletedAddsUp
GoodIsAnnounced == Match!GoodIsAnnounced
NothingOverlooked == Search!NothingOverlooked
=============================================================================
