--------------------------- MODULE PlatformSearch ---------------------------
(***************************************************************************)
(* The search of a crawl on one of the three job platforms: the adapters'  *)
(* crawl (boss_cloak_experimental.py, job51.py, liepin.py) asks for one    *)
(* page after the other, while the site goes on changing what it lists.    *)
(* What is answered as a success is the platform's list for                *)
(* process_job_results, where a job that is missing counts as missed.      *)
(***************************************************************************)
EXTENDS Naturals, Sequences, FiniteSets, Functions

CONSTANTS
  Job,         \* job ids
  PageSize,    \* jobs on a page
  MaxPages,    \* max_pages; liepin asks for the first page only
  MaxJobs,     \* max_jobs of boss
  MaxShifts    \* bound on the changes of the site's list

VARIABLES
  platform,
  listed,   \* the site's list for the search, newest first
  shifts,
  at,       \* where the crawl is
  page,     \* the page it asks for
  found,    \* all_jobs, or jobs
  browser,  \* whether a browser context is open
  waf,      \* _waf_hits and _cookie_refresh_failures of the adapter
  answer,   \* the result, and the jobs it carries
  kept,     \* history variable: what the site has listed all the while
  gap       \* history variable: why something may be missing

vars == <<platform, listed, shifts, at, page, found, browser, waf, answer, kept, gap>>

Least(m, n) == IF m < n THEN m ELSE n

NoAnswer == [success |-> FALSE, category |-> "none", jobs |-> {}]

Init ==
  /\ platform \in {"boss", "51job", "liepin"}
  /\ listed \in {s \in UNION {[1..n -> Job] : n \in 0..Cardinality(Job)} : IsInjective(s)}
  /\ shifts = 0
  /\ at = "start" /\ page = 1 /\ found = {}
  /\ browser = FALSE /\ waf = 0
  /\ answer = NoAnswer
  /\ kept = Range(listed) /\ gap = "none"

----------------------------------------------------------------------------
(* The site.                                                               *)

Page(n) == SubSeq(listed, (n - 1) * PageSize + 1, Least(n * PageSize, Len(listed)))

\* Seeded error: the page after the next decides.
MoreTooFar(n) == Len(listed) > (n + 1) * PageSize

\* hasMore of boss, total_page of 51job
More(n) == Len(listed) > n * PageSize

\* A new job comes to the front and moves the others on
Post(j) ==
  /\ shifts < MaxShifts /\ at \notin {"start", "done"}
  /\ j \notin Range(listed)
  /\ listed' = <<j>> \o listed
  /\ shifts' = shifts + 1
  /\ UNCHANGED <<platform, at, page, found, browser, waf, answer, kept, gap>>

\* A job goes, and those behind it move up, perhaps to a page already seen
Withdraw(j) ==
  /\ shifts < MaxShifts /\ at \notin {"start", "done"}
  /\ j \in Range(listed)
  /\ listed' = SelectSeq(listed, LAMBDA k : k # j)
  /\ kept' = kept \ {j}
  /\ gap' = IF gap = "none" THEN "moved" ELSE gap
  /\ shifts' = shifts + 1
  /\ UNCHANGED <<platform, at, page, found, browser, waf, answer>>

----------------------------------------------------------------------------
(* The crawl.                                                              *)

\* The finally clause closes the browser with every answer
Reply(success, category, jobs) ==
  /\ answer' = [success |-> success, category |-> category, jobs |-> jobs]
  /\ at' = "done"
  /\ browser' = FALSE

\* An exception anywhere in the crawl: the jobs found so far are lost
Raise ==
  /\ at \notin {"start", "done"}
  /\ Reply(FALSE, "none", {})
  /\ UNCHANGED <<platform, listed, shifts, page, found, waf, kept, gap>>

\* _start_browser and the first cookie refresh; liepin does without
Start ==
  /\ at = "start"
  /\ at' = "page"
  /\ browser' = (platform # "liepin")
  /\ kept' = Range(listed)
  /\ UNCHANGED <<platform, listed, shifts, page, found, waf, answer, gap>>

\* What boss takes of a page: the jobs it has not seen, one after the other,
\* until it has max_jobs
Taken(n, new) ==
  /\ \A k \in DOMAIN Page(n) :
       Page(n)[k] \in new => \A i \in 1..k : Page(n)[i] \in found \cup new
  /\ Cardinality(found \cup new) <= MaxJobs
  /\ found \cup new = found \cup Range(Page(n)) \/ Cardinality(found \cup new) = MaxJobs

\* boss: the page is added, its details are requested, and then the limits
\* and the site decide whether to go on
BossPage ==
  /\ platform = "boss" /\ at \in {"page", "again"}
  /\ \E new \in SUBSET (Range(Page(page)) \ found) :
       LET jobs == found \cup new
           ends == Cardinality(jobs) >= MaxJobs \/ ~More(page) \/ Page(page) = <<>> \/ page = MaxPages
       IN /\ Taken(page, new)
          /\ found' = jobs
          /\ gap' = IF gap = "none" /\ ends /\ (More(page) \/ ~(Range(Page(page)) \subseteq jobs))
                    THEN "limit" ELSE gap
          /\ IF ends THEN Reply(TRUE, "none", jobs) /\ UNCHANGED page
             ELSE /\ page' = page + 1 /\ at' = "page"
                  /\ UNCHANGED <<answer, browser>>
  /\ UNCHANGED <<platform, listed, shifts, waf, kept>>

\* An anti-bot code: the cookies are refreshed and the page asked for again
BossRefresh ==
  /\ platform = "boss" /\ at = "page"
  /\ at' = "again"
  /\ UNCHANGED <<platform, listed, shifts, page, found, browser, waf, answer, kept, gap>>

\* The code once more, or another one.  The answer carries the jobs so far,
\* but no success; the first failure ends the crawl, so that the second,
\* which would be cookie_refresh_failed, does not happen to this adapter
BossFails ==
  /\ platform = "boss" /\ at \in {"page", "again"}
  /\ \E failures \in IF at = "again" THEN {waf, waf + 1} ELSE {waf} :
       /\ waf' = failures
       /\ Reply(FALSE, IF failures >= 2 THEN "cookie_refresh_failed" ELSE "none", found)
  /\ UNCHANGED <<platform, listed, shifts, page, found, kept, gap>>

\* 51job: an empty page ends the list, and so does one without another
Job51Page ==
  LET jobs == found \cup Range(Page(page))
      ends == Page(page) = <<>> \/ ~(More(page) \/ Len(Page(page)) >= PageSize) \/ page = MaxPages
  IN /\ platform = "51job" /\ at = "page"
     /\ found' = jobs
     /\ gap' = IF gap = "none" /\ ends /\ More(page) THEN "limit" ELSE gap
     /\ IF ends THEN Reply(jobs # {}, "none", jobs) /\ UNCHANGED page
        ELSE page' = page + 1 /\ UNCHANGED <<at, answer, browser>>
     /\ UNCHANGED <<platform, listed, shifts, waf, kept>>

\* A page that classify_51job_response takes for the firewall's
Job51Blocked ==
  /\ platform = "51job" /\ at = "page"
  /\ waf' = waf + 1
  /\ Reply(FALSE, "waf", {})
  /\ UNCHANGED <<platform, listed, shifts, page, found, kept, gap>>

\* liepin: one request, for the first page
LiepinPage ==
  /\ platform = "liepin" /\ at = "page"
  /\ found' = Range(Page(1))
  /\ gap' = IF gap = "none" /\ More(1) THEN "limit" ELSE gap
  /\ IF found' = {} THEN Reply(FALSE, "empty_result", {}) ELSE Reply(TRUE, "none", found')
  /\ UNCHANGED <<platform, listed, shifts, page, waf, kept>>

\* A status other than 200, a page that is not JSON, a challenge
LiepinFails ==
  /\ platform = "liepin" /\ at = "page"
  /\ \E category \in {"xsrf", "challenge", "http_error", "parse_error"} : Reply(FALSE, category, {})
  /\ UNCHANGED <<platform, listed, shifts, page, found, waf, kept, gap>>

Next ==
  \/ \E j \in Job : Post(j) \/ Withdraw(j)
  \/ Start \/ Raise
  \/ BossPage \/ BossRefresh \/ BossFails
  \/ Job51Page \/ Job51Blocked
  \/ LiepinPage \/ LiepinFails

Spec == Init /\ [][Next]_vars

----------------------------------------------------------------------------
(* A crawl that answers with success has found every job that was listed   *)
(* from its beginning to its end, unless a limit cut the list off, or jobs *)
(* were withdrawn, so that others moved up to a page already seen.  In     *)
(* these cases process_job_results counts a miss for jobs that are listed. *)
NothingOverlooked ==
  at = "done" /\ answer.success /\ gap = "none" => kept \subseteq answer.jobs
=============================================================================
