--------------------------- MODULE PlatformDetails ---------------------------
(***************************************************************************)
(* The requests for job details after a search: crawl_detail of the three  *)
(* adapters under the wait_for of crawl_service._fetch_single_job_detail.  *)
(* wait_for gives up after 15 seconds; a thread of asyncio.to_thread goes  *)
(* on nevertheless, next to the one of the next request, and both use the  *)
(* adapter's one browser.  JobDetails counts the outcomes.                 *)
(***************************************************************************)
EXTENDS Naturals

CONSTANTS
  Wanted,   \* number of details requested: the loop awaits one after the other
  None

Request == 1..Wanted

VARIABLES
  platform,
  thread,   \* where the thread of request i is
  outcome,  \* outcome[i]: what _fetch_single_job_detail returned, or None
  cookies,  \* whether _ensure_cookies_sync has nothing to do
  context,  \* _cloak_context: the request whose thread has launched it, or None
  page,     \* _cloak_page, by the same
  left,     \* browsers that run, but that the adapter no longer knows
  late      \* history variable: the requests that were given up, or got a
            \* browser without a page

vars == <<platform, thread, outcome, cookies, context, page, left, late>>

Init ==
  /\ platform \in {"boss", "51job", "liepin"}
  /\ thread = [i \in Request |-> "none"]
  /\ outcome = [i \in Request |-> None]
  /\ cookies \in IF platform = "51job" THEN BOOLEAN ELSE {TRUE}
  /\ context = None /\ page = None /\ left = {}
  /\ late = {}

Goto(i, at) == thread' = [thread EXCEPT ![i] = at]

\* The result of the thread, by which the request is classified unless it
\* was given up
Result(i, o) ==
  /\ Goto(i, "ended")
  /\ outcome' = IF outcome[i] = None THEN [outcome EXCEPT ![i] = o] ELSE outcome

Running(i) == thread[i] \notin {"none", "ended"}

\* The detail loop: the next request, once the last one has its outcome
Ask(i) ==
  /\ thread[i] = "none"
  /\ \A j \in 1..(i - 1) : outcome[j] # None
  /\ Goto(i, IF platform = "51job" /\ ~cookies THEN "launch to refresh" ELSE "request")
  /\ UNCHANGED <<platform, outcome, cookies, context, page, left, late>>

\* wait_for: the request is given up, its thread is not.  liepin requests
\* on the event loop itself, where nothing can run out.
TimeOut(i) ==
  /\ Running(i) /\ outcome[i] = None /\ platform # "liepin"
  /\ outcome' = [outcome EXCEPT ![i] = "timeout"]
  /\ late' = late \cup {i}
  /\ UNCHANGED <<platform, thread, cookies, context, page, left>>

----------------------------------------------------------------------------
(* boss and liepin, which do without a browser here.                       *)

\* boss: an anti-bot code asks for fresh cookies, but the search has closed
\* the browser, so that _refresh_cookies raises
BossAnswer(i) ==
  /\ platform = "boss" /\ thread[i] = "request"
  /\ \E o \in {"success", "retry"} : Result(i, o)
  /\ UNCHANGED <<platform, cookies, context, page, left, late>>

\* liepin: two addresses of the job, each with a description, a redirect
\* shell without one, or anything else
LiepinAnswer(i) ==
  /\ platform = "liepin" /\ thread[i] = "request"
  /\ \E first, second \in {"detail", "shell", "other"} :
       Result(i, IF "detail" \in {first, second} THEN "success"
                 ELSE IF first = "shell" /\ second = "shell" THEN "unavailable"
                 ELSE "retry")
  /\ UNCHANGED <<platform, cookies, context, page, left, late>>

----------------------------------------------------------------------------
(* 51job, with a browser for its cookies and behind the firewall.          *)

Job51Answer(i) ==
  /\ platform = "51job" /\ thread[i] = "request"
  /\ \/ \E o \in {"success", "retry"} : Result(i, o)
     \/ Goto(i, "launch to visit") /\ UNCHANGED outcome
  /\ UNCHANGED <<platform, cookies, context, page, left, late>>

Then(i) == IF thread[i] \in {"launch to refresh", "launched to refresh"} THEN "refresh" ELSE "visit"

\* _start_browser: a context that is there is used ...
ShareBrowser(i) ==
  /\ thread[i] \in {"launch to refresh", "launch to visit"} /\ context # None
  /\ Goto(i, Then(i))
  /\ UNCHANGED <<platform, outcome, cookies, context, page, left, late>>

\* ... and if there is none, one is launched, which takes its time
BeginLaunch(i) ==
  /\ thread[i] \in {"launch to refresh", "launch to visit"} /\ context = None
  /\ Goto(i, IF Then(i) = "refresh" THEN "launched to refresh" ELSE "launched to visit")
  /\ UNCHANGED <<platform, outcome, cookies, context, page, left, late>>

Forgotten == IF context = None THEN {} ELSE {context}

\* A launch that ends after another's replaces its context
Launched(i) ==
  /\ thread[i] \in {"launched to refresh", "launched to visit"}
  /\ context' = i /\ left' = left \cup Forgotten
  /\ \/ page' = i /\ Goto(i, Then(i)) /\ UNCHANGED <<outcome, late>>
     \/ /\ Result(i, "retry")                     \* new_page raises
        /\ late' = late \cup {i} /\ UNCHANGED page
  /\ UNCHANGED <<platform, cookies>>

LaunchFails(i) ==
  /\ thread[i] \in {"launched to refresh", "launched to visit"}
  /\ Result(i, "retry")
  /\ UNCHANGED <<platform, cookies, context, page, left, late>>

\* _refresh_cookies_for_detail_sync; only the thread that has opened a page
\* can use it
Refresh(i) ==
  /\ thread[i] = "refresh"
  /\ \/ page = i /\ Goto(i, "close to request") /\ cookies' = TRUE
     \/ Goto(i, "close after error") /\ cookies' \in {cookies, cookies \/ page = i}
  /\ UNCHANGED <<platform, outcome, context, page, left, late>>

\* Seeded error: an error leaves the browser open.
VisitNotClosing(i) ==
  /\ thread[i] = "visit"
  /\ \/ page = i /\ \E at \in {"close with detail", "close after block"} : Goto(i, at) /\ UNCHANGED outcome
     \/ Result(i, "retry")
  /\ UNCHANGED <<platform, cookies, context, page, left, late>>

\* _crawl_detail_via_cloak_sync
Visit(i) ==
  /\ thread[i] = "visit"
  /\ \/ page = i /\ \E at \in {"close with detail", "close after block"} : Goto(i, at)
     \/ Goto(i, "close after error")
  /\ cookies' \in {cookies, cookies \/ page = i}
  /\ UNCHANGED <<platform, outcome, context, page, left, late>>

ResultOf(at) ==
  CASE at = "close with detail" -> "success"
    [] at = "close after block" -> "waf_block"
    [] at = "close after error" -> "retry"

\* _close_browser_sync, in a finally clause: the context is forgotten, even
\* if it is another thread's and does not close
Close(i) ==
  /\ thread[i] \in {"close to request", "close with detail", "close after block", "close after error"}
  /\ context' = None /\ page' = None
  /\ left' \in IF context \in {None, i} THEN {left} ELSE {left, left \cup {context}}
  /\ IF thread[i] = "close to request" THEN Goto(i, "request") /\ UNCHANGED outcome
     ELSE Result(i, ResultOf(thread[i]))
  /\ UNCHANGED <<platform, cookies, late>>

Next ==
  \E i \in Request :
    \/ Ask(i) \/ TimeOut(i)
    \/ BossAnswer(i) \/ LiepinAnswer(i) \/ Job51Answer(i)
    \/ ShareBrowser(i) \/ BeginLaunch(i) \/ Launched(i) \/ LaunchFails(i)
    \/ Refresh(i) \/ Visit(i) \/ Close(i)

Spec == Init /\ [][Next]_vars

----------------------------------------------------------------------------
(* Properties                                                              *)

\* Unless a request is given up, or a page does not open in a new browser,
\* every browser is closed once the requests have ended: the adapter has none
\* left, and none runs that it has lost sight of.
BrowserIsClosed ==
  late = {} /\ (\A i \in Request : ~Running(i)) => left = {} /\ context = None
=============================================================================
