----------------------------- MODULE JobDetails -----------------------------
(***************************************************************************)
(* The detail loop at the end of crawl_service.process_job_results: jobs   *)
(* without a description are requested one after the other, failures are   *)
(* counted by kind, and what failed in a way worth retrying is requested   *)
(* once more after a pause.  Each success is a commit of its own.          *)
(***************************************************************************)
EXTENDS Naturals, Sequences

CONSTANTS
  Detail,         \* number of jobs without a description: job i is the i-th
  WafLimit,       \* DETAIL_WAF_BLOCK_LIMIT
  TimeoutLimit,   \* DETAIL_TIMEOUT_LIMIT
  CookieLimit,    \* cookie failures before a cool-down
  CooldownLimit   \* DETAIL_COOKIE_FAILURE_COOLDOWN_LIMIT

Job == 1..Detail
Outcome == {"success", "unavailable", "waf_block", "timeout", "cookie_retry", "retry"}

VARIABLES
  platform,  \* of the config
  pass,      \* "main", "retry", "done"
  at,        \* the next job of the main pass
  again,     \* retry_detail_jobs
  count,     \* the counters of the main pass
  described, \* the jobs whose description is stored
  first,     \* first[i]: the outcome of the first request for job i, or "none"
  repeated,  \* the jobs requested a second time
  bailed     \* why the main pass ended early, or "no"

vars == <<platform, pass, at, again, count, described, first, repeated, bailed>>

Zero == [cookie |-> 0, waf |-> 0, timeout |-> 0, cooldown |-> 0]

Init ==
  /\ platform \in {"boss", "51job", "liepin"}
  /\ pass = "main" /\ at = 1 /\ again = <<>>
  /\ count = Zero
  /\ described = {}
  /\ first = [i \in Job |-> "none"]
  /\ repeated = {}
  /\ bailed = "no"

\* _fetch_single_job_detail: wait_for may run out, an exception is a retry,
\* and the rest depends on the error that the adapter reports.
Answer(i, o) ==
  /\ o \in Outcome
  /\ o = "unavailable" => platform = "liepin"
  /\ described' = IF o = "success" THEN described \cup {i} ELSE described

\* The counters after outcome o, before a cool-down.
Tally(o) ==
  CASE o \in {"success", "unavailable"} ->
         [count EXCEPT !.cookie = 0, !.waf = 0, !.timeout = 0]
    [] o = "waf_block" -> [count EXCEPT !.waf = @ + 1]
    [] o = "timeout" -> [count EXCEPT !.cookie = @ + 1, !.timeout = @ + 1]
    [] o = "cookie_retry" -> [count EXCEPT !.cookie = @ + 1, !.waf = 0]
    [] o = "retry" -> [count EXCEPT !.cookie = 0, !.waf = 0]

\* Seeded error: a WAF block counts, but the pass goes on.
BailExceptOnBlock(o) ==
  LET t == Tally(o)
  IN CASE o = "timeout" /\ t.timeout >= TimeoutLimit -> "timeout"
       [] o = "cookie_retry" /\ t.cookie >= CookieLimit /\ t.cooldown >= CooldownLimit -> "cookie"
       [] OTHER -> "no"

\* Whether the main pass ends early: only after a cookie failure are the
\* cookie failures looked at.
Bail(o) ==
  LET t == Tally(o)
  IN CASE o = "waf_block" /\ platform = "51job" /\ t.waf >= WafLimit -> "waf"
       [] o = "timeout" /\ t.timeout >= TimeoutLimit -> "timeout"
       [] o = "cookie_retry" /\ t.cookie >= CookieLimit /\ t.cooldown >= CooldownLimit -> "cookie"
       [] OTHER -> "no"

CoolsDown(o) == o = "cookie_retry" /\ Tally(o).cookie >= CookieLimit /\ Bail(o) = "no"

MainPass(o) ==
  /\ pass = "main" /\ at <= Detail
  /\ Answer(at, o)
  /\ first' = [first EXCEPT ![at] = o]
  /\ count' = IF CoolsDown(o)
              THEN [Tally(o) EXCEPT !.cookie = 0, !.cooldown = @ + 1] ELSE Tally(o)
  /\ again' = IF o \in {"cookie_retry", "retry"} THEN Append(again, at) ELSE again
  /\ at' = at + 1
  /\ bailed' = Bail(o)
  /\ pass' = IF Bail(o) # "no" \/ at = Detail THEN "retry" ELSE "main"
  /\ UNCHANGED <<platform, repeated>>

\* The pass runs after a bail-out, too; its outcomes only end up in the log.
RetryPass(o) ==
  /\ pass = "retry" /\ again # <<>>
  /\ Answer(Head(again), o)
  /\ repeated' = repeated \cup {Head(again)}
  /\ again' = Tail(again)
  /\ UNCHANGED <<platform, pass, at, count, first, bailed>>

\* The end of the retry pass, or an exception or the death of the worker.
Leave ==
  /\ pass # "done"
  /\ pass' = "done"
  /\ UNCHANGED <<platform, at, again, count, described, first, repeated, bailed>>

Next ==
  \/ \E o \in Outcome : MainPass(o) \/ RetryPass(o)
  \/ Leave

Spec == Init /\ [][Next]_vars

---------------------------------------------------------------------------
(* Properties                                                              *)

\* No job is requested a third time, and none a second time unless its first
\* request failed in a way worth retrying.  After the main pass has bailed
\* out, or 51job has blocked a request, only such second requests are made.
RequestsAreJustified ==
  [][\A i \in Job :
       /\ first'[i] # first[i] =>
            /\ first[i] = "none" /\ bailed = "no"
            /\ platform = "51job" => \A j \in Job : first[j] # "waf_block"
       /\ i \in repeated' \ repeated => first[i] \in {"retry", "cookie_retry"}
       /\ i \in repeated /\ again # <<>> => i # Head(again)]_vars
=============================================================================
