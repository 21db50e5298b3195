-------------------------- MODULE CrawlTaskRecord --------------------------
(***************************************************************************)
(* One row of the crawl_tasks table (models/crawl_task.py) and what each   *)
(* function of domains/crawling/task_store.py assigns to it.  The          *)
(* operators are pure: a module that models processes decides when a row   *)
(* is loaded, changed and committed.                                       *)
(*                                                                         *)
(* Columns kept: status, locked_by, lease_until, attempt_count and         *)
(* available_at.  The two timestamps are compared with the clock only      *)
(* (lease_until < now, available_at <= now), so each is represented by     *)
(* the outcome of that comparison: lease is "none" (NULL), "valid" or      *)
(* "expired"; deferred says that available_at lies in the future.          *)
(***************************************************************************)
EXTENDS Naturals

CONSTANTS
  Worker,        \* worker ids that may appear in locked_by
  NoWorker,      \* locked_by IS NULL
  MaxRequeue     \* settings.crawler_task_max_requeue_attempts

ASSUME NoWorkerAssumption == NoWorker \notin Worker
ASSUME MaxRequeueAssumption == MaxRequeue \in Nat \ {0}

\* "absent": create_crawl_task_record has not inserted the row yet.
Status == {"absent", "pending", "running", "completed", "failed"}
TerminalStatus == {"completed", "failed"}
Lease == {"none", "valid", "expired"}

Row == [status   : Status,
        lockedBy : Worker \cup {NoWorker},
        lease    : Lease,
        attempts : 0..MaxRequeue,
        deferred : BOOLEAN]

AbsentRow == [status |-> "absent", lockedBy |-> NoWorker, lease |-> "none",
              attempts |-> 0, deferred |-> FALSE]

\* create_crawl_task_record: PENDING, no lock, no lease, no delay.
NewRow == [status |-> "pending", lockedBy |-> NoWorker, lease |-> "none",
           attempts |-> 0, deferred |-> FALSE]

Terminal(r) == r.status \in TerminalStatus

---------------------------------------------------------------------------
\* Seeded error: a claim that also takes over rows whose lease has expired.
ClaimableOrExpired(r) ==
  \/ r.status = "pending" /\ r.attempts < MaxRequeue /\ ~r.deferred
  \/ r.status = "running" /\ r.lease = "expired"

\* claim_next_pending_task: the WHERE clause, then the assignments.
Claimable(r) ==
  /\ r.status = "pending"
  /\ r.attempts < MaxRequeue
  /\ ~r.deferred

Claimed(r, w) ==
  [status |-> "running", lockedBy |-> w, lease |-> "valid",
   attempts |-> r.attempts, deferred |-> FALSE]

\* The WHERE clause shared by renew_task_lease_by_id and
\* requeue_claimed_task: still RUNNING, and still locked by this worker.
HeldBy(r, w) == r.status = "running" /\ r.lockedBy = w

Renewed(r) == [r EXCEPT !.lease = "valid"]

\* Seeded error: the limit is compared with > instead of >=.
RequeuedOnceTooOften(r) ==
  [status   |-> IF r.attempts + 1 > MaxRequeue THEN "failed" ELSE "pending",
   lockedBy |-> NoWorker,
   lease    |-> "none",
   attempts |-> r.attempts + 1,
   deferred |-> TRUE]

\* requeue_claimed_task: FAILED once the attempts are used up, otherwise
\* PENDING again after the profile-busy delay.
Requeued(r) ==
  LET n == r.attempts + 1 IN
  [status   |-> IF n >= MaxRequeue THEN "failed" ELSE "pending",
   lockedBy |-> NoWorker,
   lease    |-> "none",
   attempts |-> n,
   deferred |-> n < MaxRequeue]

\* Seeded error: lease_until < now is left out of the WHERE clause.
StaleWhileLeased(r) == r.status = "running" /\ r.lease # "none"

\* recover_stale_running_tasks: a NULL lease is never stale.
Stale(r) == r.status = "running" /\ r.lease = "expired"

\* Seeded error: locked_by is not reset.
RecoveredLocked(r) ==
  [status |-> "failed", lockedBy |-> r.lockedBy, lease |-> "none",
   attempts |-> r.attempts, deferred |-> FALSE]

\* Seeded error: the task is offered again instead of being failed.
RecoveredAsPending(r) ==
  [status |-> "pending", lockedBy |-> NoWorker, lease |-> "none",
   attempts |-> r.attempts, deferred |-> FALSE]

Recovered(r) ==
  [status |-> "failed", lockedBy |-> NoWorker, lease |-> "none",
   attempts |-> r.attempts, deferred |-> FALSE]

\* Seeded error: every save drops the lock, not only the terminal one.
SyncedUnlocking(r, status) ==
  [status |-> status, lockedBy |-> NoWorker, lease |-> "none",
   attempts |-> r.attempts, deferred |-> r.deferred]

\* sync_record_from_runtime_task: copies the in-memory status whatever the
\* row holds; a terminal status also drops the lock and the lease.
Synced(r, status) ==
  IF status \in TerminalStatus
    THEN [status |-> status, lockedBy |-> NoWorker, lease |-> "none",
          attempts |-> r.attempts, deferred |-> FALSE]
    ELSE [r EXCEPT !.status = status]

---------------------------------------------------------------------------
\* The SQLAlchemy unit of work: at commit, the columns whose assigned value
\* differs from the loaded one are written over whatever the row now holds.
Written(loaded, assigned, current) == IF assigned # loaded THEN assigned ELSE current

Flush(loaded, assigned, current) ==
  [status   |-> Written(loaded.status, assigned.status, current.status),
   lockedBy |-> Written(loaded.lockedBy, assigned.lockedBy, current.lockedBy),
   lease    |-> Written(loaded.lease, assigned.lease, current.lease),
   attempts |-> Written(loaded.attempts, assigned.attempts, current.attempts),
   deferred |-> Written(loaded.deferred, assigned.deferred, current.deferred)]
=============================================================================
