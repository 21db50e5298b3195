--------------------------- MODULE CrawlTaskQueue ---------------------------
(***************************************************************************)
(* The durable crawl-task queue: API processes insert rows into            *)
(* crawl_tasks, worker processes (workers/crawler.py) claim and execute    *)
(* them (workers/executor.py), a heartbeat coroutine renews the lease of   *)
(* each task being executed, and every worker (and the API when it starts) *)
(* fails the RUNNING rows whose lease has expired.                         *)
(*                                                                         *)
(* Only the claim locks its row (FOR UPDATE SKIP LOCKED).  Every other     *)
(* transaction is a plain SELECT followed, at commit, by an UPDATE of the  *)
(* columns it changed; it is two actions here, "...Load" and "...Commit",  *)
(* and anything may happen between them.                                   *)
(***************************************************************************)
EXTENDS CrawlTaskRecord, FiniteSets

CONSTANTS
  Task,              \* the tasks, numbered in (created_at, id) order
  Api,               \* the API process, which recovers stale rows at startup
  Serves,            \* Serves[w]: the tasks matching w's --kind and --platform
  Concurrency,       \* settings.crawler_worker_concurrency
  MultiConfig,       \* the job_platform_profile tasks with several configs
  TimelyHeartbeats,  \* no lease expires while its heartbeat coroutine runs
  WorkersCrash       \* worker processes may die without cleaning up

ASSUME TaskAssumption == Task \subseteq Nat
ASSUME ApiAssumption == Api \notin Worker
ASSUME ServesAssumption == Serves \in [Worker -> SUBSET Task]
ASSUME ConcurrencyAssumption == Concurrency \in Nat \ {0}
ASSUME MultiConfigAssumption == MultiConfig \subseteq Task
ASSUME ModeAssumption == TimelyHeartbeats \in BOOLEAN /\ WorkersCrash \in BOOLEAN

Maintainer == Worker \cup {Api}

VARIABLES
  row,       \* row[t]: the crawl_tasks row of t
  up,        \* up[w]: the worker process is running
  pc,        \* pc[w][t]: where w's execute_claimed_task coroutine for t stands
  runtime,   \* runtime[w][t]: status of the in-memory CrawlTask
  loaded,    \* loaded[w][t]: the row as that coroutine's open session loaded it
  beat,      \* beat[w][t]: w's run_task_heartbeat coroutine for t
  selected,  \* selected[m]: the stale rows m has loaded and not yet committed
  seen,      \* seen[m][t]: those rows as m loaded them
  grants     \* grants[t]: how often t has been claimed (history)

executor == <<pc, runtime, loaded>>
maintenance == <<selected, seen>>
vars == <<row, up, pc, runtime, loaded, beat, selected, seen, grants>>

(* "starting": before the try block; "claimed": before the profile lease;   *)
(* "crawling": under it, or no profile needed; "saving...": in              *)
(* progress_callback, between db.get and commit, with the state it returns  *)
(* to, or in the except handler ("Error"); "logging": emitting the final    *)
(* event; "requeueing": in requeue_claimed_task; "closing": only the        *)
(* finally block is left.                                                   *)
PC == {"off", "starting", "claimed", "crawling", "savingClaimed", "savingCrawling",
       "savingFinal", "logging", "savingError", "requeueing", "closing"}
Saving == {"savingClaimed", "savingCrawling", "savingFinal", "savingError"}
Beat == {"off", "on", "renewing"}

\* w's coroutine for t is still at work on the task.
Executing(w, t) == pc[w][t] \notin {"off", "closing"}

TypeOK ==
  /\ row \in [Task -> Row]
  /\ up \in [Worker -> BOOLEAN]
  /\ pc \in [Worker -> [Task -> PC]]
  /\ runtime \in [Worker -> [Task -> Status]]
  /\ loaded \in [Worker -> [Task -> Row]]
  /\ beat \in [Worker -> [Task -> Beat]]
  /\ selected \in [Maintainer -> SUBSET Task]
  /\ seen \in [Maintainer -> [Task -> Row]]
  /\ grants \in [Task -> Nat]

Init ==
  /\ row = [t \in Task |-> AbsentRow]
  /\ up = [w \in Worker |-> FALSE]
  /\ pc = [w \in Worker |-> [t \in Task |-> "off"]]
  /\ runtime = [w \in Worker |-> [t \in Task |-> "absent"]]
  /\ loaded = [w \in Worker |-> [t \in Task |-> AbsentRow]]
  /\ beat = [w \in Worker |-> [t \in Task |-> "off"]]
  /\ selected = [m \in Maintainer |-> {}]
  /\ seen = [m \in Maintainer |-> [t \in Task |-> AbsentRow]]
  /\ grants = [t \in Task |-> 0]

---------------------------------------------------------------------------
(* Submission and claiming                                                 *)

Submit(t) ==
  /\ row[t].status = "absent"
  /\ row' = [row EXCEPT ![t] = NewRow]
  /\ UNCHANGED <<up, executor, beat, maintenance, grants>>

\* run_worker up to its main loop.
StartWorker(w) ==
  /\ ~up[w]
  /\ up' = [up EXCEPT ![w] = TRUE]
  /\ UNCHANGED <<row, executor, beat, maintenance, grants>>

\* Some open transaction may be holding t's row lock, so that SKIP LOCKED
\* passes over it.
MayBeLocked(t) ==
  \/ \E w \in Worker : \/ pc[w][t] \in Saving \cup {"requeueing"}
                       \/ beat[w][t] = "renewing"
  \/ \E m \in Maintainer : t \in selected[m]

\* One round of _claim_until_capacity: the oldest claimable row goes to w,
\* whose main loop is not in the middle of its maintenance.
Claim(w, t) ==
  /\ up[w]
  /\ selected[w] = {}
  /\ Cardinality({u \in Task : pc[w][u] # "off"}) < Concurrency
  /\ t \in Serves[w]
  /\ Claimable(row[t])
  /\ \A u \in Serves[w] : u < t /\ Claimable(row[u]) => MayBeLocked(u)
  /\ row' = [row EXCEPT ![t] = Claimed(row[t], w)]
  /\ grants' = [grants EXCEPT ![t] = @ + 1]
  /\ pc' = [pc EXCEPT ![w][t] = "starting"]
  /\ runtime' = [runtime EXCEPT ![w][t] = "running"]
  /\ UNCHANGED <<up, loaded, beat, maintenance>>

---------------------------------------------------------------------------
(* The execute_claimed_task coroutine                                      *)

Goto(w, t, state) == pc' = [pc EXCEPT ![w][t] = state]

\* db.get at the start of _persist: the session now holds the row as it is.
Load(w, t) == loaded' = [loaded EXCEPT ![w][t] = row[t]]

\* The claim is logged, the heartbeat coroutine created, the try block entered.
Begin(w, t) ==
  /\ pc[w][t] = "starting"
  /\ Goto(w, t, "claimed")
  /\ beat' = [beat EXCEPT ![w][t] = "on"]
  /\ UNCHANGED <<row, up, runtime, loaded, maintenance, grants>>

\* The profile lease is acquired (or the task type needs none).
EnterCrawl(w, t) ==
  /\ pc[w][t] = "claimed"
  /\ Goto(w, t, "crawling")
  /\ UNCHANGED <<row, up, runtime, loaded, beat, maintenance, grants>>

\* Seeded error: any runner may report RUNNING after a result.
ReportLoadAnyStatus(w, t, status) ==
  /\ \/ pc[w][t] = "claimed" /\ Goto(w, t, "savingClaimed")
     \/ pc[w][t] = "crawling" /\ Goto(w, t, "savingCrawling")
  /\ runtime' = [runtime EXCEPT ![w][t] = status]
  /\ Load(w, t)
  /\ UNCHANGED <<row, up, beat, maintenance, grants>>

\* A runner sets task.status and calls progress_callback.  Only a child task
\* with several configs goes back to RUNNING after a terminal status.
ReportLoad(w, t, status) ==
  /\ \/ /\ pc[w][t] = "claimed"
        /\ status = "running"
        /\ Goto(w, t, "savingClaimed")
     \/ /\ pc[w][t] = "crawling"
        /\ status = "running" => runtime[w][t] = "running" \/ t \in MultiConfig
        /\ Goto(w, t, "savingCrawling")
  /\ runtime' = [runtime EXCEPT ![w][t] = status]
  /\ Load(w, t)
  /\ UNCHANGED <<row, up, beat, maintenance, grants>>

\* The dispatched function returned.
FinishLoad(w, t, status) ==
  /\ pc[w][t] \in {"claimed", "crawling"}
  /\ runtime[w][t] # "running" => status \in {runtime[w][t], "failed"}
  /\ runtime' = [runtime EXCEPT ![w][t] = status]
  /\ Goto(w, t, "savingFinal")
  /\ Load(w, t)
  /\ UNCHANGED <<row, up, beat, maintenance, grants>>

AfterSave(state) ==
  CASE state = "savingClaimed"  -> "claimed"
    [] state = "savingCrawling" -> "crawling"
    [] state = "savingFinal"    -> "logging"
    [] state = "savingError"    -> "closing"

\* The commit of sync_record_from_runtime_task.
SaveCommit(w, t) ==
  /\ pc[w][t] \in Saving
  /\ row' = [row EXCEPT ![t] =
       Flush(loaded[w][t], Synced(loaded[w][t], runtime[w][t]), row[t])]
  /\ Goto(w, t, AfterSave(pc[w][t]))
  /\ loaded' = [loaded EXCEPT ![w][t] = AbsentRow]
  /\ UNCHANGED <<up, runtime, beat, maintenance, grants>>

\* Whatever raises inside the try block, a crawl, a save (rolled back) or the
\* final event: the except handler persists FAILED.
Raise(w, t) ==
  /\ pc[w][t] \in {"claimed", "crawling", "logging"} \cup (Saving \ {"savingError"})
  /\ runtime' = [runtime EXCEPT ![w][t] = "failed"]
  /\ Goto(w, t, "savingError")
  /\ Load(w, t)
  /\ UNCHANGED <<row, up, beat, maintenance, grants>>

\* In a batch of configs gather collects a failed save, and the batch goes on.
SaveSkipped(w, t) ==
  /\ pc[w][t] = "savingCrawling"
  /\ t \in MultiConfig
  /\ Goto(w, t, "crawling")
  /\ loaded' = [loaded EXCEPT ![w][t] = AbsentRow]
  /\ UNCHANGED <<row, up, runtime, beat, maintenance, grants>>

\* ProfileAlreadyLeasedError: the SELECT of requeue_claimed_task, which does
\* nothing more when the row is no longer held.
RequeueLoad(w, t) ==
  /\ pc[w][t] = "claimed"
  /\ IF HeldBy(row[t], w)
       THEN Goto(w, t, "requeueing") /\ Load(w, t)
       ELSE Goto(w, t, "closing") /\ UNCHANGED loaded
  /\ UNCHANGED <<row, up, runtime, beat, maintenance, grants>>

RequeueCommit(w, t) ==
  /\ pc[w][t] = "requeueing"
  /\ row' = [row EXCEPT ![t] =
       Flush(loaded[w][t], Requeued(loaded[w][t]), row[t])]
  /\ Goto(w, t, "closing")
  /\ loaded' = [loaded EXCEPT ![w][t] = AbsentRow]
  /\ UNCHANGED <<up, runtime, beat, maintenance, grants>>

\* An error before the try block or inside an except handler escapes the
\* coroutine, which ends without having written the row.
ExecutionDies(w, t) ==
  /\ pc[w][t] \in {"starting", "savingError", "requeueing"}
  /\ Goto(w, t, "closing")
  /\ loaded' = [loaded EXCEPT ![w][t] = AbsentRow]
  /\ UNCHANGED <<row, up, runtime, beat, maintenance, grants>>

\* The finally block cancels the heartbeat, and the main loop collects the
\* finished task.
Close(w, t) ==
  /\ pc[w][t] \in {"logging", "closing"}
  /\ Goto(w, t, "off")
  /\ beat' = [beat EXCEPT ![w][t] = "off"]
  /\ runtime' = [runtime EXCEPT ![w][t] = "absent"]
  /\ UNCHANGED <<row, up, loaded, maintenance, grants>>

---------------------------------------------------------------------------
(* The run_task_heartbeat coroutine                                        *)

BeatLoad(w, t) ==
  /\ beat[w][t] = "on"
  /\ beat' = [beat EXCEPT ![w][t] =
                IF HeldBy(row[t], w) THEN "renewing" ELSE "off"]
  /\ UNCHANGED <<row, up, executor, maintenance, grants>>

\* The new lease_until always differs from the loaded one, so it is always
\* written, whatever the row has become.
BeatCommit(w, t) ==
  /\ beat[w][t] = "renewing"
  /\ row' = [row EXCEPT ![t] = Renewed(row[t])]
  /\ beat' = [beat EXCEPT ![w][t] = "on"]
  /\ UNCHANGED <<up, executor, maintenance, grants>>

\* run_task_heartbeat has no try: a database error ends it for good.
BeatDies(w, t) ==
  /\ ~TimelyHeartbeats
  /\ beat[w][t] # "off"
  /\ beat' = [beat EXCEPT ![w][t] = "off"]
  /\ UNCHANGED <<row, up, executor, maintenance, grants>>

---------------------------------------------------------------------------
(* Time                                                                    *)

LeaseExpires(t) ==
  /\ row[t].lease = "valid"
  /\ TimelyHeartbeats =>
       \A w \in Worker : beat[w][t] = "off" /\ pc[w][t] # "starting"
  /\ row' = [row EXCEPT ![t].lease = "expired"]
  /\ UNCHANGED <<up, executor, beat, maintenance, grants>>

\* available_at comes: the delay outlasts the end of the coroutine that
\* requeued the task.
DelayPasses(t) ==
  /\ row[t].deferred
  /\ \A w \in Worker : pc[w][t] # "closing"
  /\ row' = [row EXCEPT ![t].deferred = FALSE]
  /\ UNCHANGED <<up, executor, beat, maintenance, grants>>

---------------------------------------------------------------------------
(* Maintenance: recover_stale_running_tasks, run by the workers' main      *)
(* loops and once by the API at startup                                    *)

RecoverLoad(m) ==
  LET stale == {t \in Task : Stale(row[t])} IN
  /\ m \in Worker => up[m]
  /\ selected[m] = {}
  /\ stale # {}
  /\ selected' = [selected EXCEPT ![m] = stale]
  /\ seen' = [seen EXCEPT ![m] =
                [t \in Task |-> IF t \in stale THEN row[t] ELSE AbsentRow]]
  /\ UNCHANGED <<row, up, executor, beat, grants>>

ForgetSelection(m) ==
  /\ selected' = [selected EXCEPT ![m] = {}]
  /\ seen' = [seen EXCEPT ![m] = [t \in Task |-> AbsentRow]]

RecoverCommit(m) ==
  /\ selected[m] # {}
  /\ row' = [t \in Task |->
               IF t \in selected[m]
                 THEN Flush(seen[m][t], Recovered(seen[m][t]), row[t])
                 ELSE row[t]]
  /\ ForgetSelection(m)
  /\ UNCHANGED <<up, executor, beat, grants>>

---------------------------------------------------------------------------
(* Processes that stop                                                     *)

ProcessGone(w) ==
  /\ up[w]
  /\ up' = [up EXCEPT ![w] = FALSE]
  /\ pc' = [pc EXCEPT ![w] = [t \in Task |-> "off"]]
  /\ runtime' = [runtime EXCEPT ![w] = [t \in Task |-> "absent"]]
  /\ loaded' = [loaded EXCEPT ![w] = [t \in Task |-> AbsentRow]]
  /\ beat' = [beat EXCEPT ![w] = [t \in Task |-> "off"]]
  /\ ForgetSelection(w)
  /\ UNCHANGED <<row, grants>>

\* SIGTERM, or an error in the main loop: the finally block of run_worker
\* cancels the active tasks.  execute_claimed_task does not catch
\* CancelledError, so the rows stay as they are.
Shutdown(w) == ProcessGone(w)

Crash(w) == WorkersCrash /\ ProcessGone(w)

\* The API dies during its startup recovery.
ApiRestart ==
  /\ selected[Api] # {}
  /\ ForgetSelection(Api)
  /\ UNCHANGED <<row, up, executor, beat, grants>>

---------------------------------------------------------------------------
Report(w, t) == \E s \in {"running", "completed", "failed"} : ReportLoad(w, t, s)
Finish(w, t) == \E s \in TerminalStatus : FinishLoad(w, t, s)

Execute(w, t) ==
  \/ Begin(w, t)
  \/ EnterCrawl(w, t)
  \/ Report(w, t)
  \/ Finish(w, t)
  \/ SaveCommit(w, t)
  \/ Raise(w, t)
  \/ SaveSkipped(w, t)
  \/ RequeueLoad(w, t)
  \/ RequeueCommit(w, t)
  \/ ExecutionDies(w, t)
  \/ Close(w, t)

Heartbeat(w, t) == BeatLoad(w, t) \/ BeatCommit(w, t) \/ BeatDies(w, t)

Next ==
  \/ \E t \in Task : Submit(t) \/ LeaseExpires(t) \/ DelayPasses(t)
  \/ \E w \in Worker : StartWorker(w) \/ Shutdown(w) \/ Crash(w)
  \/ \E w \in Worker, t \in Task : Claim(w, t) \/ Execute(w, t) \/ Heartbeat(w, t)
  \/ \E m \in Maintainer : RecoverLoad(m) \/ RecoverCommit(m)
  \/ ApiRestart

Spec == Init /\ [][Next]_vars

---------------------------------------------------------------------------
(* Fairness.  A live worker's coroutines are scheduled, every crawl ends    *)
(* (page and network timeouts), the clock advances, and a stopped worker is *)
(* started again.  Processes may stop over and over, but not so that none   *)
(* of the workers ever gets through a claim, an execution or a recovery:    *)
(* strong fairness for what a stop can disable, for the workers together.   *)
Fairness ==
  /\ \A w \in Worker : WF_vars(StartWorker(w))
  /\ SF_vars(\E w \in Worker : RecoverLoad(w))
  /\ SF_vars(\E w \in Worker : RecoverCommit(w))
  /\ \A t \in Task :
       /\ SF_vars(\E w \in Worker : Claim(w, t))
       /\ SF_vars(\E w \in Worker : Finish(w, t))
       /\ WF_vars(LeaseExpires(t)) /\ WF_vars(DelayPasses(t))
  /\ \A w \in Worker, t \in Task :
       /\ WF_vars(Begin(w, t) \/ SaveCommit(w, t) \/ RequeueCommit(w, t) \/ Close(w, t))
       /\ WF_vars(BeatLoad(w, t) \/ BeatCommit(w, t))

FairSpec == Spec /\ Fairness

---------------------------------------------------------------------------
(* Safety, whatever the timing                                             *)

\* Two workers never execute the same task at once, and a row on offer
\* (PENDING) is being executed by nobody.  The claim locks its row; all the
\* other writers work on rows they loaded earlier.
ExclusiveExecution ==
  \A t \in Task, w \in Worker :
    Executing(w, t) => /\ row[t].status \notin {"absent", "pending"}
                       /\ \A v \in Worker \ {w} : ~Executing(v, t)

\* A lock is only ever found on a RUNNING row: no interleaving of a save, a
\* requeue, a recovery and a heartbeat leaves locked_by on another row.
LockedIsRunning ==
  \A t \in Task : row[t].lockedBy # NoWorker => row[t].status = "running"

\* A PENDING row can still be claimed: no row is left on offer with its
\* attempts used up, where the claim would skip it for ever.
PendingIsClaimable ==
  \A t \in Task : row[t].status = "pending" => row[t].attempts < MaxRequeue

\* crawler_task_max_requeue_attempts bounds how often a task is executed,
\* over requeues, recoveries, crashes and lost updates.
GrantsBounded == \A t \in Task : grants[t] <= MaxRequeue

(* Safety when heartbeats are timely and no task has several configs       *)

\* Until a worker itself reports a result, the row of the task it executes
\* stays RUNNING and locked by it.
ExecutorHoldsLock ==
  \A t \in Task, w \in Worker :
    Executing(w, t) /\ runtime[w][t] = "running" => HeldBy(row[t], w)

\* A task that has a result never goes back to PENDING or RUNNING.
NoResurrection ==
  [][\A t \in Task : Terminal(row[t]) => Terminal(row'[t])]_vars

\* Only its own coroutine ends a task that is being executed: maintenance
\* never fails a row between the load and the commit of a living executor.
NoFalseRecovery ==
  [][\A t \in Task, w \in Worker :
       /\ Executing(w, t)
       /\ row[t].status = "running"
       /\ Terminal(row'[t])
       => pc'[w][t] # pc[w][t]]_vars

(* Liveness                                                                *)

\* A RUNNING row without a lease that nobody executes: no recovery selects it.
\* A batch leaves it so when its worker dies after the first config; so does
\* any task that was failed under its executor and then reported RUNNING.
Orphaned(t) ==
  /\ t \in MultiConfig \/ ~TimelyHeartbeats
  /\ row[t].status = "running" /\ row[t].lease = "none"
  /\ \A w \in Worker : pc[w][t] = "off"

\* Every submitted task gets a result, although workers stop and restart, or
\* is orphaned in one of the two ways above: it is not left PENDING, nor
\* RUNNING under a lease.
EveryTaskSettles ==
  \A t \in Task : row[t].status # "absent" ~> Terminal(row[t]) \/ Orphaned(t)

\* A RUNNING row that nobody executes leaves RUNNING.
OrphanIsRecovered ==
  \A t \in Task :
    row[t].status = "running" /\ (\A w \in Worker : pc[w][t] = "off")
      ~> row[t].status # "running" \/ \E w \in Worker : pc[w][t] # "off"

---------------------------------------------------------------------------
(* The abstract queue this module implements.                              *)

\* The worker whose coroutine is at work on each task.
taskHolder ==
  [t \in Task |-> IF \E w \in Worker : Executing(w, t)
                    THEN CHOOSE w \in Worker : Executing(w, t) ELSE NoWorker]

PhaseOf(status) ==
  CASE status = "absent"  -> "absent"
    [] status = "pending" -> "waiting"
    [] OTHER              -> "over"

\* A RUNNING row that nobody executes is over: it can only fail.
taskPhase ==
  [t \in Task |-> IF \E w \in Worker : Executing(w, t)
                    THEN "held" ELSE PhaseOf(row[t].status)]

Retry == INSTANCE BoundedRetryQueue WITH
  Limit <- MaxRequeue, granted <- grants, holder <- taskHolder, phase <- taskPhase

\* Every behaviour of the queue is one of the abstract queue: exclusive
\* grants, at most MaxRequeue of them, none after the holder is gone.
ImplementsRetryQueue == Retry!Spec
=============================================================================
