# Verification of the Mavra Monitor backend

TLA+ models of the Mavra Monitor backend, checked with TLC and proved with
TLAPS. Paths below are relative to the repository; `app/` abbreviates
`src/backend/app/`.

## 1. The system

Mavra Monitor is a FastAPI backend (`app/`), a Flutter client (`src/frontend`)
and a Next.js blog (`src/blog-frontend`). The backend crawls job platforms and
shops on behalf of users. One API process accepts requests and runs cron jobs;
any number of worker processes (`app/workers/crawler.py`) execute crawls. They
share nothing but a PostgreSQL database and a Redis, and coordinate through the
columns of three tables: `crawl_tasks`, `crawl_profiles`, `crawler_workers`.

### How a crawl runs

    API / cron -- create_crawl_task_record --> crawl_tasks (PENDING)
    worker     -- claim_next_pending_task ---> RUNNING, locked_by, lease_until
      executor: execute_claimed_task -> task_runner -> crawl_service
      beside it: run_task_heartbeat renews lease_until every 15 s
      job_all:  one child task per (platform, profile), parent releases its lease
      child:    acquires a crawl_profiles lease, crawls its configs, releases
      last child, or maintenance: aggregate_parent_task_if_children_finished
    every worker, every 60 s: _recover_runtime_state (expired leases -> FAILED)
    API at startup: recover_crawler_runtime_state (the same)

A task lease lasts 3600 s, so does a profile lease; a task may be requeued
because of a busy profile 5 times, each time 30 s later.

Only three transactions lock the row they change: the claim (`FOR UPDATE SKIP
LOCKED`), profile acquire/release and the parent's aggregation (`FOR UPDATE`).
All others are a plain SELECT, a change of attributes, and a commit whose UPDATE
carries the columns whose value changed. Between SELECT and commit another
transaction may have committed other values. This is the hard part of the
system, and the models keep the two halves apart.

Next to the crawls, the API process serves logins. A session is a row of
`users_sessions`; every protected request first reads and touches it
(`get_current_user`). Here most transactions do take row locks, on the user row
and on session rows, and the hard part is which locks, and in which order.

### Components

| Component | State | Operations | Hard behaviour | Correct when | Module |
|---|---|---|---|---|---|
| Task queue `domains/crawling/task_store.py` | `crawl_tasks` rows | submit, claim, save, renew, requeue, recover | unlocked writes of stale rows; leases; attempts | one executor per task; bounded claims; every task gets a result and keeps it | `CrawlTaskRecord`, `CrawlTaskQueue` |
| Worker `workers/crawler.py`, `workers/executor.py` | coroutines, in-memory `CrawlTask` | claim loop, execute, heartbeat, maintenance, SIGTERM | crashes, stalls, cancellation | the same, over restarts | `CrawlTaskQueue` |
| Task runner `domains/crawling/task_runner.py` | none of its own | report RUNNING and a result per config | several reports per task | reports do not end a task early | `CrawlTaskQueue`, `JobFanout` |
| Job fan-out `domains/jobs/crawl_service.py` | parent and child rows | fan out, wait, aggregate | children finish before the parent waits; three writers of the parent | the parent's result covers all children | `JobFanout` |
| Profile pool `domains/crawling/profile_pool.py` | `crawl_profiles` rows | acquire, release, recover | expiry under a crawl; unlocked recovery | one crawl per browser directory | `ProfilePool` |
| Profile administration `profile_service.py`, `profile_router.py` | rows, directories | create, enable, block, rename, delete, copy, release stale | check, then commit later | never frees or corrupts a leased row | `ProfilePool` |
| Profile runtime `profile_runtime_service.py` | `_sessions`, `_locks` of the API process | login browser, test, import, export | minutes between check and commit | exclusive use by operators | `ProfilePool` |
| Startup and maintenance `main.py` | -- | recover at startup | races with live workers | fails no living task | `CrawlTaskQueue` (maintainer `Api`) |
| Worker registry `worker_registry.py` | `crawler_workers` rows | register, heartbeat, stopping, mark offline | unlocked offline mark against a heartbeat | the row catches up with the process | `WorkerRegistry` |
| Cron scheduling `core/scheduler.py` and the domains' schedulers | in-memory jobs, cron columns | sync, add, remove, fire, restart | two stores changed one after the other | jobs match the rows | `Scheduling` |
| Price alerts `domains/crawling/service.py` | history, `last_notified_price` | save price, check alert, notify, clean up | overlapping crawls; notify before commit | compares with the price before; a drop is notified | `PriceAlerts` |
| Job results `domains/jobs/crawl_service.py` | `jobs`, miss counters | upsert, deduplicate, announce, deactivate | partial results, announcement before commit, two crawls of one config | no early deactivation, announced once | `JobResults` |
| Job details `domains/jobs/crawl_service.py` | outcomes | request, retry, bail out | blocks and retries | no request that is not justified | `JobDetails` |
| Match analysis `domains/jobs/match_service.py` | task rows, results | create, analyse, store, announce | total written after the task is claimable; edits under an analysis | progress adds up; results are up to date | `MatchAnalysis` |
| Platform adapters `platforms/` | browser, cookies, fuses | search by pages, details | a list that shifts; threads that outlive their timeout | nothing listed is overlooked; browsers are closed | `PlatformSearch`, `PlatformDetails` |
| Sessions `core/sessions.py`, `core/security.py`, `domains/auth/router.py` | `users_sessions` rows | login, refresh, check and touch, logout, change password, revoke | lock order; deletes of rows selected earlier; rotation by two requests at once | one session per account; a token is exchanged once; every request is answered | `UserSessions` |
| WeChat login `domains/auth/wechat_router.py` | states, one-time codes in two stores | callback, exchange, bind, register | Redis that fails, or knows no GETDEL | a code is answered once | `WeChatLogin` |
| Administration `domains/admin/service.py` | `users`, roles, grants | create, update, delete, restore, grant | decisions on counts read without a lock | the last super_admin stays | `Admin`, `UserSessions` |
| Login lockout `core/login_lockout.py` | a Redis counter per name | gate, record, clear | a check long before the count; two Redis commands | the counter is bounded, a lockout ends | `LoginLockout` |
| Config cache `core/user_config_cache.py` | Redis entries | fill, invalidate, expire | fill after invalidation | agrees with the row in the end | `UserConfigCache` |
| Blog `domains/blog` | posts, tags | draft, schedule, publish, delete | publisher against editors | no post is shown before its date | `Blog` |
| Smart home `domains/smart_home` | one WebSocket, queues | subscribe, switch, unsubscribe, save config | cancellations; a lock held while waiting | every open stream is served | `SmartHome` |
| Dashboard `domains/dashboard` | what was sent last, a cache | stream the KPIs | several tabs of one user | every tab gets a change | `DashboardStream` |
| Task registry `core/task_registry.py` | in-memory tasks | create, poll, collect | collection while polled | pollers see a result | statuses only |
| Event stream `core/event_stream.py` | queues | subscribe, publish | slow readers | -- | not modelled |
| `browser_manager.py` | -- | -- | used by tests only | -- | not modelled |
| Flutter client, Next.js blog | UI state | token refresh, realtime | reconnection | -- | not modelled |

`PROJECT.json` lists the hazards at their lines with the properties that cover
them, or why none does yet.

## 2. Modules

    CrawlTaskRecord          the crawl_tasks row and its transactions (operators)
      CrawlTaskQueue         workers, heartbeats, maintenance over those rows
        MCCrawlTaskQueue     instances for TLC
        CrawlTaskQueueProofs       invariants proved
          CrawlTaskQueueRefinement implements BoundedRetryQueue, proved
      JobFanout              a parent, its children and the aggregation
        MCJobFanout          a small instance for TLC
        JobFanoutProofs      invariants and an action property proved
    BoundedRetryQueue        abstract: exclusive, bounded grants
    ProfilePool              crawls, operators, maintenance on crawl_profiles
      ProfilePoolProofs      invariants proved
    PriceAlerts              product crawls and their alerts
    Scheduling               cron rows and scheduler jobs
    Blog                     posts, editors and the publisher
    SmartHome                streams that share a connection
      MCServices             small instances of these four and of ProfilePool
        ServicesProofs       their invariants proved
    JobResults               crawls of a config that store what they found
    JobDetails               the loop over the details of new jobs
    MatchAnalysis            analysis tasks over jobs that are edited
    PlatformSearch           the pages of a search
    PlatformDetails          the threads and browsers of detail requests
      MCJobs                 a small instance of each of these five
        JobsProofs           invariants and action properties proved
    LoginLockout             the counter of a login name
    WeChatLogin              scans and their one-time codes
    Admin                    administrators who edit users, roles and grants
    UserConfigCache          two processes' caches of a configuration
    WorkerRegistry           the rows of workers and their maintenance
      MCAccounts             a small instance of each of these five
        AccountsProofs       invariants and an action property proved
    UserSessions             the sessions of an account
      UserSessionsProofs     invariants and an action property proved
    DashboardStream          the KPI streams of a user

**The MC modules with `focus`** (`MCServices`, `MCJobs`, `MCAccounts`). Components
that share nothing need no joint state space. Each of these modules declares the
variables of several instances and a variable `focus` that no step changes; a behaviour moves the
instance that `focus` names, and the others keep one fixed initial state. The state
space is the sum of the instances' and not their product, and each instance is
checked as if alone. A property of an instance is the module's own
(`CodeAnsweredOnce == WeChat!CodeAnsweredOnce`); the fairness of an instance is
required only when it has the focus. The constants of the instances are constants of
the MC module: the cfg gives them small values, while the proofs, which extend the
MC module and speak of an instance's own `Spec` (`WeChat!Spec => []CodeAnsweredOnce`),
leave them open.

**CrawlTaskRecord.** The columns that control anything (`status`, `locked_by`,
`lease_until` as none / valid / expired, the attempt counter, `next_run_at`
as due or not) and what each transaction assigns: `Claimed`, `Renewed`, `Requeued`,
`Recovered`, `Synced`. `Flush(loaded, assigned, current)` is the ORM's UPDATE: a
column is written exactly when its assigned value differs from the loaded one.

**CrawlTaskQueue.** A worker's coroutine for a task has a program counter;
`...Load` and `...Commit` actions are the SELECT and the commit of an unlocked
transaction, with the loaded row kept in between (`loaded` for the executor,
`seen` for maintenance). Claims are one action because the row is locked.
`Raise` is any error in the `try` block of `execute_claimed_task`; `Crash` loses
all coroutines; `Shutdown` is SIGTERM, which cancels them. `MultiConfig` names
the tasks whose `run_job_config` reports a result for each of several configs.

**JobFanout.** The parent's row column by column, its coroutine from selecting
configs to releasing the lease, its heartbeat, its recovery; the children at the
granularity of their reports; the aggregation as lock, read, commit. Commits of
others on the parent wait for the aggregation's row lock. A child's requeue
limit is abstracted to a choice between PENDING and FAILED. Recovery
selects rows by their lease alone, as two steps for parent and children (`seen`, `picked`):
a child whose heartbeat is slow, or has died, is failed under its executor, which goes
on and reports. `slow` names the tasks that may meet this, and the history
variable `overtaken` the children with one config that have met it.

**ProfilePool.** Acquire and release are one action each (locked). An operator's
request is `Begin` (read and checks) and later `Update`, `Rename`, `Delete` or
`OpenLogin`; `gone` says that its row was deleted meanwhile. `Unlocked` is the
API process's lock per profile. The history variable `robbed` names the crawls whose
lease ran out, or whose row a recovery or an operator wrote from an older copy, freed,
renamed or deleted. The directories on disk are not modelled.

**LoginLockout.** One Redis key (value, expiry or none) and the login requests
between the gate and the EXPIRE. `name` says whether the name belongs to a user:
for others the endpoint counts failures without a gate. A request may die, or
Redis fail, wherever a request waits; `lost` remembers those that died before
their EXPIRE.

**UserSessions.** One account. A row is the token whose hash it stores and its
age (active, idle, over); it changes when its transaction commits, until then
`userLock` and `rowLock` say who has locked it. A request runs through the
stages of its endpoint: `Check` and `Touch` (get_current_user, two transactions),
`Found` (SELECT FOR UPDATE by token), `LockUser`, `SelectRows` and `LockRow` (the
DELETE, which takes the rows one by one in any order), then a commit. `Abort` is
PostgreSQL's deadlock detector, `Die` a process that dies. A client may present
any token or session id it was ever given, for instance because an answer was
lost or two tabs share a cookie. A login starts after its password was accepted.

**PriceAlerts.** A task finds the active products, crawls each in sessions of its
own and stores the price; the check that follows reads the newest two prices in a
later transaction. `before` and `crossed` remember what the crawl should be
compared with and whether another crawl or the cleanup came in between. Reaching a
threshold raises (see the finding), which ends the crawl of that product.

**Scheduling.** A request commits the row, reads it back and syncs the scheduler's
job, as three steps. A restart derives all jobs from the rows. `excused` names
the rows of which requests overlapped or failed halfway, and those whose time
zone alone was changed.

**JobResults, JobDetails, MatchAnalysis.** `JobResults` follows one call of
`process_job_results` per crawl: the load of the config's jobs, the flush (where
the unique constraint may raise), the announcement, the commit. `Offer` identifies
listings of one offer under different ids; a commit writes the columns that
the session changed, over whatever the row holds by then. `JobDetails` is the loop over the
details with its main and its retry pass. `MatchAnalysis` keeps for each job the
text it has and for each result the text it is about; times are numbers of
commits, so that the comparison of `updated_at` columns can be wrong.

**PlatformSearch, PlatformDetails.** A search asks for pages of a list that the
site changes meanwhile; fuses, retries and the browser's restarts are those of
the three adapters, chosen by `platform`. `gap` says why something may be missing.
Of the details, each request has a thread, which `wait_for` leaves running, and
the threads share the adapter's `_cloak_context`.

**WorkerRegistry, UserConfigCache, Admin, WeChatLogin, Blog.** Each request reads
in one step and writes in a later one, with what it has read kept in the request's
record. In `UserConfigCache` the readers of a process share its `_fetch_lock`. In
`WeChatLogin` a code may be in Redis, in the process, or in both after a save that
was carried out and reported as failed. In `Admin` the initial state is any set
of users with a super_admin.

**SmartHome.** A stream subscribes under the broker's lock; if its configuration is
another one, or if it was the last to leave, it keeps the lock until the old
connection has ended. The server cancels streams whose client has gone, at
whatever they wait for; `abandoned` names those that were cancelled while they
waited for the lock to unsubscribe. What the queues carry is left out.

**DashboardStream.** The generators of one user's tabs, with the counts taken from
the tables in one step, the Redis entry and `_last_kpi_values`.

**BoundedRetryQueue.** What the queue promises, without rows, leases or
transactions: a task is granted to one worker at a time, at most `Limit` times,
and is granted again only if its holder gave it back. The refinement maps a task
that some coroutine executes to *held*, a PENDING one to *waiting*, all others
(also the RUNNING rows of dead workers, which are never executed again) to *over*.

## 3. What TLC checks

| Run | Result | Shows |
|---|---|---|
| `CrawlTaskQueue_races` | pass | Whatever the timing, and with several configs per task: `ExclusiveExecution`, `LockedIsRunning`, `PendingIsClaimable` and the refinement of `BoundedRetryQueue`; every submitted task gets a result (`EveryTaskSettles`), although workers crash for ever and heartbeats die; the only rows left behind are RUNNING ones without a lease (`Orphaned`). |
| `CrawlTaskQueue_timely` | pass | If heartbeats keep the lease alive and a task has one config: a worker keeps lock and RUNNING until it reports (`ExecutorHoldsLock`), results are final (`NoResurrection`), maintenance fails no living task (`NoFalseRecovery`). |
| `CrawlTaskQueue_orphan` | violation | With several configs per task: `OrphanIsRecovered`. |
| `JobFanout_races` | pass | No aggregation overwrites a result; a COMPLETED parent has created all children, and those that are neither a batch nor overtaken by a recovery have finished, their errors seen. The parent gets a result for good, whoever dies, unless a batch or an overtaken child is orphaned, or the parent forgotten (`ParentSettles`). |
| `JobFanout_failures` | violation | `FailedChildFailsParent`. |
| `Services_races` | pass | Profiles: operators exclude each other, no release undoes a block; with leases that expire under a crawl, recovery, rename and delete, lease and owner never come apart, and a crawl that is not robbed holds its lease to the end. Products: a price is compared with the one before it. Crons: jobs match rows. Blog: no post before its date. Smart home: every open stream is served. |
| `ProfilePool_recovery` | violation | `OneCrawlPerProfile` with recovery. |
| `Jobs_races` | pass | A job is announced once, listed when seen, deactivated only after enough misses; detail requests are justified; an analysis accounts for every job, good results are announced, an outdated result comes from a race; a search overlooks nothing but for the reasons in `gap`; browsers are closed. |
| `Accounts_races` | pass | The counter of a registered name exceeds its limit by less than the requests in flight; a key without expiry is about to get one, and a lockout ends, unless a request died between INCR and EXPIRE. A one-time code is answered once; the last super_admin stays; the cached configuration settles; the registry catches up. |
| `UserSessions_races` | pass | At most one session, the last login's (`LastLoginWins`); a rotation replaces the token presented (`RotationIsCompareAndSwap`); every deadlock involves a password change; every request is answered. |
| `PriceAlerts_drop` | violation | `DropIsNotified`. |
| `DashboardStream_tabs` | violation | `ChangeReachesStream`. |

The five violations are disagreements between the documents and the code:

- *orphan*: each config of a child reports a result, which clears `locked_by`
  and `lease_until`; the next config sets RUNNING without them. A worker that
  dies then leaves a row that recovery never selects, while
  `doc/howto-deploy-worker.md:108` promises that no task is lost.
- *failures*: the parent's verdict looks at the children's `errors` columns; a
  child failed by the requeue limit or by recovery has none.
- *recovery*: `recover_stale_profile_leases` commits over a lease acquired since
  its SELECT.
- *drop*: `check_price_alerts` reads `.currency` of a price, a Decimal, while it
  composes the message. Every check that reaches a threshold raises, so that no
  price alert is ever sent.
- *tabs*: what was sent last is kept per user, not per stream. The tab that asks
  first for a change gets it, the other one is told nothing until something else
  changes. With one tab the property holds.

Modelling also showed the following, which no run checks because the action
definitions say it outright. An expired row is FAILED (`Recovered`), not taken
over by another worker as `doc/explanation-crawler-architecture.md:167` has it.
If a lease runs out under its executor, the task may be failed, reported RUNNING
once more, and then be orphaned like a batch (`Orphaned`); a child of a fan-out
likewise. A late recovery may clear
the reason of a parent between the load and the commit of a save that reopens its
row: RUNNING, without a lease and not waiting, it is looked for by nobody
(`Forgotten`). Both need a heartbeat that stopped or came late; `EveryTaskSettles`
and `ParentSettles` allow these ends and no other.
SIGTERM cancels running tasks (`Shutdown`) where `:157` says that they are
waited for. Nothing renews a profile lease (`LeaseExpires` under `Outlasting`),
contrary to `doc/backend-architecture.md:471`. For the same reason as in
*orphan*, a child's row is COMPLETED between two configs, so that the parent may
complete while the child crawls on, although
`docs/2026-05-25-crawler-production-todo.md:149` has it wait. The same is true of a
child that recovery has failed under its executor: FAILED with no errors, it lets the
parent complete, and then reports RUNNING again, or errors. The properties of
`JobFanout` are therefore stated of the groups outside `Reopening`, those
with one config that are not `overtaken`; `OnlySlowChildrenAreOvertaken` proves that a
slow heartbeat is the only way to become one of these. The parent may be
aggregated, reopened by a late save of its own coroutine and aggregated again. A heartbeat
may write the lease of a waiting parent back after its release.

About jobs and products. The announcement of new jobs precedes the commit that
the comment at `crawl_service.py:460` has it follow (`AnnouncedOnce` names the
crawls that then fail). A miss counter is not reset when a job comes back from
inactive, or under a new id, although `models/job.py:121` says so; and a crawl that
overlaps another one writes the counter it has loaded, plus one, over the other's
reset, so that a job may become inactive after fewer crawls without it than the
threshold says (`miscounted` in `DeactivationIsEarned`; with a threshold of 3 and five crawls TLC
shows two of them to suffice). The retry pass of the details runs after a bail-out, which
the comment at `crawl_service.py:43` excludes. A detail request that is given up
leaves its thread running, so that the loop at `crawl_service.py:482` is
sequential only as long as none is (`DetailsInTurn`). After a search the boss browser is
closed, so that a detail answered with an anti-bot code ends as a retry and the
cookie circuit breaker of `doc/backend-architecture.md:419` never trips; the
fuse of 51job (2 hits) is not reached either; liepin asks for its first page only.
An edit of a resume never makes a result outdated for `NeedsAnalysis`. No alert
waits 24 hours before the next, as `doc/howto-feishu-webhook.md:52` says.

About crons and workers. A PATCH of a config with nothing but `cron_timezone` does
not reach the scheduler; the fire of a config deleted meanwhile still creates a
task. A worker with `--once` beats once and is shown offline while it works;
maintenance may write offline over the stopped of a worker that has left, which
nothing puts right.

About administration, blog and smart home. A role change of a super_admin is not
checked (`SetRole`), and two removals that overlap may remove the last two, while
`doc/permission-architecture.md:168` promises that one stays. A post that is
scheduled without a date is never published. Saving a smart-home configuration
keeps the last status, which then describes another address. A stream that is
cancelled while it waits for the lock leaves a queue, and with it the
connection, for ever (`abandoned`).

About logins: if a request dies between INCR and EXPIRE, the counter never
expires, and the name stays locked once it has reached the limit (`lost` in
`LockoutEnds`; the reason why `LoginLockout` may deadlock). A password change locks its session row
and then the user row, all others the user row first; the deadlock is reachable
and one of the two requests fails. A login that was let in before the account is
deleted still creates a session (`CommitLogin` does not look at `account`); it is
refused by `Check` for as long as the account stays deleted. A request that passed
`Check` goes on when its session is revoked (`Touch` then updates no row).
`doc/permission-architecture.md:154` still speaks of up to five sessions; the
code keeps one.

Every property of a passing run has a mutant in `PROJECT.json`: a version of one
definition with a plausible error (the operators marked "Seeded error"), under
which the run fails.

### Bounds

- Workers: two, enough for every conflict between a holder, a claimer and a
  maintainer (the API is a third maintainer). The shared state is per row, and
  no transaction involves three workers.
- Tasks: one where heartbeats may stop, two where they are timely: rows only meet
  in a worker's concurrency limit and in a maintenance batch. The theorems are for
  any number.
- `MaxRequeue`: 2 or 3 instead of 5: first, middle and last attempt.
- Groups: three, one of them with several configs, of which `SmallPlan` lets the parent
  find either two with one config each, or the batch alone, or, when its heartbeat
  may be slow, one child alone: each meets the parent, the recovery and both ways
  of aggregation in every order, two children meet each other, and the verdict combines
  children by quantifiers only. The parent's heartbeat may be slow throughout. The number
  of configs is unbounded (`NextConfig` may repeat), and so are the requeues of a child. The
  theorems are for any groups and any set of slow heartbeats.
- Profiles: one or two (two for rename), three tasks, two operator requests.
- Counters: `attempts` and `grants` are bounded by `MaxRequeue` in the code's own
  guards; nothing else of the queue counts.
- Products: two tasks on one product, three moments, two prices: a price before,
  one of the other task and one's own. Without a threshold, so that the crawls go
  on; the violation run has one.
- Crons: two rows of each kind's handlers, two changes under way together, two
  time zones. Blog: two posts, two editors, one moment to wait for, two requests.
- Smart home: three streams and one change of the configuration: one that has the
  connection, one that replaces it, one that leaves meanwhile.
- Jobs: four crawls of one config, two of them at a time, over two rows; two of
  three listings are one offer. The threshold is 2 (the default is 3): a third
  miss would take more crawls than the bound of four has room for next to an
  overlapping one, and what the threshold does is proved for any. Five details;
  two jobs or two analysis tasks at a time (a task's jobs do not interact, and
  neither do tasks but through a job). Search: five jobs on pages of two, two
  pages, a limit of three, and one change of the list, which hits each place
  relative to the crawl. Detail requests: three, the third after one that was
  given up and one that was not.
- Accounts: two calls of an exchange and a third later; two administrators on two
  users; three readers in two processes and two writes; two workers and two exits.
- Logins: three requests for one name and a limit of 2 instead of 5, so that
  requests pass the gate together below the limit and at it; `MaxCount` bounds the counter of an
  unregistered name only.
- Sessions: two requests in flight, two logins, three tokens. Every
  hazard here is one of two requests; with at most one session a
  cycle of waiting transactions has two locks, hence two members, and the third
  token makes a rotated token stale twice. `Minting` keeps requests
  from arriving that could exceed a bound later. The theorems have no such bounds.
- Deadlock is checked except in `MCJobFanout` and `MCJobs`, whose jobs end, in
  `MCAccounts`, where a name may stay locked for ever and requests are bounded, and
  in the two small violation runs.
- Symmetry is used in `MCServices` and `MCJobs`, for sets whose members no
  definition tells apart and in runs without liveness.

### Fairness

`CrawlTaskQueue`: the event loop schedules a live worker's coroutines, crawls end
(all page loads have timeouts), the clock advances, and a stopped worker is
started again (the deployment restarts it). Crashes may disable a claim, a crawl
or a recovery again and again; strong fairness says that they do not do so
every single time, for the workers together: one of them may crash at each of its
attempts. Nothing is assumed about errors, and a heartbeat may be slow or die.
`JobFanout`: likewise; a child that is requeued again and again is crawled some
day (its requeues are bounded in `CrawlTaskQueue`), and a maintainer that finds
the row locked again and again gets the lock (PostgreSQL queues lock waiters), and
each of its rounds recovers before it aggregates, whatever it found last time. No
fairness is assumed of a child's aggregation: maintenance alone must suffice.
`LoginLockout`: an EXPIRE about to be sent is sent, Redis drops keys in time;
nobody needs to log in. `UserConfigCache`: readers that have asked get on, entries
expire. `WorkerRegistry`: a worker that runs its loop gets through its rounds, and
a beat grows old; nobody has to start or to die. `DashboardStream`: a generator
gets on, the entry expires. `UserSessions`: requests run, the deadlock detector does
its work, and a row lock that is free again and again is granted (strong
fairness; PostgreSQL queues lock waiters). Nobody has to send requests or to die.

## 4. What is proved

For every set of tasks, workers, profiles, requests, streams, crawls and jobs,
and every limit; `Home!Spec` and the like are instances' specifications in the
MC modules:

| Theorem | Statement | Assumes |
|---|---|---|
| `CrawlTaskQueueProofs!TypeCorrect` | `Spec => []TypeOK` | constants' types |
| `CrawlTaskQueueProofs!Exclusive` | `Spec => []ExclusiveExecution` | -- |
| `CrawlTaskQueueProofs!LockOnlyWhileRunning` | `Spec => []LockedIsRunning` | -- |
| `CrawlTaskQueueProofs!NoRowStuckPending` | `Spec => []PendingIsClaimable` | -- |
| `CrawlTaskQueueProofs!ClaimsBounded` | `Spec => []GrantsBounded` | -- |
| `CrawlTaskQueueProofs!HoldsLock` | `Spec => []ExecutorHoldsLock` | timely heartbeats, one config per task |
| `CrawlTaskQueueProofs!ResultsAreFinal` | `Spec => NoResurrection` | the same |
| `CrawlTaskQueueProofs!NoLivingTaskIsRecovered` | `Spec => NoFalseRecovery` | the same |
| `CrawlTaskQueueRefinement!QueueRefinesRetryQueue` | `Spec => ImplementsRetryQueue` | -- |
| `JobFanoutProofs!FanoutTypeCorrect` | `Spec => []TypeOK` | constants' types |
| `JobFanoutProofs!CompletedMeansAll` | `Spec => []CompletedCoversAllGroups` | -- |
| `JobFanoutProofs!ErrorsAreNotLost` | `Spec => []ErrorsReachParent` | -- |
| `JobFanoutProofs!ResultsSurviveAggregation` | `Spec => AggregationKeepsResults` | -- |
| `JobFanoutProofs!OnlySlowChildrenAreOvertaken` | `Spec => [](overtaken \subseteq slow)` | -- |
| `ProfilePoolProofs!TypeCorrect` | `Spec => []TypeOK` | -- |
| `ProfilePoolProofs!LeaseColumnsAgree` | `Spec => []LeaseNamesOwner` | -- |
| `ProfilePoolProofs!BrowserRunsExclude` | `Spec => []RuntimeExclusive` | -- |
| `ProfilePoolProofs!CrawlsHoldLeases` | `Spec => []CrawlHoldsLease` | -- |
| `ProfilePoolProofs!SharedOnlyByRobbery` | `Spec =>` always, no two crawls that are not robbed share a profile | -- |
| `ProfilePoolProofs!BlocksLast` | `Spec => OnlyOperatorsUnblock` | no recovery, status operations only |
| `ServicesProofs!RacingLeasesAgree` | `Racing!Spec => []LeaseNamesOwnerWhenRacing` | names of tasks and profiles are not the null value |
| `ServicesProofs!RacingCrawlsHold` | `Racing!Spec => []CrawlHoldsLeaseWhenRacing` | the same |
| `ServicesProofs!PreviousIsCompared` | `Products!Spec => []ComparedWithPrevious` | -- |
| `ServicesProofs!CronsInSync` | `Crons!Spec => []SchedulesInSync` | configs and product crons are different, and not `None` |
| `ServicesProofs!PostsWait` | `Posts!Spec => []NotBeforeItsTime` | `MaxDays \in Nat` |
| `ServicesProofs!StreamsServed` | `Home!Spec => []StreamsAreServed` | `None` is no stream |
| `JobsProofs!JobsAnnouncedOnce` | `Results!Spec => []AnnouncedOnce` | `Threshold \in Nat`, `NoListing` is no listing |
| `JobsProofs!SeenJobsListed` | `Results!Spec => SeenIsListed` | the same |
| `JobsProofs!DeactivationsEarned` | `Results!Spec => DeactivationIsEarned` | the same |
| `JobsProofs!RequestsJustified` | `Details!Spec => RequestsAreJustified` | numbers are in `Nat`; `WafLimit <= 1` |
| `JobsProofs!AnalysesAddUp` | `Match!Spec => []CompletedAddsUp` | finitely many jobs |
| `JobsProofs!GoodResultsAnnounced` | `Match!Spec => []GoodIsAnnounced` | the same |
| `JobsProofs!OutdatedByRace` | `Match!Spec => OutdatedOnlyByRace` | the same |
| `JobsProofs!SearchesFindAll` | `Search!Spec => []NothingOverlooked` | `PageSize` and `MaxJobs` in `Nat` |
| `JobsProofs!BrowsersClosed` | `Spec => []BrowserIsClosed` | `None` is no request or outcome |
| `JobsProofs!DetailsInTurn` | `Spec =>` no two requests under way, until one is given up | the same |
| `AccountsProofs!AttemptsBoundedHolds` | `Spec => []AttemptsBounded` | finitely many requests in flight |
| `AccountsProofs!LockoutHasExpiryHolds` | `Spec => []LockoutHasExpiry` | -- |
| `AccountsProofs!CodesAreAnsweredOnce` | `WeChat!Spec => []CodeAnsweredOnce` | -- |
| `AccountsProofs!SuperAdminStays` | `Users!Spec => LastSuperAdminStays` | -- |
| `UserSessionsProofs!TypesHold` | `Spec => []TypeOK` | -- |
| `UserSessionsProofs!LastLoginWinsHolds` | `Spec => []LastLoginWins` | -- |
| `UserSessionsProofs!RotationHolds` | `Spec => RotationIsCompareAndSwap` | -- |
| `UserSessionsProofs!DeadlocksNeedPasswordChange` | `Spec => []DeadlocksInvolvePasswordChange` | -- |

Every invariant and every action property of a passing run is in this table. Where a theorem assumes more than the constants' types, the
assumption is where the property ends, and is justified by the code: without
timely heartbeats recovery fails a task whose worker goes on, a batch of configs
loses its lease after the first one (the run *orphan*), and recovery makes a
blocked profile available if its lease had run out, so that the theorems would be false;
heartbeats come every 15 s for leases of 3600 s. `DETAIL_WAF_BLOCK_LIMIT` is 1
(`crawl_service.py:44`), and with a greater one details would be requested after
a block.

**The queue's invariant.** None of the properties is inductive: a commit writes
columns of a row loaded earlier, so the induction needs what is known about that
loaded row and the present one together. `ExecutorInv` says it of an open save
(if the loaded row had no lock, the row has none now; if it had a result, the
row has one) and of an open requeue (the row is still held with the loaded attempt
count, or has been failed since); `MaintenanceInv` of a selected row;
`GrantsInv` relates the number of claims to the attempt counter, one more
than it while somebody executes. `IInv` is their conjunction, and each action has
a step of its own. The heart of the argument: an executing coroutine keeps
its row out of PENDING, only a requeue by that coroutine puts it back, and
nothing ever writes a lock but the claim, which needs PENDING.

With timely heartbeats, `TimelyInv` is proved on top of it (`CoroutineTimely`
and one lemma per kind of step): a coroutine without a result of its own has a
RUNNING row, a RUNNING row that is executed is locked, leased and kept so by a
heartbeat, and nobody executes, or ever will, what maintenance has selected.
That last conjunct, about the time between recovery's SELECT and its commit, is
what makes `NoFalseRecovery` and `NoResurrection` follow.

**The fan-out's invariant.** `FanoutInv` has four parts. `LockInv`: who holds
the parent's row lock finds no result there. `ChildInv`: a child with one config
is RUNNING until it has reported, unless it was overtaken. `ParentInv`: an error of the parent's
coroutine leads to FAILED for good, and without one all children exist from the
save of the plan on. `ResultInv` is the argument proper: a child may aggregate
while its siblings are still being created, and count too few; but the save of
the plan waits for the row lock, the final save loads the row after that and
reopens it, so that a COMPLETED parent that the final save leaves alone comes
from a verdict computed later, which covers every child. Neither heartbeats nor
crashes are restricted; what a slow heartbeat does to a child is excused by name, and
`TimelyInv` shows that nothing else needs the excuse: a child with one config whose
heartbeat is timely and that maintenance has picked is executed by nobody, and will not
be before it is FAILED (`Forsaken`).

**The refinement.** `MappingPointwise` turns the CHOOSE of the mapping into facts
per task; `DropStep` and `GrantStep`-like lemmas show which abstract step each
action is: recovery drops what it fails, a crash drops everything the worker
holds, a requeue is `GiveBack` or a drop.

**The pool's invariants.** `PairedInv` carries the agreement of the lease columns
to every row that a request or a maintainer has loaded: a commit leaves both
columns alone or clears both, so that no mixture arises. `HoldInv` says of a crawl
that is not robbed that its profile's row exists and names it under a valid lease.
Recovery and operators do break into crawls, which is what the violation run shows: their
commits, and expiry, are the causes that `robbed` records, and the proof that nothing else
is one goes through the acquire of another crawl, which finds the lease valid, and the
late release of a robbed one, which finds another owner. So of two crawls in
one directory one was robbed (`SharedOnlyByRobbery`). These theorems assume nothing of how
long crawls take, of recovery or of what operators do.

`BrowserRunsExclude` and `BlocksLast` need no more than what `_locks` and the
row locks protect: a request that runs a browser has found no other one, and a
crawl's release, which locks the row, leaves a block alone. `BlocksLast` assumes
that the operators' own requests only set statuses (`HarmlessOps`), as rename,
delete and release write the whole row. `RacingLeasesAgree` is
`LeaseColumnsAgree`, and `RacingCrawlsHold` is `CrawlsHoldLeases`, for the instance
in which leases expire under a crawl; the proofs show the two instances' steps to be the same.

**The lockout's invariant.** `AttemptsBounded` is not inductive: what bounds the
counter is that each request past the gate still has room for its failure.
`Room` says that the counter plus the number of requests past the gate stays
within the bound; `VerifyingChanges` does the counting.

**The streams' invariant.** `StreamsAreServed` speaks of the moments when the lock
is free. `Lock` says what holds while it is taken: its holder is the one stream
that waits, and the connection it waits for is cancelled. `Fresh` says that a
stream which is about to open a connection has never had one, so that its new
one is not among the cancelled.

**Posts, crons and products.** `BlogInv` is `NotBeforeItsTime` with the types:
the property, which excuses what editors have `forced`, is inductive. For the
crons, `InOrder` says that an entity without a request on it has the scheduler's
job of its row, and otherwise has one request only, which finds row and job as
`Meets` says for its stage; an entity whose requests overlap is in `excused`.
`BeforeSave` says that a crawl about to save a price has seen the newest one
before it, unless `crossed`.

**WeChat and administration.** `OnePlace` says that an unanswered code is in
Redis, in the process's memory, or with one exchange that has taken it, and in
one of them only; it holds as long as no save was carried out and reported as
failed, and with GETDEL. `UsersInv` says that a removal about to be committed
has counted a second super_admin; what it has counted may be gone by then, which
is the exception that `LastSuperAdminStays` names.

**The sessions of crawls.** `ResultsInv` says of every crawl's session what
follows from what it loaded: a row is deactivated by its count alone and counted
once (`CountedOnce`), every listing seen is to be inserted or has a row
(`SessionOK`). A session that has flushed has locked the rows it changes, and
its inserts meet no row (`FlushOK`); two of them have no job id in common
(`Apart`, the unique constraint). `Counted` relates the stored counter to the
crawls that missed the job; it fails for the rows in `miscounted`, and the
attempt to prove it without them is what showed that an overlapping crawl writes
over a reset. For `AnnouncedOnce`, `Held` says that an announced job is stored
or in a session about to commit: its row keeps the id until it is `renamed`, so
that no other crawl can insert it.

**Searches.** `Behind` says that a job which has been listed all the while, and is on a
page before the next one, has been found. A new job only moves the others to
later pages, and after a withdrawal, which could move one back, `gap` excuses what
is missing. What boss takes of a page is all of it, or fills `max_jobs` (`Taken`).

**Details and analyses.** `DetailsInv` describes `again`, the jobs to be
requested once more: they come in ascending order, behind those already
repeated, with a first outcome that is worth it; the main pass has no block
behind it. `MatchInv` says of each task that its total is what it has counted
plus what it has to do (`Accounts`), and where its good results are: with its
coroutine, which collects them for the message, or in the message, unless it
died (`Known`).

**The browsers' invariant.** `BrowserIsClosed` speaks of the end. Until a request
is given up, `InTurn` says that a thread ends together with its request; two
threads never run together (`OneRuns`), so that `OneBrowser` can say whose
the browser is.

**The sessions' invariant.** `Good` says what the locks of a request protect: a
login that deletes holds the user row, and every session there still is one that
its DELETE has locked or will reach, so that its commit leaves only the new row;
nobody else can add one, which takes the user row. A request that will rotate
holds the row lock of its session, whose hash is still the presented token.
`OthersStayGood` says once what a step may not disturb; each action has a lemma.
`LastLoginWins` is used in its own induction: a DELETE that works from an older
SELECT cannot reach a session created since.

Deadlocks need a second invariant, `RowHolders`: who holds a session row and
still wants the user row is a password change. As there is one session at most
(`LastLoginWins`), a request that waits for a request waits for the holder of
the user row or for that of the one session row, and not for itself. So the
cycle consists of these two holders, and the one that holds the session row
waits for the user row.

Only model-checked:

- liveness (`EveryTaskSettles`, `ParentSettles`, `LockoutEnds`, `EveryRequestAnswered`,
  `ConfigSettles`, `RegistryCatchesUp`), which is out of the prover's reach;
- the properties of the violation runs, which do not hold.

## 5. Not modelled

Clock values (a lease is valid or expired, a beat recent or not), the contents of
pages, prompts and answers, formatting, logging, HTTP, listings and other
requests that change nothing, and the directories of profiles; of the sessions, the
legacy access cookie, CSRF checks, the browser's cookies and what tokens contain.
The product platforms (one request and its parsing), the trends of the dashboard
and the statistics are read-only. The event stream promises no order and no
delivery that a property could be about; it is in the API's memory, so that what
workers emit never reaches it, contrary to `doc/explanation-sse-realtime.md`
("any code path that writes `system_logs`"). The clients are presentation of what
the backend answers.
Dead code is left out: `mark_task_running`, `renew_task_lease`,
`_profile_lease_heartbeat`, `crawl_all_job_searches`, `analyze_resume_vs_jobs`,
`run_match_analysis_task`, `create_session` and `create_session_with_token` have
no caller that runs, and the profile status `cooling_down` is assigned nowhere.

## 6. Plan

Next, in this order:

1. Abstract specifications with their refinements proved: one code, answered once, for
   `WeChatLogin`; a register with compare-and-swap for `UserSessions`; a
   job board whose listings come and go, for `JobResults`.
2. Safety lemmas about `UserConfigCache` and `WorkerRegistry`, whose properties are
   liveness: what an entry or a row may say while a writer is on its way.
3. Composition of `CrawlTaskQueue` and `ProfilePool`: a child task's profile lease
   over requeues, crashes and renames (stale profile keys in pending tasks).
4. Composition of `PlatformSearch` and `JobResults`: what a shifting list does to
   the miss counters.
