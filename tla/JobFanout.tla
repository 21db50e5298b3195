----------------------------- MODULE JobFanout -----------------------------
(***************************************************************************)
(* Crawling all job configs: a job_all task fans out into one              *)
(* job_platform_profile task per (platform, profile) group of configs      *)
(* (enqueue_job_all_children), releases its lease and waits; the child     *)
(* that finishes last, or a worker's maintenance, aggregates the parent    *)
(* (aggregate_parent_task_if_children_finished).                           *)
(*                                                                         *)
(* The module starts when a worker has claimed the parent.  The parent's   *)
(* row is followed column by column, since its executor, its heartbeat,    *)
(* the recovery and the aggregation all write it: a transaction that does  *)
(* not lock the row is a "...Load" and a "...Commit".  The aggregation     *)
(* does lock it (FOR UPDATE), so that other commits wait for it.  A        *)
(* child's row is followed by its status, its lease and its errors, with   *)
(* recovery and requeue split likewise; its executor's saves are one step  *)
(* each, which recovery finds before or after it: the status that recovery *)
(* assigns is never the one it loaded, so its commit writes every column   *)
(* but errors, which it leaves alone.                                      *)
(***************************************************************************)
EXTENDS CrawlTaskRecord, FiniteSets

CONSTANTS
  Group,        \* the (platform, profile_key) groups that may have configs
  MultiConfig,  \* the groups of more than one config
  Owner,        \* the worker that claimed the parent
  Maintainer,   \* processes that run _recover_runtime_state
  Slow,         \* the sets of tasks whose heartbeats may be slow, or die
  Crashes       \* processes may die, and a child's except handler may fail

ASSUME OwnerAssumption == Owner \in Worker
ASSUME GroupAssumption == MultiConfig \subseteq Group /\ Group \cap Maintainer = {}
ASSUME ModeAssumption == Crashes \in BOOLEAN

NoOne == "nobody"
JobAll == "job_all"
Aggregator == Group \cup Maintainer

ASSUME NoOneAssumption == NoOne \notin Aggregator
ASSUME SlowAssumption == Slow \subseteq SUBSET (Group \cup {JobAll}) /\ JobAll \notin Group

VARIABLES
  parent,       \* the row of the job_all task
  waiting,      \* its reason is "waiting_for_children"
  groups,       \* the groups found by enqueue_job_all_children
  ppc,          \* where the parent's execute_claimed_task stands
  runtime,      \* status of the parent's in-memory CrawlTask
  session,      \* parent and waiting as that coroutine's open session loaded them
  beat,         \* the parent's run_task_heartbeat coroutine
  seen,         \* seen[m]: the stale parent row m has loaded, or AbsentRow
  picked,       \* picked[m]: the groups whose stale rows m has loaded
  child,        \* child[g]: status of g's job_platform_profile row
  lease,        \* lease[g]: what that row's lease_until is worth
  errors,       \* errors[g]: that row has errors > 0
  cpc,          \* where the child's executor stands
  aggregator,   \* who holds the parent's row lock in the aggregation
  verdict,      \* the status the aggregation has computed
  slow,         \* the tasks (groups, JobAll) with a slow heartbeat, chosen once
  overtaken     \* history: the groups with one config that a recovery has
                \* failed under their executor

parentVars == <<ppc, runtime, session, beat>>
maintenance == <<seen, picked>>
childVars == <<child, lease, errors, cpc, overtaken>>
aggVars == <<aggregator, verdict>>
vars == <<parent, waiting, groups, slow, parentVars, maintenance, childVars, aggVars>>

\* "dead": the process died, or an error escaped the except handler.
ParentPC == {"selecting", "creating", "savingPlan", "returned", "savingFinal",
             "toRelease", "releasing", "logging", "savingError", "closing",
             "off", "dead"}

\* "leasing": RUNNING is reported, the profile lease is next; "between": a
\* config is done and reported; "reported": the child's result is saved, the
\* aggregation is next; "logging": the aggregation is over, the final save
\* and event are next.
ChildPC == {"off", "claimed", "leasing", "requeueing", "crawling", "between",
            "reported", "logging"}

\* "kept": the executor has the row locked and its heartbeat renews the lease;
\* "left": a heartbeat's late commit has written a lease_until back after lock
\* and lease were cleared, and nobody renews it.
ChildLease == {"none", "kept", "left"}

NoSession == [row |-> AbsentRow, waiting |-> FALSE]

TypeOK ==
  /\ parent \in Row
  /\ waiting \in BOOLEAN
  /\ groups \in SUBSET Group
  /\ ppc \in ParentPC
  /\ runtime \in {"running", "completed", "failed"}
  /\ session \in [row : Row, waiting : BOOLEAN]
  /\ beat \in {"off", "on", "renewing"}
  /\ seen \in [Maintainer -> Row]
  /\ picked \in [Maintainer -> SUBSET Group]
  /\ child \in [Group -> Status]
  /\ lease \in [Group -> ChildLease]
  /\ errors \in [Group -> BOOLEAN]
  /\ cpc \in [Group -> ChildPC]
  /\ aggregator \in Aggregator \cup {NoOne}
  /\ verdict \in {"open", "completed", "failed"}
  /\ slow \in Slow
  /\ overtaken \in SUBSET Group

Init ==
  /\ parent = Claimed(NewRow, Owner)
  /\ waiting = FALSE
  /\ groups = {}
  /\ ppc = "selecting"
  /\ runtime = "running"
  /\ session = NoSession
  /\ beat = "on"
  /\ seen = [m \in Maintainer |-> AbsentRow]
  /\ picked = [m \in Maintainer |-> {}]
  /\ child = [g \in Group |-> "absent"]
  /\ lease = [g \in Group |-> "none"]
  /\ errors = [g \in Group |-> FALSE]
  /\ cpc = [g \in Group |-> "off"]
  /\ aggregator = NoOne
  /\ verdict = "open"
  /\ slow \in Slow
  /\ overtaken = {}

---------------------------------------------------------------------------
(* The parent's coroutine                                                  *)

\* The active configs are read and grouped; without any the task is done.
SelectConfigs(S) ==
  /\ ppc = "selecting"
  /\ groups' = S
  /\ runtime' = IF S = {} THEN "completed" ELSE "running"
  /\ ppc' = "creating"
  /\ UNCHANGED <<parent, waiting, slow, session, beat, maintenance, childVars, aggVars>>

\* One child per transaction, each PENDING and claimable at once.
CreateChild(g) ==
  /\ ppc = "creating"
  /\ g \in groups
  /\ child[g] = "absent"
  /\ child' = [child EXCEPT ![g] = "pending"]
  /\ UNCHANGED <<parent, waiting, groups, slow, parentVars, maintenance, lease, errors, cpc, overtaken, aggVars>>

LoadParent == session' = [row |-> parent, waiting |-> waiting]

\* progress_callback is called by enqueue_job_all_children when all the
\* children exist, and again by execute_claimed_task.
PlanLoad ==
  /\ \/ /\ ppc = "creating"
        /\ \A g \in groups : child[g] # "absent"
        /\ ppc' = "savingPlan"
     \/ /\ ppc = "returned"
        /\ ppc' = "savingFinal"
  /\ LoadParent
  /\ UNCHANGED <<parent, waiting, groups, slow, runtime, beat, maintenance, childVars, aggVars>>

AfterSave ==
  CASE ppc = "savingPlan"  -> "returned"
    [] ppc = "savingFinal" -> IF runtime = "running" THEN "toRelease" ELSE "logging"
    [] ppc = "savingError" -> "closing"

\* sync_record_from_runtime_task.  The reason of a RUNNING parent is
\* "waiting_for_children".
SaveCommit ==
  /\ ppc \in {"savingPlan", "savingFinal", "savingError"}
  /\ aggregator = NoOne
  /\ parent' = Flush(session.row, Synced(session.row, runtime), parent)
  /\ waiting' = Written(session.waiting, runtime = "running", waiting)
  /\ ppc' = AfterSave
  /\ session' = NoSession
  /\ UNCHANGED <<groups, slow, runtime, beat, maintenance, childVars, aggVars>>

\* _release_waiting_parent_lease.
ReleaseLoad ==
  /\ ppc = "toRelease"
  /\ IF HeldBy(parent, Owner) /\ waiting
       THEN ppc' = "releasing" /\ LoadParent
       ELSE ppc' = "logging" /\ UNCHANGED session
  /\ UNCHANGED <<parent, waiting, groups, slow, runtime, beat, maintenance, childVars, aggVars>>

ReleaseCommit ==
  /\ ppc = "releasing"
  /\ aggregator = NoOne
  /\ parent' = Flush(session.row,
                     [session.row EXCEPT !.lockedBy = NoWorker, !.lease = "none"], parent)
  /\ ppc' = "logging"
  /\ session' = NoSession
  /\ UNCHANGED <<waiting, groups, slow, runtime, beat, maintenance, childVars, aggVars>>

\* Any error in the try block, the release and the final event included,
\* makes the except handler save FAILED.
Raise ==
  /\ ppc \in {"selecting", "creating", "savingPlan", "returned", "savingFinal",
              "toRelease", "releasing", "logging"}
  /\ runtime' = "failed"
  /\ ppc' = "savingError"
  /\ LoadParent
  /\ UNCHANGED <<parent, waiting, groups, slow, beat, maintenance, childVars, aggVars>>

Close ==
  /\ ppc \in {"logging", "closing"}
  /\ ppc' = "off"
  /\ beat' = "off"
  /\ UNCHANGED <<parent, waiting, groups, slow, runtime, session, maintenance, childVars, aggVars>>

\* The process dies, or the except handler's own save fails.
ParentDies ==
  /\ ppc \notin {"off", "dead"}
  /\ Crashes \/ ppc = "savingError"
  /\ ppc' = "dead"
  /\ beat' = "off"
  /\ session' = NoSession
  /\ UNCHANGED <<parent, waiting, groups, slow, runtime, maintenance, childVars, aggVars>>

---------------------------------------------------------------------------
(* The parent's heartbeat, lease and recovery                              *)

BeatLoad ==
  /\ beat = "on"
  /\ beat' = IF HeldBy(parent, Owner) THEN "renewing" ELSE "off"
  /\ UNCHANGED <<parent, waiting, groups, slow, ppc, runtime, session, maintenance, childVars, aggVars>>

BeatCommit ==
  /\ beat = "renewing"
  /\ aggregator = NoOne
  /\ parent' = Renewed(parent)
  /\ beat' = "on"
  /\ UNCHANGED <<waiting, groups, slow, ppc, runtime, session, maintenance, childVars, aggVars>>

BeatDies ==
  /\ JobAll \in slow
  /\ beat # "off"
  /\ beat' = "off"
  /\ UNCHANGED <<parent, waiting, groups, slow, ppc, runtime, session, maintenance, childVars, aggVars>>

LeaseExpires ==
  /\ parent.lease = "valid"
  /\ JobAll \in slow \/ ppc \in {"off", "dead"}
  /\ parent' = [parent EXCEPT !.lease = "expired"]
  /\ UNCHANGED <<waiting, groups, slow, parentVars, maintenance, childVars, aggVars>>

\* A child's lease may have run out: a lease that is left over some day does,
\* and so does one whose heartbeat died or was slow, although the child's
\* executor may still be at work.
MayBeStale(g) ==
  /\ child[g] = "running"
  /\ \/ lease[g] = "left"
     \/ lease[g] = "kept" /\ (g \in slow \/ cpc[g] = "off")

Recovering(m) == seen[m] # AbsentRow \/ picked[m] # {}

\* recover_stale_running_tasks selects all stale rows, the parent's and the
\* children's, and does not look at who executes them.
RecoverLoad(m) ==
  /\ ~Recovering(m)
  /\ aggregator # m
  /\ \E S \in SUBSET {g \in Group : MayBeStale(g)} :
       /\ Stale(parent) \/ S # {}
       /\ picked' = [picked EXCEPT ![m] = S]
  /\ seen' = [seen EXCEPT ![m] = IF Stale(parent) THEN parent ELSE AbsentRow]
  /\ UNCHANGED <<parent, waiting, groups, slow, parentVars, childVars, aggVars>>

\* The parent's new reason is always written.
RecoverParent(m) ==
  IF seen[m] = AbsentRow
    THEN UNCHANGED <<parent, waiting>>
    ELSE /\ aggregator = NoOne
         /\ parent' = Flush(seen[m], Recovered(seen[m]), parent)
         /\ waiting' = FALSE

\* The heartbeats that may be about to renew a lease that is being cleared.
Renewing == {g \in Group : lease[g] = "kept" /\ cpc[g] # "off"}

RecoverChildren(m) ==
  /\ child' = [g \in Group |-> IF g \in picked[m] THEN "failed" ELSE child[g]]
  /\ \E late \in SUBSET (picked[m] \cap Renewing) :
       lease' = [g \in Group |-> CASE g \in late -> "left"
                                   [] g \in picked[m] \ late -> "none"
                                   [] OTHER -> lease[g]]
  /\ overtaken' = overtaken \cup {g \in picked[m] \ MultiConfig : cpc[g] # "off"}
  /\ UNCHANGED <<errors, cpc>>

\* One commit for all the rows, whatever has become of them since.
RecoverCommit(m) ==
  /\ Recovering(m)
  /\ RecoverParent(m)
  /\ RecoverChildren(m)
  /\ seen' = [seen EXCEPT ![m] = AbsentRow]
  /\ picked' = [picked EXCEPT ![m] = {}]
  /\ UNCHANGED <<groups, slow, parentVars, aggVars>>

---------------------------------------------------------------------------
(* The children                                                            *)

ParentSide == <<parent, waiting, groups, slow, parentVars, maintenance, aggVars, overtaken>>

SaveChild(g, status, failedOnce) ==
  /\ child' = [child EXCEPT ![g] = status]
  /\ lease' = [lease EXCEPT ![g] = "none"]
  /\ errors' = [errors EXCEPT ![g] = failedOnce]

Outcome(failedOnce) == IF failedOnce THEN "failed" ELSE "completed"

\* RUNNING is reported, whatever the row has become; lock and lease stay.
SaveRunning(g) ==
  /\ child' = [child EXCEPT ![g] = "running"]
  /\ UNCHANGED <<lease, errors>>

Goto(g, state) == cpc' = [cpc EXCEPT ![g] = state]

ClaimChild(g) ==
  /\ child[g] = "pending"
  /\ child' = [child EXCEPT ![g] = "running"]
  /\ lease' = [lease EXCEPT ![g] = "kept"]
  /\ Goto(g, "claimed")
  /\ UNCHANGED <<ParentSide, errors>>

StartChild(g) ==
  /\ cpc[g] = "claimed"
  /\ SaveRunning(g)
  /\ Goto(g, "leasing")
  /\ UNCHANGED ParentSide

\* The profile is busy: requeue_claimed_task looks whether the worker still
\* holds the row, and leaves it alone if not.
ProfileBusy(g) ==
  /\ cpc[g] = "leasing"
  /\ Goto(g, IF child[g] = "running" /\ lease[g] = "kept" THEN "requeueing" ELSE "off")
  /\ UNCHANGED <<ParentSide, child, lease, errors>>

\* PENDING again, or FAILED after the last attempt.  The errors column stays
\* 0, and nobody aggregates here.
RequeueChild(g) ==
  /\ cpc[g] = "requeueing"
  /\ \E status \in {"pending", "failed"} : SaveChild(g, status, errors[g])
  /\ Goto(g, "off")
  /\ UNCHANGED ParentSide

EnterCrawl(g) ==
  /\ cpc[g] = "leasing"
  /\ SaveRunning(g)
  /\ Goto(g, "crawling")
  /\ UNCHANGED ParentSide

\* run_job_config reports each config through the child's task: the child's
\* row is COMPLETED or FAILED between two configs.
ConfigDone(g) ==
  /\ cpc[g] = "crawling"
  /\ \E e \in BOOLEAN :
       /\ child' = [child EXCEPT ![g] = Outcome(e)]
       /\ errors' = [errors EXCEPT ![g] = e]
  /\ \E l \in {"none"} \cup IF g \in Renewing \cap MultiConfig THEN {"left"} ELSE {} :
       lease' = [lease EXCEPT ![g] = l]
  /\ Goto(g, "between")
  /\ UNCHANGED ParentSide

\* The next config makes it RUNNING again, without a lock.
NextConfig(g) ==
  /\ cpc[g] = "between"
  /\ g \in MultiConfig
  /\ SaveRunning(g)
  /\ Goto(g, "crawling")
  /\ UNCHANGED ParentSide

\* What the batch counts.  A batch that ends before a config has reported
\* (profile unavailable, a config that raised) has errors; one of several
\* configs may have them of an earlier config.
BatchErrors(g, e) ==
  /\ (cpc[g] # "between" \/ errors[g]) => e
  /\ e => (cpc[g] # "between" \/ errors[g] \/ g \in MultiConfig)

InBatch(g) == cpc[g] \in {"leasing", "crawling", "between"}

\* The child's own result.
FinishChild(g) ==
  /\ InBatch(g)
  /\ \E e \in BOOLEAN : BatchErrors(g, e) /\ SaveChild(g, Outcome(e), e)
  /\ Goto(g, "reported")
  /\ UNCHANGED ParentSide

\* An error reaches the except handler, in a save, in the aggregation or
\* after it: FAILED, with the errors counted so far, and no aggregation.
ChildRaises(g) ==
  /\ InBatch(g) \/ cpc[g] \in {"claimed", "reported", "logging"}
  /\ aggregator # g
  /\ \E e \in BOOLEAN :
       /\ IF InBatch(g) THEN BatchErrors(g, e) ELSE e = errors[g]
       /\ SaveChild(g, "failed", e)
  /\ Goto(g, "off")
  /\ UNCHANGED ParentSide

\* execute_claimed_task saves the result once more.
CloseChild(g) ==
  /\ cpc[g] = "logging"
  /\ SaveChild(g, Outcome(errors[g]), errors[g])
  /\ Goto(g, "off")
  /\ UNCHANGED ParentSide

\* The child's worker dies; its row lock, if it was aggregating, is freed.
ChildDies(g) ==
  /\ Crashes
  /\ cpc[g] # "off"
  /\ Goto(g, "off")
  /\ aggregator' = IF aggregator = g THEN NoOne ELSE aggregator
  /\ verdict' = IF aggregator = g THEN "open" ELSE verdict
  /\ UNCHANGED <<parent, waiting, groups, slow, parentVars, maintenance, child, lease, errors, overtaken>>

---------------------------------------------------------------------------
(* aggregate_parent_task_if_children_finished                              *)

\* Seeded error: maintenance does not look for waiting parents.
MayAggregateChildOnly(a) == a \in Group /\ cpc[a] = "reported"

\* Who gets there: a child that has reported; maintenance, for a parent that
\* is RUNNING and waiting.
MayAggregate(a) ==
  \/ a \in Group /\ cpc[a] = "reported"
  \/ a \in Maintainer /\ ~Recovering(a) /\ parent.status = "running" /\ waiting

EndAggregation(a) ==
  /\ aggregator' = NoOne
  /\ verdict' = "open"
  /\ cpc' = IF a \in Group THEN [cpc EXCEPT ![a] = "logging"] ELSE cpc

\* Seeded error: the status is not checked once the lock is held.
AggregateLockUnchecked(a) ==
  /\ MayAggregate(a)
  /\ aggregator = NoOne
  /\ aggregator' = a
  /\ UNCHANGED <<parent, waiting, groups, slow, parentVars, maintenance, childVars, verdict>>

\* SELECT ... FOR UPDATE, then the check of the status.
AggregateLock(a) ==
  /\ MayAggregate(a)
  /\ aggregator = NoOne
  /\ ~Terminal(parent)
  /\ aggregator' = a
  /\ UNCHANGED <<parent, waiting, groups, slow, parentVars, maintenance, childVars, verdict>>

\* Already aggregated, or failed: nothing to do.
AggregateSkip(g) ==
  /\ MayAggregate(g)
  /\ aggregator = NoOne
  /\ Terminal(parent)
  /\ EndAggregation(g)
  /\ UNCHANGED <<parent, waiting, groups, slow, parentVars, maintenance, child, lease, errors, overtaken>>

Created == {g \in Group : child[g] # "absent"}

\* Seeded error: PENDING children do not hold the aggregation up.
ChildrenNotRunning == Created # {} /\ \A g \in Created : child[g] # "running"

ChildrenFinished ==
  Created # {} /\ \A g \in Created : child[g] \notin {"pending", "running"}

\* Seeded error: the parent fails only if every child has errors.
VerdictOfAll == IF \A g \in Created : errors[g] THEN "failed" ELSE "completed"

\* The verdict looks at the errors columns only.
Verdict == IF \E g \in Created : errors[g] THEN "failed" ELSE "completed"

\* The SELECT of the children.
AggregateRead(a) ==
  /\ aggregator = a
  /\ verdict = "open"
  /\ IF ChildrenFinished
       THEN verdict' = Verdict /\ UNCHANGED <<aggregator, cpc>>
       ELSE EndAggregation(a)
  /\ UNCHANGED <<parent, waiting, groups, slow, parentVars, maintenance, child, lease, errors, overtaken>>

AggregateCommit(a) ==
  /\ aggregator = a
  /\ verdict # "open"
  /\ parent' = Synced(parent, verdict)
  /\ waiting' = FALSE
  /\ EndAggregation(a)
  /\ UNCHANGED <<groups, slow, parentVars, maintenance, child, lease, errors, overtaken>>

---------------------------------------------------------------------------
ParentStep ==
  \/ \E S \in SUBSET Group : SelectConfigs(S)
  \/ \E g \in Group : CreateChild(g)
  \/ PlanLoad \/ SaveCommit \/ ReleaseLoad \/ ReleaseCommit \/ Close

ChildStep(g) ==
  \/ ClaimChild(g) \/ StartChild(g) \/ ProfileBusy(g) \/ RequeueChild(g) \/ EnterCrawl(g)
  \/ ConfigDone(g) \/ NextConfig(g) \/ FinishChild(g) \/ ChildRaises(g) \/ CloseChild(g)
  \/ ChildDies(g)

Aggregate(a) == AggregateLock(a) \/ AggregateRead(a) \/ AggregateCommit(a)

Next ==
  \/ ParentStep \/ Raise \/ ParentDies
  \/ BeatLoad \/ BeatCommit \/ BeatDies \/ LeaseExpires
  \/ \E m \in Maintainer : RecoverLoad(m) \/ RecoverCommit(m)
  \/ \E g \in Group : ChildStep(g) \/ AggregateSkip(g)
  \/ \E a \in Aggregator : Aggregate(a)

Spec == Init /\ [][Next]_vars

---------------------------------------------------------------------------
(* Fairness.  The parent's coroutine and its heartbeat are scheduled, the  *)
(* children are claimed, leases run out, and who holds the parent's row    *)
(* lock gets on.  Every round of maintenance recovers before it            *)
(* aggregates, whatever it did last time, and it gets the row lock some    *)
(* day; a child that keeps finding its profile busy, or goes through many  *)
(* configs, gets to its report some day: strong fairness.  Nothing forces  *)
(* an error, a crash, a busy profile, nor a finished child's aggregation.  *)
Fairness ==
  /\ WF_vars(ParentStep)
  /\ WF_vars(BeatLoad \/ BeatCommit) /\ WF_vars(LeaseExpires)
  /\ \A m \in Maintainer :
       SF_vars(RecoverLoad(m)) /\ WF_vars(RecoverCommit(m)) /\ SF_vars(AggregateLock(m))
  /\ SF_vars(\E g \in Group : FinishChild(g))
  /\ WF_vars(\E g \in Group : ClaimChild(g) \/ StartChild(g) \/ RequeueChild(g))
  /\ WF_vars(\E a \in Aggregator : AggregateRead(a) \/ AggregateCommit(a))

FairSpec == Spec /\ Fairness

---------------------------------------------------------------------------
(* Properties                                                              *)

\* The parent's coroutine came to its end, and so did its row.
Settled == ppc = "off" /\ Terminal(parent)

\* The groups whose rows may turn RUNNING, or count errors, after a result
\* that an aggregation has seen: between two configs of a batch the row is
\* COMPLETED or FAILED, and an executor overtaken by a recovery goes on.
Reopening == MultiConfig \cup overtaken

\* A parent that ends COMPLETED has created every child, and every child but
\* those is finished, although the parent may have been aggregated before the
\* last child was created: the later saves of its own coroutine reopen it.
CompletedCoversAllGroups ==
  Settled /\ parent.status = "completed" =>
    /\ groups \subseteq Created
    /\ \A g \in groups \ Reopening : child[g] \in TerminalStatus

\* An error such a child has counted makes the parent FAILED.
ErrorsReachParent ==
  Settled /\ parent.status = "completed" => \A g \in groups \ Reopening : ~errors[g]

\* An aggregation never overwrites a result: not an earlier aggregation's,
\* nor the FAILED that recovery or the parent's own handler has written.
AggregationKeepsResults ==
  [][\A a \in Aggregator : AggregateCommit(a) => ~Terminal(parent)]_vars

\* Its worker is gone, its row is RUNNING without a lease, and no recovery
\* selects it: a batch after its first config, or an overtaken executor that
\* has reported RUNNING again, and died then.
Orphaned(g) == child[g] = "running" /\ lease[g] = "none" /\ cpc[g] = "off"

\* A late recovery has cleared the parent's reason between the load and the
\* commit of a save that reopens the row: nobody looks for the parent again.
Forgotten ==
  /\ ppc \in {"off", "dead"}
  /\ parent.status = "running" /\ parent.lease = "none" /\ ~waiting

\* The parent gets a result for good, although processes die and the last
\* child may be killed or fail without calling the aggregation.  The two
\* exceptions are an orphan, which is a batch or an overtaken child, and, when
\* the parent's lease may run out under its coroutine, a forgotten parent.
ParentSettles ==
  <>[](\/ Terminal(parent)
       \/ \E g \in Reopening : Orphaned(g)
       \/ JobAll \in slow /\ Forgotten)

---------------------------------------------------------------------------
(* Statements of the repository that the code does not keep                *)

\* doc/backend-architecture.md: a failed child makes the parent FAILED.
FailedChildFailsParent ==
  Settled /\ parent.status = "completed" => \A g \in groups : child[g] # "failed"
=============================================================================
