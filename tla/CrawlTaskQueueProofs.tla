----------------------- MODULE CrawlTaskQueueProofs -----------------------
(***************************************************************************)
(* Proofs about CrawlTaskQueue for every set of tasks and workers, every   *)
(* concurrency, filter and attempt limit.  The first part holds whatever   *)
(* the timing: TimelyHeartbeats, WorkersCrash and MultiConfig are not      *)
(* restricted.  The last part is about the system its authors had in mind: *)
(* no lease expires under a living heartbeat, and no task reports RUNNING  *)
(* again after a result (workers may still crash).                         *)
(***************************************************************************)
EXTENDS CrawlTaskQueue, TLAPS

\* What the coroutine of w for t knows about the row while it is at work.
ExecutorInv ==
  \A w \in Worker, t \in Task :
    /\ Executing(w, t) =>
         /\ runtime[w][t] \in {"running", "completed", "failed"}
         /\ row[t].status \notin {"absent", "pending"}
         /\ row[t].attempts < MaxRequeue
         /\ \A v \in Worker \ {w} : ~Executing(v, t)
    \* An open save saw the lock if there is one, and the result if there is one.
    /\ pc[w][t] \in Saving =>
         /\ loaded[w][t].lockedBy # NoWorker => loaded[w][t].status = "running"
         /\ loaded[w][t].lockedBy = NoWorker => row[t].lockedBy = NoWorker
         /\ Terminal(loaded[w][t]) => Terminal(row[t])
         /\ loaded[w][t].status \notin {"absent", "pending"}
    \* An open requeue holds the row, unless maintenance has failed it meanwhile.
    /\ pc[w][t] = "requeueing" =>
         /\ HeldBy(loaded[w][t], w)
         /\ loaded[w][t].attempts = row[t].attempts
         /\ HeldBy(row[t], w) \/ Terminal(row[t])

\* What a maintenance transaction knows about a row it has selected.
MaintenanceInv ==
  \A m \in Maintainer, t \in Task :
    t \in selected[m] =>
      /\ seen[m][t].status = "running"
      /\ row[t].status # "absent"
      /\ seen[m][t].lockedBy = NoWorker =>
           /\ row[t].lockedBy = NoWorker
           /\ row[t].status \notin {"absent", "pending"}
           /\ \A v \in Worker : pc[v][t] # "requeueing"

\* Every claim but the last has been paid for with an attempt.
GrantPaid(r, n) ==
  \/ n <= r.attempts /\ (r.status = "absent" => n = 0)
  \/ /\ r.attempts < MaxRequeue
     /\ n = r.attempts + 1
     /\ r.status \notin {"absent", "pending"}

GrantsInv == \A t \in Task : GrantPaid(row[t], grants[t])

IInv ==
  /\ TypeOK
  /\ ExecutorInv
  /\ MaintenanceInv
  /\ LockedIsRunning
  /\ PendingIsClaimable
  /\ GrantsInv

---------------------------------------------------------------------------
(* What the row operators return                                           *)

USE NoWorkerAssumption, MaxRequeueAssumption DEF executor, maintenance

\* A commit of columns taken from three rows writes a row.
LEMMA FlushType ==
  ASSUME NEW l \in Row, NEW a \in Row, NEW c \in Row
  PROVE  Flush(l, a, c) \in Row
BY DEF Flush, Written, Row

\* sync_record_from_runtime_task writes the runtime status, keeps the
\* attempts, and keeps the lock exactly when the status is RUNNING.
LEMMA SyncedType ==
  ASSUME NEW r \in Row, NEW s \in {"running", "completed", "failed"}
  PROVE  /\ Synced(r, s) \in Row
         /\ Synced(r, s).status = s
         /\ Synced(r, s).attempts = r.attempts
         /\ s = "running" => Synced(r, s).lockedBy = r.lockedBy
         /\ s # "running" => Synced(r, s).lockedBy = NoWorker
BY DEF Synced, Row, Status, Lease, TerminalStatus

\* requeue_claimed_task unlocks, counts one attempt, and offers the row again
\* only while an attempt is left.
LEMMA RequeuedType ==
  ASSUME NEW r \in Row, r.attempts < MaxRequeue
  PROVE  /\ Requeued(r) \in Row
         /\ Requeued(r).lockedBy = NoWorker
         /\ Requeued(r).attempts = r.attempts + 1
         /\ Requeued(r).status \in {"pending", "failed"}
         /\ Requeued(r).status = "pending" => r.attempts + 1 < MaxRequeue
BY DEF Requeued, Row, Status, Lease

\* recover_stale_running_tasks fails and unlocks the row.
LEMMA RecoveredType ==
  ASSUME NEW r \in Row
  PROVE  /\ Recovered(r) \in Row
         /\ Recovered(r).status = "failed"
         /\ Recovered(r).lockedBy = NoWorker
         /\ Recovered(r).attempts = r.attempts
BY DEF Recovered, Row, Status, Lease

\* A missing row and a freshly inserted one are rows.
LEMMA NewRows == AbsentRow \in Row /\ NewRow \in Row
BY DEF AbsentRow, NewRow, Row, Status, Lease

\* A claim, a renewal and the passing of time make rows of rows.
LEMMA RowsOfOperators ==
  ASSUME NEW r \in Row, NEW w \in Worker
  PROVE  /\ Claimed(r, w) \in Row /\ Renewed(r) \in Row
         /\ [r EXCEPT !.lease = "expired"] \in Row
         /\ [r EXCEPT !.deferred = FALSE] \in Row
<1> USE DEF Row, Status, Lease
<1>2. Claimed(r, w) \in Row
  BY DEF Claimed
<1>3. Renewed(r) \in Row /\ [r EXCEPT !.lease = "expired"] \in Row
  BY DEF Renewed
<1>4. [r EXCEPT !.deferred = FALSE] \in Row
  OBVIOUS
<1> QED
  BY <1>2, <1>3, <1>4

---------------------------------------------------------------------------
\* The invariant holds before anything has been submitted.
LEMMA InitIInv == Init => IInv
<1> SUFFICES ASSUME Init PROVE IInv
  OBVIOUS
<1>1. AbsentRow \in Row
  BY DEF AbsentRow, Row, Status, Lease
<1>2. TypeOK
  BY <1>1 DEF Init, TypeOK, PC, Beat, Status
<1>3. ExecutorInv /\ MaintenanceInv
  BY DEF Init, ExecutorInv, MaintenanceInv, Executing, Saving
<1>4. LockedIsRunning /\ PendingIsClaimable /\ GrantsInv
  BY DEF Init, LockedIsRunning, PendingIsClaimable, GrantsInv, GrantPaid, AbsentRow
<1> QED
  BY <1>2, <1>3, <1>4 DEF IInv

---------------------------------------------------------------------------
(* One lemma per action: the step preserves the inductive invariant.       *)

\* Starting the heartbeat coroutine preserves the invariant.
LEMMA BeginIInv ==
  ASSUME IInv, NEW w \in Worker, NEW t \in Task, Begin(w, t)
  PROVE  IInv'
<1> USE DEF Begin, Goto, IInv
<1>1. TypeOK'
  BY DEF TypeOK, PC, Beat
<1>2. ExecutorInv'
  BY DEF TypeOK, ExecutorInv, Executing, Saving
<1>3. MaintenanceInv' /\ LockedIsRunning' /\ PendingIsClaimable' /\ GrantsInv'
  BY DEF TypeOK, MaintenanceInv, Maintainer, LockedIsRunning, PendingIsClaimable, GrantsInv
<1> QED
  BY <1>1, <1>2, <1>3

\* Acquiring the profile lease preserves the invariant.
LEMMA EnterCrawlIInv ==
  ASSUME IInv, NEW w \in Worker, NEW t \in Task, EnterCrawl(w, t)
  PROVE  IInv'
<1> USE DEF EnterCrawl, Goto, IInv
<1>1. TypeOK'
  BY DEF TypeOK, PC
<1>2. ExecutorInv'
  BY DEF TypeOK, ExecutorInv, Executing, Saving
<1>3. MaintenanceInv'
  BY DEF TypeOK, MaintenanceInv, Maintainer
<1>4. LockedIsRunning' /\ PendingIsClaimable' /\ GrantsInv'
  BY DEF LockedIsRunning, PendingIsClaimable, GrantsInv
<1> QED
  BY <1>1, <1>2, <1>3, <1>4

\* A claim finds a PENDING row, which nobody executes and no open
\* transaction of an executor will overwrite.
LEMMA ClaimIInv ==
  ASSUME IInv, NEW w \in Worker, NEW t \in Task, Claim(w, t)
  PROVE  IInv'
<1> USE DEF Claim, IInv
<1>1. TypeOK'
  <2>1. Claimed(row[t], w) \in Row
    BY RowsOfOperators DEF TypeOK
  <2> QED
    BY <2>1 DEF TypeOK, PC, Status, Beat
<1>2. ExecutorInv'
  BY DEF TypeOK, ExecutorInv, Executing, Saving, Claimed, Claimable
<1>3. MaintenanceInv'
  BY DEF TypeOK, MaintenanceInv, Maintainer, Claimed, Claimable
<1>4. LockedIsRunning'
  BY DEF TypeOK, LockedIsRunning, Claimed
<1>5. PendingIsClaimable'
  BY DEF TypeOK, PendingIsClaimable, Claimed
<1>6. GrantsInv'
  <2>1. GrantPaid(Claimed(row[t], w), grants[t] + 1)
    <3>1. row[t].attempts \in Nat /\ grants[t] \in Nat
      BY DEF TypeOK, Row
    <3>2. grants[t] <= row[t].attempts /\ row[t].attempts < MaxRequeue
      BY <3>1 DEF GrantsInv, GrantPaid, Claimable
    <3>3. /\ Claimed(row[t], w).status = "running"
          /\ Claimed(row[t], w).attempts = row[t].attempts
      BY DEF Claimed
    <3>4. CASE grants[t] = row[t].attempts
      BY <3>1, <3>2, <3>3, <3>4 DEF GrantPaid
    <3>5. CASE grants[t] < row[t].attempts
      <4>1. grants[t] + 1 <= row[t].attempts
        BY <3>1, <3>5
      <4> QED
        BY <3>3, <4>1 DEF GrantPaid
    <3> QED
      BY <3>1, <3>2, <3>4, <3>5
  <2> QED
    BY <2>1 DEF TypeOK, GrantsInv
<1> QED
  BY <1>1, <1>2, <1>3, <1>4, <1>5, <1>6

\* Inserting a row preserves the invariant: nobody can know it yet.
LEMMA SubmitIInv ==
  ASSUME IInv, NEW t \in Task, Submit(t)
  PROVE  IInv'
<1> USE DEF Submit, IInv
<1>1. TypeOK'
  BY NewRows DEF TypeOK
<1>2. ExecutorInv'
  BY DEF TypeOK, ExecutorInv, Executing, Saving, NewRow, HeldBy, Terminal, TerminalStatus
<1>3. MaintenanceInv'
  BY DEF TypeOK, MaintenanceInv, Maintainer, NewRow
<1>4. LockedIsRunning' /\ PendingIsClaimable'
  BY DEF TypeOK, LockedIsRunning, PendingIsClaimable, NewRow
<1>5. GrantsInv'
  <2>1. GrantPaid(NewRow, grants[t])
    BY DEF TypeOK, Row, GrantsInv, GrantPaid, NewRow
  <2> QED
    BY <2>1 DEF TypeOK, GrantsInv
<1> QED
  BY <1>1, <1>2, <1>3, <1>4, <1>5

\* Starting a worker process preserves the invariant.
LEMMA StartWorkerIInv ==
  ASSUME IInv, NEW w \in Worker, StartWorker(w)
  PROVE  IInv'
BY DEF StartWorker, IInv, TypeOK, ExecutorInv, Executing, MaintenanceInv,
       LockedIsRunning, PendingIsClaimable, GrantsInv

\* Opening a save sees a row that an executor may find: not PENDING.
LEMMA ReportLoadIInv ==
  ASSUME IInv, NEW w \in Worker, NEW t \in Task,
         NEW s \in {"running", "completed", "failed"}, ReportLoad(w, t, s)
  PROVE  IInv'
<1>1. PICK q \in {"savingClaimed", "savingCrawling"} :
        /\ pc[w][t] \in {"claimed", "crawling"}
        /\ pc' = [pc EXCEPT ![w][t] = q]
  BY DEF ReportLoad, Goto
<1>2. /\ runtime' = [runtime EXCEPT ![w][t] = s]
      /\ loaded' = [loaded EXCEPT ![w][t] = row[t]]
      /\ UNCHANGED <<row, up, beat, maintenance, grants>>
  BY DEF ReportLoad, Load
<1>3. TypeOK'
  BY <1>1, <1>2 DEF IInv, TypeOK, PC, Status
<1>4. ExecutorInv'
  BY <1>1, <1>2 DEF IInv, TypeOK, ExecutorInv, LockedIsRunning, Executing, Saving
<1>5. MaintenanceInv'
  BY <1>1, <1>2 DEF IInv, TypeOK, MaintenanceInv, Maintainer
<1>6. LockedIsRunning' /\ PendingIsClaimable' /\ GrantsInv'
  BY <1>2 DEF IInv, LockedIsRunning, PendingIsClaimable, GrantsInv
<1> QED
  BY <1>3, <1>4, <1>5, <1>6 DEF IInv

\* Opening the save of the result sees such a row, too.
LEMMA FinishLoadIInv ==
  ASSUME IInv, NEW w \in Worker, NEW t \in Task,
         NEW s \in TerminalStatus, FinishLoad(w, t, s)
  PROVE  IInv'
<1> USE DEF FinishLoad, Goto, Load, IInv, TerminalStatus
<1>1. TypeOK'
  BY DEF TypeOK, PC, Status
<1>2. ExecutorInv'
  BY DEF TypeOK, ExecutorInv, LockedIsRunning, Executing, Saving
<1>3. MaintenanceInv'
  BY DEF TypeOK, MaintenanceInv, Maintainer
<1>4. LockedIsRunning' /\ PendingIsClaimable' /\ GrantsInv'
  BY DEF LockedIsRunning, PendingIsClaimable, GrantsInv
<1> QED
  BY <1>1, <1>2, <1>3, <1>4

\* What the commit of a save makes of the row of a task being executed.
LEMMA SavedRow ==
  ASSUME IInv, NEW w \in Worker, NEW t \in Task, pc[w][t] \in Saving
  PROVE  LET r == Flush(loaded[w][t], Synced(loaded[w][t], runtime[w][t]), row[t]) IN
         /\ r \in Row
         /\ r.attempts = row[t].attempts
         /\ r.status \notin {"absent", "pending"}
         /\ r.lockedBy \in {row[t].lockedBy, NoWorker}
         /\ r.lockedBy # NoWorker => r.status = "running"
<1> DEFINE l == loaded[w][t]
           a == Synced(l, runtime[w][t])
           r == Flush(l, a, row[t])
<1>1. /\ l \in Row /\ row[t] \in Row
      /\ runtime[w][t] \in {"running", "completed", "failed"}
      /\ Executing(w, t)
  BY DEF IInv, TypeOK, ExecutorInv, Saving, Executing
<1>2. /\ a \in Row /\ r \in Row
      /\ a.status = runtime[w][t]
      /\ a.attempts = l.attempts
      /\ a.status = "running" => a.lockedBy = l.lockedBy
      /\ a.status # "running" => a.lockedBy = NoWorker
  BY <1>1, SyncedType, FlushType
<1>3. /\ r.attempts = row[t].attempts
      /\ r.status \in {row[t].status, "running", "completed", "failed"}
      /\ r.lockedBy \in {row[t].lockedBy, NoWorker}
      /\ r.lockedBy # NoWorker => r.status = "running"
  BY <1>1, <1>2 DEF Flush, Written, IInv, ExecutorInv, LockedIsRunning,
                    Terminal, TerminalStatus
<1>4. row[t].status \notin {"absent", "pending"}
  BY <1>1 DEF IInv, ExecutorInv
<1> QED
  BY <1>2, <1>3, <1>4

\* Committing a save never makes a row PENDING and never leaves a lock on
\* a row with a result, though the row has changed since it was loaded.
LEMMA SaveCommitIInv ==
  ASSUME IInv, NEW w \in Worker, NEW t \in Task, SaveCommit(w, t)
  PROVE  IInv'
<1> DEFINE r == Flush(loaded[w][t], Synced(loaded[w][t], runtime[w][t]), row[t])
           q == AfterSave(pc[w][t])
<1>1. Executing(w, t) /\ row[t] \in Row
  BY DEF IInv, TypeOK, SaveCommit, Saving, Executing
<1>2. /\ r \in Row
      /\ r.attempts = row[t].attempts
      /\ r.lockedBy \in {row[t].lockedBy, NoWorker}
      /\ r.lockedBy # NoWorker => r.status = "running"
      /\ r.status \notin {"absent", "pending"}
      /\ row[t].status \notin {"absent", "pending"}
  BY <1>1, SavedRow DEF SaveCommit, IInv, ExecutorInv
<1>3. q \in {"claimed", "crawling", "logging", "closing"}
  BY DEF SaveCommit, Saving, AfterSave
<1>4. /\ row' = [row EXCEPT ![t] = r]
      /\ pc' = [pc EXCEPT ![w][t] = q]
      /\ loaded' = [loaded EXCEPT ![w][t] = AbsentRow]
      /\ UNCHANGED <<up, runtime, beat, maintenance, grants>>
  BY DEF SaveCommit, Goto
<1> HIDE DEF r, q
<1>5. TypeOK'
  BY <1>2, <1>3, <1>4, NewRows DEF IInv, TypeOK, PC
<1>6. ExecutorInv'
  BY <1>1, <1>2, <1>3, <1>4
     DEF IInv, TypeOK, ExecutorInv, Executing, Saving, Terminal, HeldBy
<1>7. MaintenanceInv'
  BY <1>2, <1>3, <1>4 DEF IInv, TypeOK, MaintenanceInv, Maintainer
<1>8. LockedIsRunning' /\ PendingIsClaimable'
  BY <1>2, <1>4 DEF IInv, TypeOK, LockedIsRunning, PendingIsClaimable
<1>9. GrantsInv'
  <2>1. GrantPaid(r, grants[t])
    BY <1>2 DEF IInv, GrantsInv, GrantPaid
  <2> QED
    BY <2>1, <1>4 DEF IInv, TypeOK, GrantsInv
<1> QED
  BY <1>5, <1>6, <1>7, <1>8, <1>9 DEF IInv

\* Opening the except handler's save preserves the invariant.
LEMMA RaiseIInv ==
  ASSUME IInv, NEW w \in Worker, NEW t \in Task, Raise(w, t)
  PROVE  IInv'
<1> USE DEF Raise, Goto, Load, IInv
<1>1. TypeOK'
  BY DEF TypeOK, PC, Status
<1>2. ExecutorInv'
  BY DEF TypeOK, ExecutorInv, LockedIsRunning, Executing, Saving
<1>3. MaintenanceInv'
  BY DEF TypeOK, MaintenanceInv, Maintainer
<1>4. LockedIsRunning' /\ PendingIsClaimable' /\ GrantsInv'
  BY DEF LockedIsRunning, PendingIsClaimable, GrantsInv
<1> QED
  BY <1>1, <1>2, <1>3, <1>4

\* Giving up a save inside a batch preserves the invariant.
LEMMA SaveSkippedIInv ==
  ASSUME IInv, NEW w \in Worker, NEW t \in Task, SaveSkipped(w, t)
  PROVE  IInv'
<1> USE DEF SaveSkipped, Goto, IInv
<1>1. TypeOK'
  BY NewRows DEF TypeOK, PC
<1>2. ExecutorInv'
  BY DEF TypeOK, ExecutorInv, Executing, Saving
<1>3. MaintenanceInv' /\ LockedIsRunning' /\ PendingIsClaimable' /\ GrantsInv'
  BY DEF TypeOK, MaintenanceInv, Maintainer, LockedIsRunning, PendingIsClaimable, GrantsInv
<1> QED
  BY <1>1, <1>2, <1>3

\* An open requeue has seen the row held by its worker.
LEMMA RequeueLoadIInv ==
  ASSUME IInv, NEW w \in Worker, NEW t \in Task, RequeueLoad(w, t)
  PROVE  IInv'
<1>1. CASE HeldBy(row[t], w)
  <2>1. /\ pc[w][t] = "claimed"
        /\ pc' = [pc EXCEPT ![w][t] = "requeueing"]
        /\ loaded' = [loaded EXCEPT ![w][t] = row[t]]
        /\ UNCHANGED <<row, up, runtime, beat, maintenance, grants>>
    BY <1>1 DEF RequeueLoad, Goto, Load
  <2>2. TypeOK'
    BY <2>1 DEF IInv, TypeOK, PC
  <2>3. ExecutorInv'
    BY <2>1, <1>1 DEF IInv, TypeOK, ExecutorInv, Executing, Saving
  <2>4. MaintenanceInv'
    BY <2>1, <1>1 DEF IInv, TypeOK, MaintenanceInv, Maintainer, HeldBy
  <2>5. LockedIsRunning' /\ PendingIsClaimable' /\ GrantsInv'
    BY <2>1 DEF IInv, LockedIsRunning, PendingIsClaimable, GrantsInv
  <2> QED
    BY <2>2, <2>3, <2>4, <2>5 DEF IInv
<1>2. CASE ~HeldBy(row[t], w)
  <2>1. /\ pc' = [pc EXCEPT ![w][t] = "closing"]
        /\ UNCHANGED <<row, up, runtime, loaded, beat, maintenance, grants>>
    BY <1>2 DEF RequeueLoad, Goto
  <2>2. TypeOK'
    BY <2>1 DEF IInv, TypeOK, PC
  <2>3. ExecutorInv' /\ MaintenanceInv'
    BY <2>1 DEF IInv, TypeOK, ExecutorInv, Executing, Saving, MaintenanceInv, Maintainer
  <2>4. LockedIsRunning' /\ PendingIsClaimable' /\ GrantsInv'
    BY <2>1 DEF IInv, LockedIsRunning, PendingIsClaimable, GrantsInv
  <2> QED
    BY <2>2, <2>3, <2>4 DEF IInv
<1> QED
  BY <1>1, <1>2

\* Committing a requeue counts the attempt that the claim has used, also
\* when maintenance has failed the row in between.
LEMMA RequeueCommitIInv ==
  ASSUME IInv, NEW w \in Worker, NEW t \in Task, RequeueCommit(w, t)
  PROVE  IInv'
<1> DEFINE l == loaded[w][t]
           a == Requeued(l)
           r == Flush(l, a, row[t])
<1>1. /\ l \in Row /\ row[t] \in Row
      /\ Executing(w, t)
      /\ row[t].attempts < MaxRequeue /\ l.attempts = row[t].attempts
      /\ l.status = "running" /\ l.lockedBy = w
  <2>1. pc[w][t] = "requeueing" /\ Executing(w, t)
    BY DEF RequeueCommit, Executing
  <2>2. l \in Row /\ row[t] \in Row
    BY DEF IInv, TypeOK
  <2> QED
    BY <2>1, <2>2 DEF IInv, ExecutorInv, HeldBy
<1>2. /\ a \in Row /\ r \in Row
      /\ a.lockedBy = NoWorker
      /\ a.attempts = l.attempts + 1
      /\ a.status \in {"pending", "failed"}
      /\ a.status = "pending" => l.attempts + 1 < MaxRequeue
  BY <1>1, RequeuedType, FlushType
<1>3. /\ r.status = a.status /\ r.lockedBy = NoWorker
      /\ r.attempts = row[t].attempts + 1
  <2>1. l.attempts \in Nat
    BY <1>1 DEF Row
  <2> QED
    BY <1>1, <1>2, <2>1 DEF Flush, Written
<1>4. /\ row' = [row EXCEPT ![t] = r]
      /\ pc' = [pc EXCEPT ![w][t] = "closing"]
      /\ loaded' = [loaded EXCEPT ![w][t] = AbsentRow]
      /\ UNCHANGED <<up, runtime, beat, maintenance, grants>>
      /\ pc[w][t] = "requeueing"
  BY DEF RequeueCommit, Goto
<1> HIDE DEF l, a, r
<1>5. TypeOK'
  BY <1>2, <1>4, NewRows DEF IInv, TypeOK, PC
<1>6. ExecutorInv'
  BY <1>1, <1>4 DEF IInv, TypeOK, ExecutorInv, Executing, Saving
<1>7. MaintenanceInv'
  BY <1>2, <1>3, <1>4 DEF IInv, TypeOK, MaintenanceInv, Maintainer
<1>8. LockedIsRunning' /\ PendingIsClaimable'
  BY <1>1, <1>2, <1>3, <1>4 DEF IInv, TypeOK, LockedIsRunning, PendingIsClaimable
<1>9. GrantsInv'
  <2>1. GrantPaid(r, grants[t])
    <3>1. row[t].attempts \in Nat /\ grants[t] \in Nat
      BY <1>1 DEF IInv, TypeOK, Row
    <3>2. GrantPaid(row[t], grants[t])
      BY DEF IInv, GrantsInv
    <3> QED
      BY <3>1, <3>2, <1>2, <1>3 DEF GrantPaid
  <2> QED
    BY <2>1, <1>4 DEF IInv, TypeOK, GrantsInv
<1> QED
  BY <1>5, <1>6, <1>7, <1>8, <1>9 DEF IInv

\* The end of a coroutine preserves the invariant, however it ends.
LEMMA EndIInv ==
  ASSUME IInv, NEW w \in Worker, NEW t \in Task,
         ExecutionDies(w, t) \/ Close(w, t)
  PROVE  IInv'
<1>1. CASE ExecutionDies(w, t)
  BY <1>1, NewRows DEF ExecutionDies, Goto, IInv, TypeOK, PC, ExecutorInv, Executing, Saving,
     MaintenanceInv, Maintainer, LockedIsRunning, PendingIsClaimable, GrantsInv
<1>2. CASE Close(w, t)
  BY <1>2 DEF Close, Goto, IInv, TypeOK, PC, Status, Beat, ExecutorInv, Executing, Saving,
     MaintenanceInv, Maintainer, LockedIsRunning, PendingIsClaimable, GrantsInv
<1> QED
  BY <1>1, <1>2

---------------------------------------------------------------------------
(* Steps that change no column the invariants speak of                      *)

\* The row of t changes in lease and deferred only.
TouchesLease(t, r) ==
  /\ row' = [row EXCEPT ![t] = r]
  /\ r \in Row
  /\ r.status = row[t].status
  /\ r.lockedBy = row[t].lockedBy
  /\ r.attempts = row[t].attempts

\* A step that changes only a lease or a delay preserves the invariant.
LEMMA TouchesLeaseIInv ==
  ASSUME IInv, NEW t \in Task, NEW r, TouchesLease(t, r),
         beat' \in [Worker -> [Task -> Beat]],
         UNCHANGED <<up, executor, maintenance, grants>>
  PROVE  IInv'
<1> USE DEF TouchesLease, IInv
<1>1. TypeOK'
  BY DEF TypeOK
<1>2. ExecutorInv'
  BY DEF TypeOK, ExecutorInv, Executing, Saving, HeldBy, Terminal
<1>3. MaintenanceInv'
  BY DEF TypeOK, MaintenanceInv, Maintainer
<1>4. LockedIsRunning' /\ PendingIsClaimable' /\ GrantsInv'
  BY DEF TypeOK, LockedIsRunning, PendingIsClaimable, GrantsInv, GrantPaid
<1> QED
  BY <1>1, <1>2, <1>3, <1>4

\* A late renewal touches nothing but the lease.
LEMMA HeartbeatIInv ==
  ASSUME IInv, NEW w \in Worker, NEW t \in Task, Heartbeat(w, t)
  PROVE  IInv'
<1>1. CASE BeatCommit(w, t)
  <2>1. TouchesLease(t, Renewed(row[t]))
    BY <1>1, RowsOfOperators DEF BeatCommit, TouchesLease, Renewed, IInv, TypeOK, Row
  <2> QED
    BY <1>1, <2>1, TouchesLeaseIInv DEF BeatCommit, IInv, TypeOK, Beat
<1>2. CASE BeatLoad(w, t) \/ BeatDies(w, t)
  <2>1. PICK b \in Beat : beat' = [beat EXCEPT ![w][t] = b]
    BY <1>2 DEF BeatLoad, BeatDies, Beat
  <2>2. /\ beat' \in [Worker -> [Task -> Beat]]
        /\ UNCHANGED <<row, up, executor, maintenance, grants>>
    BY <1>2, <2>1 DEF BeatLoad, BeatDies, IInv, TypeOK
  <2> QED
    BY <2>2 DEF IInv, TypeOK, ExecutorInv, Executing, MaintenanceInv,
                LockedIsRunning, PendingIsClaimable, GrantsInv
<1> QED
  BY <1>1, <1>2 DEF Heartbeat

\* The passing of time preserves the invariant.
LEMMA TimeIInv ==
  ASSUME IInv, NEW t \in Task, LeaseExpires(t) \/ DelayPasses(t)
  PROVE  IInv'
<1>1. CASE LeaseExpires(t)
  <2>1. TouchesLease(t, [row[t] EXCEPT !.lease = "expired"])
    <3>1. row[t] \in Row /\ row' = [row EXCEPT ![t] = [row[t] EXCEPT !.lease = "expired"]]
      BY <1>1 DEF LeaseExpires, IInv, TypeOK
    <3> QED
      BY <3>1 DEF TouchesLease, Row, Lease
  <2> QED
    BY <1>1, <2>1, TouchesLeaseIInv DEF LeaseExpires, IInv, TypeOK
<1>2. CASE DelayPasses(t)
  <2>1. TouchesLease(t, [row[t] EXCEPT !.deferred = FALSE])
    <3>1. row[t] \in Row /\ row' = [row EXCEPT ![t] = [row[t] EXCEPT !.deferred = FALSE]]
      BY <1>2 DEF DelayPasses, IInv, TypeOK
    <3> QED
      BY <3>1 DEF TouchesLease, Row
  <2> QED
    BY <1>2, <2>1, TouchesLeaseIInv DEF DelayPasses, IInv, TypeOK
<1> QED
  BY <1>1, <1>2

---------------------------------------------------------------------------
(* Maintenance, and processes that stop                                    *)

\* A stale row is RUNNING when maintenance selects it; if it is unlocked
\* already, no executor has a requeue of it open.
LEMMA RecoverLoadIInv ==
  ASSUME IInv, NEW m \in Maintainer, RecoverLoad(m)
  PROVE  IInv'
<1> DEFINE stale == {t \in Task : Stale(row[t])}
<1>1. /\ selected' = [selected EXCEPT ![m] = stale]
      /\ seen' = [seen EXCEPT ![m] =
                    [t \in Task |-> IF t \in stale THEN row[t] ELSE AbsentRow]]
      /\ UNCHANGED <<row, up, executor, beat, grants>>
  BY DEF RecoverLoad
<1>2. \A t \in Task : t \in stale <=> Stale(row[t])
  OBVIOUS
<1>3. stale \in SUBSET Task
  OBVIOUS
<1> HIDE DEF stale
<1>4. TypeOK'
  BY <1>1, <1>3, NewRows DEF IInv, TypeOK
<1>5. ExecutorInv'
  BY <1>1 DEF IInv, ExecutorInv, Executing
<1>6. MaintenanceInv'
  <2> SUFFICES ASSUME NEW n \in Maintainer, NEW t \in Task, t \in selected'[n]
               PROVE  /\ seen'[n][t].status = "running"
                      /\ row[t].status # "absent"
                      /\ seen'[n][t].lockedBy = NoWorker =>
                           /\ row[t].lockedBy = NoWorker
                           /\ row[t].status \notin {"absent", "pending"}
                           /\ \A v \in Worker : pc[v][t] # "requeueing"
    BY <1>1 DEF MaintenanceInv
  <2>1. CASE n # m
    BY <1>1, <2>1 DEF IInv, TypeOK, MaintenanceInv
  <2>2. CASE n = m
    <3>1. t \in stale /\ seen'[n][t] = row[t]
      BY <1>1, <2>2 DEF IInv, TypeOK
    <3>2. row[t].status = "running"
      BY <1>2, <3>1 DEF Stale
    <3>3. row[t].lockedBy = NoWorker => \A v \in Worker : pc[v][t] # "requeueing"
      BY <3>2 DEF IInv, ExecutorInv, HeldBy, Terminal, TerminalStatus
    <3> QED
      BY <3>1, <3>2, <3>3
  <2> QED
    BY <2>1, <2>2
<1>7. LockedIsRunning' /\ PendingIsClaimable' /\ GrantsInv'
  BY <1>1 DEF IInv, LockedIsRunning, PendingIsClaimable, GrantsInv
<1> QED
  BY <1>4, <1>5, <1>6, <1>7 DEF IInv

\* What the commit of a recovery makes of one row.
LEMMA RecoveredRow ==
  ASSUME IInv, NEW m \in Maintainer, NEW t \in Task, t \in selected[m]
  PROVE  LET r == Flush(seen[m][t], Recovered(seen[m][t]), row[t]) IN
         /\ r \in Row
         /\ r.status = "failed"
         /\ r.lockedBy = NoWorker
         /\ r.attempts = row[t].attempts
<1>1. seen[m][t] \in Row /\ row[t] \in Row /\ seen[m][t].status = "running"
  BY DEF IInv, TypeOK, MaintenanceInv
<1>2. seen[m][t].lockedBy = NoWorker => row[t].lockedBy = NoWorker
  BY DEF IInv, MaintenanceInv
<1>3. Recovered(seen[m][t]) \in Row
  BY <1>1, RecoveredType
<1>4. Flush(seen[m][t], Recovered(seen[m][t]), row[t]) \in Row
  BY <1>1, <1>3, FlushType
<1> QED
  BY <1>1, <1>2, <1>4, RecoveredType DEF Flush, Written

\* Committing a recovery preserves the invariant, though its rows may have
\* been saved, requeued and claimed again since they were selected.
LEMMA RecoverCommitIInv ==
  ASSUME IInv, NEW m \in Maintainer, RecoverCommit(m)
  PROVE  IInv'
<1>1. /\ row' \in [Task -> Row]
      /\ \A t \in Task :
           \/ row'[t] = row[t]
           \/ /\ row'[t].status = "failed"
              /\ row'[t].lockedBy = NoWorker
              /\ row'[t].attempts = row[t].attempts
  <2>1. \A t \in Task : row'[t] = IF t \in selected[m]
                 THEN Flush(seen[m][t], Recovered(seen[m][t]), row[t])
                 ELSE row[t]
    BY DEF RecoverCommit
  <2>2. \A t \in Task : row[t] \in Row
    BY DEF IInv, TypeOK
  <2>3. \A t \in Task : row'[t] \in Row
    BY <2>1, <2>2, RecoveredRow
  <2>4. row' \in [Task -> Row]
    BY <2>3 DEF RecoverCommit
  <2> QED
    BY <2>1, <2>4, RecoveredRow
<1>2. /\ selected' = [selected EXCEPT ![m] = {}]
      /\ seen' = [seen EXCEPT ![m] = [t \in Task |-> AbsentRow]]
      /\ UNCHANGED <<up, executor, beat, grants>>
  BY DEF RecoverCommit, ForgetSelection
<1>3. TypeOK'
  BY <1>1, <1>2, NewRows DEF IInv, TypeOK
<1>4. ExecutorInv'
  BY <1>1, <1>2 DEF IInv, TypeOK, ExecutorInv, Executing, HeldBy, Terminal, TerminalStatus
<1>5. MaintenanceInv'
  BY <1>1, <1>2 DEF IInv, TypeOK, MaintenanceInv
<1>6. LockedIsRunning' /\ PendingIsClaimable'
  BY <1>1 DEF IInv, LockedIsRunning, PendingIsClaimable
<1>7. GrantsInv'
  <2> SUFFICES ASSUME NEW t \in Task PROVE GrantPaid(row'[t], grants[t])
    BY <1>2 DEF GrantsInv
  <2>1. GrantPaid(row[t], grants[t])
    BY DEF IInv, GrantsInv
  <2> QED
    BY <1>1, <2>1 DEF GrantPaid
<1> QED
  BY <1>3, <1>4, <1>5, <1>6, <1>7 DEF IInv

\* A worker that stops or dies leaves the invariant intact.
LEMMA ProcessGoneIInv ==
  ASSUME IInv, NEW w \in Worker, ProcessGone(w)
  PROVE  IInv'
<1> USE DEF ProcessGone, ForgetSelection, IInv
<1>1. TypeOK'
  BY NewRows DEF TypeOK, PC, Status, Beat, Maintainer
<1>2. ExecutorInv'
  BY DEF TypeOK, ExecutorInv, Executing, Saving
<1>3. MaintenanceInv'
  BY DEF TypeOK, MaintenanceInv, Maintainer
<1>4. LockedIsRunning' /\ PendingIsClaimable' /\ GrantsInv'
  BY DEF LockedIsRunning, PendingIsClaimable, GrantsInv
<1> QED
  BY <1>1, <1>2, <1>3, <1>4

\* So does an API process that dies during its startup recovery.
LEMMA ApiRestartIInv == IInv /\ ApiRestart => IInv'
<1> SUFFICES ASSUME IInv, ApiRestart PROVE IInv'
  OBVIOUS
<1> USE DEF ApiRestart, ForgetSelection, IInv
<1>1. TypeOK'
  BY NewRows DEF TypeOK, Maintainer
<1>2. ExecutorInv' /\ MaintenanceInv'
  BY DEF TypeOK, ExecutorInv, Executing, MaintenanceInv, Maintainer
<1>3. LockedIsRunning' /\ PendingIsClaimable' /\ GrantsInv'
  BY DEF LockedIsRunning, PendingIsClaimable, GrantsInv
<1> QED
  BY <1>1, <1>2, <1>3

\* The invariant is inductive: every step of the queue preserves it.
LEMMA NextIInv == IInv /\ [Next]_vars => IInv'
<1> SUFFICES ASSUME IInv, [Next]_vars PROVE IInv'
  OBVIOUS
<1>1. ASSUME NEW t \in Task, Submit(t) \/ LeaseExpires(t) \/ DelayPasses(t)
      PROVE  IInv'
  BY <1>1, SubmitIInv, TimeIInv
<1>2. ASSUME NEW w \in Worker, StartWorker(w) \/ Shutdown(w) \/ Crash(w)
      PROVE  IInv'
  BY <1>2, StartWorkerIInv, ProcessGoneIInv DEF Shutdown, Crash
<1>3. ASSUME NEW w \in Worker, NEW t \in Task, Execute(w, t)
      PROVE  IInv'
  <2>1. CASE Report(w, t)
    BY <2>1, ReportLoadIInv DEF Report
  <2>2. CASE Finish(w, t)
    BY <2>2, FinishLoadIInv DEF Finish
  <2>3. CASE EnterCrawl(w, t) \/ SaveCommit(w, t) \/ Raise(w, t) \/ SaveSkipped(w, t)
    BY <2>3, EnterCrawlIInv, SaveCommitIInv, RaiseIInv, SaveSkippedIInv
  <2>4. CASE RequeueLoad(w, t) \/ RequeueCommit(w, t) \/ ExecutionDies(w, t) \/ Close(w, t)
    BY <2>4, RequeueLoadIInv, RequeueCommitIInv, EndIInv
  <2>5. CASE Begin(w, t)
    BY <2>5, BeginIInv
  <2> QED
    BY <1>3, <2>1, <2>2, <2>3, <2>4, <2>5 DEF Execute
<1>4. ASSUME NEW w \in Worker, NEW t \in Task, Claim(w, t) \/ Heartbeat(w, t)
      PROVE  IInv'
  BY <1>4, ClaimIInv, HeartbeatIInv
<1>5. ASSUME NEW m \in Maintainer, RecoverLoad(m) \/ RecoverCommit(m)
      PROVE  IInv'
  BY <1>5, RecoverLoadIInv, RecoverCommitIInv
<1>6. CASE ApiRestart
  BY <1>6, ApiRestartIInv
<1>7. CASE UNCHANGED vars
  BY <1>7 DEF vars, IInv, TypeOK, ExecutorInv, Executing, MaintenanceInv,
              LockedIsRunning, PendingIsClaimable, GrantsInv
<1> QED
  BY <1>1, <1>2, <1>3, <1>4, <1>5, <1>6, <1>7 DEF Next

---------------------------------------------------------------------------
\* The inductive invariant holds in every reachable state.
THEOREM Inductive == Spec => []IInv
  BY InitIInv, NextIInv, PTL DEF Spec

\* The rows, the in-memory tasks and the attempt counter keep their types:
\* in particular no interleaving pushes attempt_count beyond the limit.
THEOREM TypeCorrect == Spec => []TypeOK
<1>1. IInv => TypeOK
  BY DEF IInv
<1> QED
  BY <1>1, Inductive, PTL

\* No two workers execute a task at once and no row on offer is being
\* executed, whatever the timing, the crashes and the lost updates.
THEOREM Exclusive == Spec => []ExclusiveExecution
<1>1. IInv => ExclusiveExecution
  BY DEF IInv, ExecutorInv, ExclusiveExecution
<1> QED
  BY <1>1, Inductive, PTL

\* The four unlocked writers never leave locked_by on a row that is not RUNNING.
THEOREM LockOnlyWhileRunning == Spec => []LockedIsRunning
<1>1. IInv => LockedIsRunning
  BY DEF IInv
<1> QED
  BY <1>1, Inductive, PTL

\* No PENDING row is beyond the reach of the claim.
THEOREM NoRowStuckPending == Spec => []PendingIsClaimable
<1>1. IInv => PendingIsClaimable
  BY DEF IInv
<1> QED
  BY <1>1, Inductive, PTL

\* A task is claimed at most crawler_task_max_requeue_attempts times.
THEOREM ClaimsBounded == Spec => []GrantsBounded
<1>1. ASSUME IInv, NEW t \in Task PROVE grants[t] <= MaxRequeue
  <2>1. row[t].attempts \in 0..MaxRequeue /\ grants[t] \in Nat
    BY <1>1 DEF IInv, TypeOK, Row
  <2> QED
    BY <1>1, <2>1 DEF IInv, GrantsInv, GrantPaid
<1>2. IInv => GrantsBounded
  BY <1>1 DEF GrantsBounded
<1> QED
  BY <1>2, Inductive, PTL
---------------------------------------------------------------------------
(* What holds besides when heartbeats are timely and no task has several    *)
(* configs.                                                                 *)

\* What is then known of the coroutine of w for t.
TimelyExecutor(w, t) ==
  \* No result is known before the crawl has been entered, but by an error.
  /\ pc[w][t] \in {"starting", "claimed", "savingClaimed", "requeueing"} =>
       runtime[w][t] = "running"
  \* Without a result of its own, the coroutine's row is RUNNING.
  /\ Executing(w, t) /\ runtime[w][t] = "running" => row[t].status = "running"
  /\ pc[w][t] \in Saving /\ runtime[w][t] = "running" => loaded[w][t].status = "running"
  \* A RUNNING row that is being executed is locked, leased, and kept so.
  /\ Executing(w, t) /\ row[t].status = "running" =>
       /\ row[t].lockedBy = w
       /\ row[t].lease = "valid"
       /\ pc[w][t] = "starting" \/ beat[w][t] # "off"

\* A row that maintenance has selected is executed by nobody, nor ever will be.
TimelyMaintenance(m, t) ==
  t \in selected[m] => /\ row[t].status \notin {"absent", "pending"}
                       /\ \A w \in Worker : ~Executing(w, t)

TimelyInv ==
  /\ \A w \in Worker, t \in Task : TimelyExecutor(w, t)
  /\ \A m \in Maintainer, t \in Task : TimelyMaintenance(m, t)

\* The assumption under which it holds.
Timely == TimelyHeartbeats /\ MultiConfig = {}

\* It holds before anything has been submitted.
LEMMA InitTimely == Init => TimelyInv
BY DEF Init, TimelyInv, TimelyExecutor, TimelyMaintenance, Executing, Saving

\* A step of a coroutine that leaves the row alone preserves it.
LEMMA CoroutineTimely ==
  ASSUME IInv, TimelyInv, Timely, NEW w \in Worker, NEW t \in Task,
         \/ Begin(w, t) \/ EnterCrawl(w, t) \/ Report(w, t) \/ Finish(w, t)
         \/ Raise(w, t) \/ SaveSkipped(w, t) \/ RequeueLoad(w, t)
         \/ ExecutionDies(w, t) \/ Close(w, t)
  PROVE  TimelyInv'
<1> USE DEF Goto, Load
<1>1. UNCHANGED <<row, selected>>
  BY DEF Begin, EnterCrawl, Report, ReportLoad, Finish, FinishLoad, Raise, SaveSkipped,
         RequeueLoad, ExecutionDies, Close
<1>2. /\ pc' = [pc EXCEPT ![w][t] = pc'[w][t]]
      /\ runtime' = [runtime EXCEPT ![w][t] = runtime'[w][t]]
      /\ loaded' = [loaded EXCEPT ![w][t] = loaded'[w][t]]
      /\ beat' = [beat EXCEPT ![w][t] = beat'[w][t]]
  BY DEF Begin, EnterCrawl, Report, ReportLoad, Finish, FinishLoad, Raise, SaveSkipped,
         RequeueLoad, ExecutionDies, Close, IInv, TypeOK
<1>3. TimelyExecutor(w, t)' /\ (Executing(w, t)' => Executing(w, t))
  <2> USE DEF TimelyExecutor, Executing, Saving, IInv, TypeOK
  <2>0. TimelyExecutor(w, t)
    BY DEF TimelyInv
  <2>1. CASE Begin(w, t) \/ EnterCrawl(w, t)
    BY <2>0, <2>1 DEF Begin, EnterCrawl
  <2>2. CASE Report(w, t)
    BY <2>0, <2>2 DEF Report, ReportLoad, Timely
  <2>3. CASE Finish(w, t)
    BY <2>0, <2>3 DEF Finish, FinishLoad, TerminalStatus
  <2>4. CASE Raise(w, t)
    BY <2>0, <2>4 DEF Raise
  <2>5. CASE SaveSkipped(w, t)
    BY <2>5 DEF SaveSkipped, Timely
  <2>6. CASE RequeueLoad(w, t)
    BY <2>0, <2>6 DEF RequeueLoad
  <2>7. CASE ExecutionDies(w, t) \/ Close(w, t)
    BY <2>0, <2>7 DEF ExecutionDies, Close
  <2> QED
    BY <2>1, <2>2, <2>3, <2>4, <2>5, <2>6, <2>7
<1>4. ASSUME NEW v \in Worker, NEW u \in Task, <<v, u>> # <<w, t>>
      PROVE  /\ TimelyExecutor(v, u)'
             /\ Executing(v, u)' => Executing(v, u)
  <2>1. /\ pc'[v][u] = pc[v][u] /\ runtime'[v][u] = runtime[v][u]
        /\ loaded'[v][u] = loaded[v][u] /\ beat'[v][u] = beat[v][u]
    BY <1>2, <1>4 DEF IInv, TypeOK
  <2> QED
    BY <1>1, <2>1 DEF TimelyInv, TimelyExecutor, Executing
<1>5. ASSUME NEW v \in Worker, NEW u \in Task
      PROVE  TimelyExecutor(v, u)' /\ (Executing(v, u)' => Executing(v, u))
  BY <1>3, <1>4
<1>6. ASSUME NEW m \in Maintainer, NEW u \in Task
      PROVE  TimelyMaintenance(m, u)'
  BY <1>1, <1>5 DEF TimelyInv, TimelyMaintenance
<1> QED
  BY <1>5, <1>6 DEF TimelyInv

\* What an executor's save makes of its row: nothing as long as the task runs,
\* a row with a result otherwise.
LEMMA SavedTimely ==
  ASSUME IInv, TimelyInv, NEW w \in Worker, NEW t \in Task, pc[w][t] \in Saving
  PROVE  LET r == Flush(loaded[w][t], Synced(loaded[w][t], runtime[w][t]), row[t]) IN
         IF runtime[w][t] = "running" THEN r = row[t] ELSE Terminal(r)
<1> DEFINE l == loaded[w][t]
           a == Synced(l, runtime[w][t])
           r == Flush(l, a, row[t])
<1>1. /\ l \in Row /\ row[t] \in Row
      /\ Executing(w, t)
      /\ runtime[w][t] \in {"running", "completed", "failed"}
      /\ l.status \notin {"absent", "pending"}
      /\ Terminal(l) => Terminal(row[t])
  BY DEF IInv, TypeOK, ExecutorInv, Saving, Executing
<1>2. CASE runtime[w][t] = "running"
  <2>1. l.status = "running"
    BY <1>2 DEF TimelyInv, TimelyExecutor
  <2>2. a = l
    BY <1>1, <1>2, <2>1 DEF Synced, TerminalStatus, Row
  <2>3. r = row[t]
    BY <1>1, <2>2 DEF Flush, Written, Row
  <2> QED
    BY <1>2, <2>3
<1>3. CASE runtime[w][t] # "running"
  <2>1. a.status = runtime[w][t] /\ a.status \in TerminalStatus
    BY <1>1, <1>3, SyncedType DEF TerminalStatus
  <2>2. r.status = IF a.status # l.status THEN a.status ELSE row[t].status
    BY DEF Flush, Written
  <2>3. Terminal(r)
    BY <1>1, <2>1, <2>2 DEF Terminal
  <2> QED
    BY <1>3, <2>3
<1> QED
  BY <1>2, <1>3

\* The commit of a save preserves it.
LEMMA SaveCommitTimely ==
  ASSUME IInv, TimelyInv, NEW w \in Worker, NEW t \in Task, SaveCommit(w, t)
  PROVE  TimelyInv'
<1> DEFINE r == Flush(loaded[w][t], Synced(loaded[w][t], runtime[w][t]), row[t])
<1>1. /\ pc[w][t] \in Saving
      /\ row' = [row EXCEPT ![t] = r]
      /\ pc' = [pc EXCEPT ![w][t] = AfterSave(pc[w][t])]
      /\ loaded' = [loaded EXCEPT ![w][t] = AbsentRow]
      /\ UNCHANGED <<runtime, beat, selected>>
  BY DEF SaveCommit, Goto
<1>2. IF runtime[w][t] = "running" THEN r = row[t] ELSE Terminal(r)
  BY <1>1, SavedTimely
<1>3. /\ Executing(w, t)
      /\ \A v \in Worker \ {w} : ~Executing(v, t)
      /\ \A m \in Maintainer : t \notin selected[m]
  <2>1. Executing(w, t)
    BY <1>1 DEF Saving, Executing
  <2> QED
    BY <2>1 DEF IInv, ExecutorInv, TimelyInv, TimelyMaintenance
<1>4. /\ AfterSave(pc[w][t]) \in {"claimed", "crawling", "logging", "closing"}
      /\ AfterSave(pc[w][t]) = "claimed" => pc[w][t] = "savingClaimed"
  BY <1>1 DEF Saving, AfterSave
<1> HIDE DEF r
<1>5. TimelyExecutor(w, t)'
  <2>1. TimelyExecutor(w, t)
    BY DEF TimelyInv
  <2> QED
    BY <1>1, <1>2, <1>3, <1>4, <2>1
       DEF IInv, TypeOK, TimelyExecutor, Executing, Saving, Terminal, TerminalStatus
<1>6. ASSUME NEW v \in Worker, NEW u \in Task, <<v, u>> # <<w, t>>
      PROVE  TimelyExecutor(v, u)'
  <2>1. /\ pc'[v][u] = pc[v][u] /\ runtime'[v][u] = runtime[v][u]
        /\ loaded'[v][u] = loaded[v][u] /\ beat'[v][u] = beat[v][u]
    BY <1>1, <1>6 DEF IInv, TypeOK
  <2>2. CASE u = t
    <3>1. ~Executing(v, u) /\ ~Executing(v, u)' /\ TimelyExecutor(v, u)
      BY <1>3, <1>6, <2>1, <2>2 DEF Executing, TimelyInv
    <3> QED
      BY <2>1, <3>1 DEF TimelyExecutor, Executing, Saving
  <2>3. CASE u # t
    <3>1. row'[u] = row[u]
      BY <1>1, <2>3 DEF IInv, TypeOK
    <3> QED
      BY <2>1, <3>1 DEF TimelyInv, TimelyExecutor, Executing
  <2> QED
    BY <2>2, <2>3
<1>7. ASSUME NEW m \in Maintainer, NEW u \in Task PROVE TimelyMaintenance(m, u)'
  <2>1. CASE u = t
    BY <1>1, <1>3, <2>1 DEF TimelyMaintenance
  <2>2. CASE u # t
    <3>1. row'[u] = row[u] /\ \A v \in Worker : pc'[v][u] = pc[v][u]
      BY <1>1, <2>2 DEF IInv, TypeOK
    <3> QED
      BY <1>1, <3>1 DEF TimelyInv, TimelyMaintenance, Executing
  <2> QED
    BY <2>1, <2>2
<1> QED
  BY <1>5, <1>6, <1>7 DEF TimelyInv

\* A step after which no row but t's differs and the coroutines of t, if any,
\* are no longer at work, preserves it.
LEMMA EndedTimely ==
  ASSUME IInv, TimelyInv, NEW t \in Task,
         \A u \in Task \ {t} : row'[u] = row[u],
         \A v \in Worker, u \in Task \ {t} :
           /\ pc'[v][u] = pc[v][u] /\ runtime'[v][u] = runtime[v][u]
           /\ loaded'[v][u] = loaded[v][u] /\ beat'[v][u] = beat[v][u],
         \A v \in Worker : pc'[v][t] \in {"off", "closing"},
         \A m \in Maintainer : selected'[m] = selected[m] /\ t \notin selected[m]
  PROVE  TimelyInv'
<1>1. ASSUME NEW v \in Worker, NEW u \in Task PROVE TimelyExecutor(v, u)'
  <2>1. CASE u = t
    BY <2>1 DEF TimelyExecutor, Executing, Saving
  <2>2. CASE u # t
    BY <2>2 DEF TimelyInv, TimelyExecutor, Executing
  <2> QED
    BY <2>1, <2>2
<1>2. ASSUME NEW m \in Maintainer, NEW u \in Task PROVE TimelyMaintenance(m, u)'
  BY DEF TimelyInv, TimelyMaintenance, Executing
<1> QED
  BY <1>1, <1>2 DEF TimelyInv

\* The commit of a requeue preserves it.
LEMMA RequeueCommitTimely ==
  ASSUME IInv, TimelyInv, NEW w \in Worker, NEW t \in Task, RequeueCommit(w, t)
  PROVE  TimelyInv'
<1>1. Executing(w, t)
  BY DEF RequeueCommit, Executing
<1>2. /\ \A v \in Worker \ {w} : ~Executing(v, t)
      /\ \A m \in Maintainer : t \notin selected[m]
  BY <1>1 DEF IInv, ExecutorInv, TimelyInv, TimelyMaintenance
<1>3. /\ \A u \in Task \ {t} : row'[u] = row[u]
      /\ \A v \in Worker, u \in Task \ {t} : pc'[v][u] = pc[v][u] /\ loaded'[v][u] = loaded[v][u]
      /\ pc'[w][t] = "closing"
      /\ \A v \in Worker \ {w} : pc'[v][t] = pc[v][t]
      /\ UNCHANGED <<runtime, beat, selected>>
  BY DEF RequeueCommit, Goto, IInv, TypeOK
<1>4. \A v \in Worker : pc'[v][t] \in {"off", "closing"}
  BY <1>2, <1>3 DEF Executing
<1> QED
  BY <1>2, <1>3, <1>4, EndedTimely

\* A claim preserves it: the row was PENDING, so nobody was executing it and
\* no recovery had selected it.
LEMMA ClaimTimely ==
  ASSUME IInv, TimelyInv, NEW w \in Worker, NEW t \in Task, Claim(w, t)
  PROVE  TimelyInv'
<1>1. /\ row' = [row EXCEPT ![t] = Claimed(row[t], w)]
      /\ pc' = [pc EXCEPT ![w][t] = "starting"]
      /\ runtime' = [runtime EXCEPT ![w][t] = "running"]
      /\ UNCHANGED <<loaded, beat, selected>>
      /\ row[t].status = "pending"
  BY DEF Claim, Claimable
<1>2. /\ \A v \in Worker : ~Executing(v, t)
      /\ \A m \in Maintainer : t \notin selected[m]
  BY <1>1 DEF IInv, ExecutorInv, TimelyInv, TimelyMaintenance
<1>3. TimelyExecutor(w, t)'
  BY <1>1 DEF IInv, TypeOK, TimelyExecutor, Executing, Saving, Claimed
<1>4. ASSUME NEW v \in Worker, NEW u \in Task, <<v, u>> # <<w, t>>
      PROVE  TimelyExecutor(v, u)'
  <2>1. /\ pc'[v][u] = pc[v][u] /\ runtime'[v][u] = runtime[v][u]
        /\ loaded'[v][u] = loaded[v][u] /\ beat'[v][u] = beat[v][u]
    BY <1>1, <1>4 DEF IInv, TypeOK
  <2>2. CASE u = t
    BY <1>2, <2>1, <2>2 DEF TimelyExecutor, Executing, Saving
  <2>3. CASE u # t
    <3>1. row'[u] = row[u]
      BY <1>1, <2>3 DEF IInv, TypeOK
    <3> QED
      BY <2>1, <3>1 DEF TimelyInv, TimelyExecutor, Executing
  <2> QED
    BY <2>2, <2>3
<1>5. ASSUME NEW m \in Maintainer, NEW u \in Task PROVE TimelyMaintenance(m, u)'
  <2>1. CASE u = t
    BY <1>1, <1>2, <2>1 DEF TimelyMaintenance
  <2>2. CASE u # t
    <3>1. row'[u] = row[u] /\ \A v \in Worker : pc'[v][u] = pc[v][u]
      BY <1>1, <2>2 DEF IInv, TypeOK
    <3> QED
      BY <1>1, <3>1 DEF TimelyInv, TimelyMaintenance, Executing
  <2> QED
    BY <2>1, <2>2
<1> QED
  BY <1>3, <1>4, <1>5 DEF TimelyInv

\* A step of a heartbeat preserves it: it gives up only on a row that is no
\* longer held, and a renewal leaves the lease valid.
LEMMA HeartbeatTimely ==
  ASSUME IInv, TimelyInv, Timely, NEW w \in Worker, NEW t \in Task, Heartbeat(w, t)
  PROVE  TimelyInv'
<1>1. UNCHANGED <<pc, runtime, loaded, selected>>
  BY DEF Heartbeat, BeatLoad, BeatCommit, BeatDies
<1>2. ASSUME NEW u \in Task
      PROVE  /\ row'[u].status = row[u].status /\ row'[u].lockedBy = row[u].lockedBy
             /\ row[u].lease = "valid" => row'[u].lease = "valid"
  <2>1. row[u] \in Row
    BY DEF IInv, TypeOK
  <2>2. row'[u] = row[u] \/ row'[u] = Renewed(row[u])
    BY DEF Heartbeat, BeatLoad, BeatCommit, BeatDies, IInv, TypeOK
  <2> QED
    BY <2>1, <2>2 DEF Renewed, Row
<1>3. ASSUME NEW v \in Worker, NEW u \in Task, Executing(v, u), row[u].status = "running"
      PROVE  pc[v][u] = "starting" \/ beat'[v][u] # "off"
  <2>1. HeldBy(row[u], v) /\ (pc[v][u] = "starting" \/ beat[v][u] # "off")
    BY <1>3 DEF TimelyInv, TimelyExecutor, HeldBy
  <2>2. ~BeatDies(w, t) /\ beat \in [Worker -> [Task -> Beat]]
    BY DEF BeatDies, Timely, IInv, TypeOK
  <2>3. beat'[v][u] = beat[v][u] \/ (v = w /\ u = t)
    BY <2>2 DEF Heartbeat, BeatLoad, BeatCommit
  <2>4. HeldBy(row[t], w) => beat'[w][t] # "off"
    BY <2>2 DEF Heartbeat, BeatLoad, BeatCommit
  <2> QED
    BY <2>1, <2>3, <2>4
<1>4. ASSUME NEW v \in Worker, NEW u \in Task PROVE TimelyExecutor(v, u)'
  BY <1>1, <1>2, <1>3 DEF TimelyInv, TimelyExecutor, Executing
<1>5. ASSUME NEW m \in Maintainer, NEW u \in Task PROVE TimelyMaintenance(m, u)'
  BY <1>1, <1>2 DEF TimelyInv, TimelyMaintenance, Executing
<1> QED
  BY <1>4, <1>5 DEF TimelyInv

\* The passing of time preserves it: the lease of a task that is executed
\* does not run out.
LEMMA TimeTimely ==
  ASSUME IInv, TimelyInv, Timely, NEW t \in Task, LeaseExpires(t) \/ DelayPasses(t)
  PROVE  TimelyInv'
<1>1. UNCHANGED <<pc, runtime, loaded, beat, selected>>
  BY DEF LeaseExpires, DelayPasses
<1>2. ASSUME NEW u \in Task
      PROVE  /\ row'[u].status = row[u].status /\ row'[u].lockedBy = row[u].lockedBy
             /\ row'[u].lease = row[u].lease \/ (u = t /\ LeaseExpires(t))
  <2>1. row[u] \in Row
    BY DEF IInv, TypeOK
  <2>2. row \in [Task -> Row]
    BY DEF IInv, TypeOK
  <2>3. CASE LeaseExpires(t)
    BY <2>1, <2>2, <2>3 DEF LeaseExpires, Row
  <2>4. CASE DelayPasses(t)
    BY <2>1, <2>2, <2>4 DEF DelayPasses, Row
  <2> QED
    BY <2>3, <2>4
<1>3. ASSUME NEW v \in Worker, NEW u \in Task, Executing(v, u), row[u].status = "running"
      PROVE  row'[u].lease = row[u].lease
  <2>1. pc[v][u] = "starting" \/ beat[v][u] # "off"
    BY <1>3 DEF TimelyInv, TimelyExecutor
  <2>2. LeaseExpires(t) => u # t
    BY <2>1 DEF LeaseExpires, Timely
  <2> QED
    BY <1>2, <2>2
<1>4. ASSUME NEW v \in Worker, NEW u \in Task PROVE TimelyExecutor(v, u)'
  BY <1>1, <1>2, <1>3 DEF TimelyInv, TimelyExecutor, Executing
<1>5. ASSUME NEW m \in Maintainer, NEW u \in Task PROVE TimelyMaintenance(m, u)'
  BY <1>1, <1>2 DEF TimelyInv, TimelyMaintenance, Executing
<1> QED
  BY <1>4, <1>5 DEF TimelyInv

\* Selecting stale rows preserves it: an expired lease has no executor.
LEMMA RecoverLoadTimely ==
  ASSUME IInv, TimelyInv, NEW m \in Maintainer, RecoverLoad(m)
  PROVE  TimelyInv'
<1>1. /\ selected' = [selected EXCEPT ![m] = {t \in Task : Stale(row[t])}]
      /\ UNCHANGED <<row, executor, beat>>
  BY DEF RecoverLoad
<1>2. ASSUME NEW n \in Maintainer, NEW u \in Task PROVE TimelyMaintenance(n, u)'
  <2>1. CASE u \in selected[n]
    BY <1>1, <2>1 DEF TimelyInv, TimelyMaintenance, Executing
  <2>2. CASE u \notin selected[n]
    <3>1. u \in selected'[n] => Stale(row[u])
      BY <1>1, <2>2 DEF IInv, TypeOK
    <3>2. Stale(row[u]) => \A v \in Worker : ~Executing(v, u)
      BY DEF Stale, TimelyInv, TimelyExecutor
    <3> QED
      BY <1>1, <3>1, <3>2 DEF TimelyMaintenance, Executing, Stale
  <2> QED
    BY <2>1, <2>2
<1> QED
  BY <1>1, <1>2 DEF TimelyInv, TimelyExecutor, Executing

\* Failing the selected rows preserves it: nobody executes them.
LEMMA RecoverCommitTimely ==
  ASSUME IInv, TimelyInv, NEW m \in Maintainer, RecoverCommit(m)
  PROVE  TimelyInv'
<1>1. /\ \A t \in Task : IF t \in selected[m] THEN row'[t].status = "failed"
                                              ELSE row'[t] = row[t]
      /\ selected' = [selected EXCEPT ![m] = {}]
      /\ UNCHANGED <<executor, beat>>
  BY RecoveredRow DEF RecoverCommit, ForgetSelection
<1>2. ASSUME NEW v \in Worker, NEW u \in Task PROVE TimelyExecutor(v, u)'
  <2>1. CASE u \in selected[m]
    BY <1>1, <2>1 DEF TimelyInv, TimelyExecutor, TimelyMaintenance, Executing
  <2>2. CASE u \notin selected[m]
    BY <1>1, <2>2 DEF TimelyInv, TimelyExecutor, Executing
  <2> QED
    BY <2>1, <2>2
<1>3. ASSUME NEW n \in Maintainer, NEW u \in Task PROVE TimelyMaintenance(n, u)'
  BY <1>1 DEF IInv, TypeOK, TimelyInv, TimelyMaintenance, Executing
<1> QED
  BY <1>2, <1>3 DEF TimelyInv

\* So do submissions, starts and stops.
LEMMA OtherTimely ==
  ASSUME IInv, TimelyInv,
         \/ \E t \in Task : Submit(t)
         \/ \E w \in Worker : StartWorker(w) \/ ProcessGone(w)
         \/ ApiRestart
         \/ UNCHANGED vars
  PROVE  TimelyInv'
<1>1. ASSUME NEW t \in Task, Submit(t) PROVE TimelyInv'
  <2>1. /\ row' = [row EXCEPT ![t] = NewRow] /\ row[t].status = "absent"
        /\ UNCHANGED <<executor, beat, selected>>
    BY <1>1 DEF Submit
  <2>2. /\ \A v \in Worker : ~Executing(v, t)
        /\ \A m \in Maintainer : t \notin selected[m]
    BY <2>1 DEF IInv, ExecutorInv, TimelyInv, TimelyMaintenance
  <2>3. ASSUME NEW v \in Worker, NEW u \in Task PROVE TimelyExecutor(v, u)'
    <3>1. CASE u = t
      BY <2>1, <2>2, <3>1 DEF TimelyInv, TimelyExecutor, Executing
    <3>2. CASE u # t
      BY <2>1, <3>2 DEF IInv, TypeOK, TimelyInv, TimelyExecutor, Executing
    <3> QED
      BY <3>1, <3>2
  <2>4. ASSUME NEW m \in Maintainer, NEW u \in Task PROVE TimelyMaintenance(m, u)'
    BY <2>1, <2>2 DEF IInv, TypeOK, TimelyInv, TimelyMaintenance, Executing
  <2> QED
    BY <2>3, <2>4 DEF TimelyInv
<1>2. ASSUME NEW w \in Worker, ProcessGone(w) PROVE TimelyInv'
  <2>1. ASSUME NEW v \in Worker, NEW u \in Task PROVE TimelyExecutor(v, u)'
    BY <1>2 DEF ProcessGone, IInv, TypeOK, TimelyInv, TimelyExecutor, Executing, Saving
  <2>2. ASSUME NEW m \in Maintainer, NEW u \in Task PROVE TimelyMaintenance(m, u)'
    BY <1>2 DEF ProcessGone, ForgetSelection, IInv, TypeOK, TimelyInv, TimelyMaintenance, Executing
  <2> QED
    BY <2>1, <2>2 DEF TimelyInv
<1>3. CASE ApiRestart
  BY <1>3 DEF ApiRestart, ForgetSelection, IInv, TypeOK, TimelyInv, TimelyExecutor,
              TimelyMaintenance, Executing
<1>4. ASSUME UNCHANGED vars \/ \E w \in Worker : StartWorker(w) PROVE TimelyInv'
  BY <1>4 DEF vars, StartWorker, TimelyInv, TimelyExecutor, TimelyMaintenance, Executing
<1> QED
  BY <1>1, <1>2, <1>3, <1>4

\* Every step preserves it.
LEMMA NextTimely ==
  ASSUME IInv, TimelyInv, Timely, [Next]_vars
  PROVE  TimelyInv'
<1>1. ASSUME NEW w \in Worker, NEW t \in Task, Claim(w, t) \/ Execute(w, t) \/ Heartbeat(w, t)
      PROVE  TimelyInv'
  BY <1>1, ClaimTimely, CoroutineTimely, SaveCommitTimely, RequeueCommitTimely, HeartbeatTimely
     DEF Execute
<1> QED
  BY <1>1, TimeTimely, RecoverLoadTimely, RecoverCommitTimely, OtherTimely DEF Next, Shutdown, Crash

---------------------------------------------------------------------------
\* Both invariants hold in every reachable state.
LEMMA InductiveTimely == Timely => (Spec => [](IInv /\ TimelyInv))
<1>1. Init => IInv /\ TimelyInv
  BY InitIInv, InitTimely
<1>2. Timely /\ IInv /\ TimelyInv /\ [Next]_vars => (IInv /\ TimelyInv)'
  BY NextIInv, NextTimely
<1>3. Timely => Timely'
  BY DEF Timely
<1> QED
  BY <1>1, <1>2, <1>3, PTL DEF Spec

\* A worker that has reported no result holds the lock of the row it executes.
THEOREM HoldsLock ==
  ASSUME TimelyHeartbeats, MultiConfig = {}
  PROVE  Spec => []ExecutorHoldsLock
<1>1. TimelyInv => ExecutorHoldsLock
  BY DEF TimelyInv, TimelyExecutor, ExecutorHoldsLock, HeldBy
<1> QED
  BY <1>1, InductiveTimely, PTL DEF Timely

\* The transactions that change the status of a row.
LEMMA StatusWriters ==
  ASSUME IInv, [Next]_vars, NEW t \in Task, row'[t].status # row[t].status
  PROVE  \/ Submit(t)
         \/ \E w \in Worker : Claim(w, t) \/ SaveCommit(w, t) \/ RequeueCommit(w, t)
         \/ \E m \in Maintainer : RecoverCommit(m) /\ t \in selected[m]
<1>1. row \in [Task -> Row]
  BY DEF IInv, TypeOK
<1>2. ~UNCHANGED row
  OBVIOUS
<1>3. ASSUME NEW u \in Task, Submit(u) PROVE Submit(t)
  BY <1>1, <1>3 DEF Submit
<1>4. ASSUME NEW u \in Task, LeaseExpires(u) \/ DelayPasses(u) PROVE FALSE
  BY <1>1, <1>4 DEF LeaseExpires, DelayPasses, Row
<1>5. ASSUME NEW w \in Worker, NEW u \in Task, Claim(w, u) PROVE Claim(w, t)
  BY <1>1, <1>5 DEF Claim
<1>6. ASSUME NEW w \in Worker, NEW u \in Task, Execute(w, u)
      PROVE  SaveCommit(w, t) \/ RequeueCommit(w, t)
  <2>1. SaveCommit(w, u) \/ RequeueCommit(w, u)
    BY <1>2, <1>6 DEF Execute, Begin, EnterCrawl, Report, ReportLoad, Finish, FinishLoad, Raise,
                      SaveSkipped, RequeueLoad, ExecutionDies, Close
  <2>2. u = t
    BY <1>1, <2>1 DEF SaveCommit, RequeueCommit
  <2> QED
    BY <2>1, <2>2
<1>7. ASSUME NEW w \in Worker, NEW u \in Task, Heartbeat(w, u) PROVE FALSE
  <2>1. BeatCommit(w, u)
    BY <1>2, <1>7 DEF Heartbeat, BeatLoad, BeatDies
  <2> QED
    BY <1>1, <2>1 DEF BeatCommit, Renewed, Row
<1>8. ASSUME NEW m \in Maintainer, RecoverCommit(m) PROVE t \in selected[m]
  BY <1>1, <1>8 DEF RecoverCommit
<1>9. ~(\/ \E w \in Worker : StartWorker(w) \/ Shutdown(w) \/ Crash(w)
        \/ \E m \in Maintainer : RecoverLoad(m)
        \/ ApiRestart
        \/ UNCHANGED vars)
  BY <1>2 DEF StartWorker, Shutdown, Crash, ProcessGone, RecoverLoad, ApiRestart, vars
<1> QED
  BY <1>3, <1>4, <1>5, <1>6, <1>7, <1>8, <1>9 DEF Next

\* No row leaves a result.
THEOREM ResultsAreFinal ==
  ASSUME TimelyHeartbeats, MultiConfig = {}
  PROVE  Spec => NoResurrection
<1>1. ASSUME IInv, TimelyInv, [Next]_vars, NEW t \in Task, Terminal(row[t])
      PROVE  Terminal(row'[t])
  <2>1. CASE row'[t].status = row[t].status
    BY <1>1, <2>1 DEF Terminal
  <2>2. ASSUME NEW w \in Worker, SaveCommit(w, t)
        PROVE  Terminal(row'[t])
    BY <1>1, <2>2, SavedTimely DEF SaveCommit, IInv, TypeOK
  <2>3. ASSUME NEW w \in Worker, RequeueCommit(w, t)
        PROVE  FALSE
    BY <1>1, <2>3 DEF RequeueCommit, TimelyInv, TimelyExecutor, Executing, Terminal, TerminalStatus
  <2>4. ASSUME NEW m \in Maintainer, RecoverCommit(m), t \in selected[m]
        PROVE  Terminal(row'[t])
    BY <1>1, <2>4, RecoveredRow DEF RecoverCommit, Terminal, TerminalStatus
  <2>5. ~(Submit(t) \/ \E w \in Worker : Claim(w, t))
    BY <1>1 DEF Submit, Claim, Claimable, Terminal, TerminalStatus
  <2> QED
    BY <1>1, <2>1, <2>2, <2>3, <2>4, <2>5, StatusWriters
<1>2. IInv /\ TimelyInv /\ [Next]_vars =>
        (\A t \in Task : Terminal(row[t]) => Terminal(row'[t]))
  BY <1>1
<1> QED
  BY <1>2, InductiveTimely, PTL DEF Timely, NoResurrection, Spec

\* Nobody but its own coroutine ends a task that is being executed: recovery
\* only takes rows that no living coroutine is at work on.
THEOREM NoLivingTaskIsRecovered ==
  ASSUME TimelyHeartbeats, MultiConfig = {}
  PROVE  Spec => NoFalseRecovery
<1>1. ASSUME IInv, TimelyInv, [Next]_vars, NEW t \in Task, NEW w \in Worker,
             Executing(w, t), row[t].status = "running", Terminal(row'[t])
      PROVE  pc'[w][t] # pc[w][t]
  <2>1. row'[t].status # row[t].status
    BY <1>1 DEF Terminal, TerminalStatus
  <2>2. ASSUME NEW v \in Worker, SaveCommit(v, t) \/ RequeueCommit(v, t)
        PROVE  pc'[w][t] # pc[w][t]
    <3>1. Executing(v, t)
      BY <2>2 DEF SaveCommit, RequeueCommit, Executing, Saving
    <3>2. v = w
      BY <1>1, <3>1 DEF IInv, ExecutorInv
    <3> QED
      BY <1>1, <2>2, <3>2 DEF SaveCommit, RequeueCommit, Goto, AfterSave, Saving, IInv, TypeOK
  <2>3. ASSUME NEW m \in Maintainer PROVE t \notin selected[m]
    BY <1>1 DEF TimelyInv, TimelyMaintenance
  <2>4. ~(Submit(t) \/ \E v \in Worker : Claim(v, t))
    BY <1>1 DEF Submit, Claim, Claimable
  <2> QED
    BY <1>1, <2>1, <2>2, <2>3, <2>4, StatusWriters
<1>2. IInv /\ TimelyInv /\ [Next]_vars =>
        (\A t \in Task, w \in Worker :
           /\ Executing(w, t)
           /\ row[t].status = "running"
           /\ Terminal(row'[t])
           => pc'[w][t] # pc[w][t])
  BY <1>1
<1> QED
  BY <1>2, InductiveTimely, PTL DEF Timely, NoFalseRecovery, Spec

=============================================================================
