--------------------- MODULE CrawlTaskQueueRefinement ---------------------
(***************************************************************************)
(* Proof that CrawlTaskQueue implements BoundedRetryQueue, for every value *)
(* of the constants.  A step of the queue is a Submit, a Grant, a GiveBack *)
(* or the Drop of some set of tasks; a step that the abstract queue does   *)
(* not see is the Drop of the empty set.                                   *)
(***************************************************************************)
EXTENDS CrawlTaskQueueProofs

USE NoWorkerAssumption, MaxRequeueAssumption DEF executor, maintenance

Idle(t) == \A w \in Worker : ~Executing(w, t)

\* The refinement mapping, task by task.
MappedPointwise ==
  /\ taskPhase = [t \in Task |-> taskPhase[t]]
  /\ taskHolder = [t \in Task |-> taskHolder[t]]
  /\ \A t \in Task : Idle(t) =>
       taskPhase[t] = PhaseOf(row[t].status) /\ taskHolder[t] = NoWorker
  /\ \A t \in Task, w \in Worker : Executing(w, t) =>
       taskPhase[t] = "held" /\ taskHolder[t] = w

\* ExecutorInv makes the CHOOSE of taskHolder pick the one executing worker.
LEMMA MappingPointwise == IInv => MappedPointwise
<1> SUFFICES ASSUME IInv PROVE MappedPointwise
  OBVIOUS
<1>1. /\ taskPhase = [t \in Task |-> taskPhase[t]]
      /\ taskHolder = [t \in Task |-> taskHolder[t]]
  BY DEF taskPhase, taskHolder
<1>2. ASSUME NEW t \in Task, Idle(t)
      PROVE  taskPhase[t] = PhaseOf(row[t].status) /\ taskHolder[t] = NoWorker
  BY <1>2 DEF taskPhase, taskHolder, Idle
<1>3. ASSUME NEW t \in Task, NEW w \in Worker, Executing(w, t)
      PROVE  taskPhase[t] = "held" /\ taskHolder[t] = w
  <2>1. \A v \in Worker : Executing(v, t) => v = w
    BY <1>3 DEF IInv, ExecutorInv
  <2>2. (CHOOSE v \in Worker : Executing(v, t)) = w
    BY <1>3, <2>1
  <2> QED
    BY <1>3, <2>2 DEF taskPhase, taskHolder
<1> QED
  BY <1>1, <1>2, <1>3 DEF MappedPointwise

\* The step of the abstract queue that a step of the queue is, when it ends
\* the tasks in S and leaves every other task as it was.
LEMMA DropStep ==
  ASSUME MappedPointwise, MappedPointwise', NEW S \in SUBSET Task,
         grants' = grants,
         \A t \in S : /\ taskPhase[t] \in {"waiting", "held"}
                      /\ Idle(t)' /\ row'[t].status \notin {"absent", "pending"},
         \A t \in Task \ S :
           /\ \A w \in Worker : Executing(w, t)' = Executing(w, t)
           /\ Idle(t) => PhaseOf(row'[t].status) = PhaseOf(row[t].status)
  PROVE  Retry!Next
<1>1. \A t \in Task : /\ taskPhase'[t] = IF t \in S THEN "over" ELSE taskPhase[t]
                      /\ taskHolder'[t] = IF t \in S THEN NoWorker ELSE taskHolder[t]
  <2> SUFFICES ASSUME NEW t \in Task
               PROVE  /\ taskPhase'[t] = IF t \in S THEN "over" ELSE taskPhase[t]
                      /\ taskHolder'[t] = IF t \in S THEN NoWorker ELSE taskHolder[t]
    OBVIOUS
  <2>1. CASE t \in S
    BY <2>1 DEF MappedPointwise, PhaseOf
  <2>2. CASE t \notin S /\ Idle(t)
    <3>1. Idle(t)'
      BY <2>2 DEF Idle
    <3> QED
      BY <2>2, <3>1 DEF MappedPointwise
  <2>3. CASE t \notin S /\ ~Idle(t)
    <3>1. PICK w \in Worker : Executing(w, t)
      BY <2>3 DEF Idle
    <3>2. Executing(w, t)'
      BY <2>3, <3>1
    <3> QED
      BY <2>3, <3>1, <3>2 DEF MappedPointwise
  <2> QED
    BY <2>1, <2>2, <2>3
<1>2. /\ taskPhase' = [t \in Task |-> IF t \in S THEN "over" ELSE taskPhase[t]]
      /\ taskHolder' = [t \in Task |-> IF t \in S THEN NoWorker ELSE taskHolder[t]]
  <2>1. /\ taskPhase' = [t \in Task |-> taskPhase'[t]]
        /\ taskHolder' = [t \in Task |-> taskHolder'[t]]
    BY DEF MappedPointwise
  <2> QED
    BY <1>1, <2>1
<1>3. Retry!Drop(S)
  BY <1>2 DEF Retry!Drop
<1> QED
  BY <1>3 DEF Retry!Next

---------------------------------------------------------------------------
\* A step after which the same coroutines are at work, and no row that
\* nobody works on has changed its phase, is invisible.
LEMMA InvisibleStep ==
  ASSUME MappedPointwise, MappedPointwise', grants' = grants,
         \A t \in Task :
           /\ \A w \in Worker : Executing(w, t)' = Executing(w, t)
           /\ Idle(t) => PhaseOf(row'[t].status) = PhaseOf(row[t].status)
  PROVE  Retry!Next
<1>1. \A t \in {} : /\ taskPhase[t] \in {"waiting", "held"}
                    /\ Idle(t)' /\ row'[t].status \notin {"absent", "pending"}
  OBVIOUS
<1>2. /\ {} \in SUBSET Task
      /\ \A t \in Task \ {} :
           /\ \A w \in Worker : Executing(w, t)' = Executing(w, t)
           /\ Idle(t) => PhaseOf(row'[t].status) = PhaseOf(row[t].status)
  OBVIOUS
<1> QED
  BY <1>1, <1>2, DropStep

\* create_crawl_task_record is the abstract Submit.
LEMMA SubmitRefines ==
  ASSUME IInv, MappedPointwise, MappedPointwise', NEW t \in Task, Submit(t)
  PROVE  Retry!Submit(t)
<1>1. /\ row' = [row EXCEPT ![t] = NewRow]
      /\ grants' = grants
      /\ \A u \in Task, w \in Worker : Executing(w, u)' = Executing(w, u)
      /\ row[t].status = "absent"
  BY DEF Submit, Executing
<1>2. Idle(t) /\ \A u \in Task : Idle(u)' = Idle(u)
  BY <1>1 DEF IInv, ExecutorInv, Idle
<1>3. /\ taskPhase[t] = "absent"
      /\ taskPhase'[t] = "waiting" /\ taskHolder'[t] = taskHolder[t]
  <2>1. row'[t].status = "pending"
    BY <1>1 DEF IInv, TypeOK, NewRow
  <2> QED
    BY <1>1, <1>2, <2>1 DEF MappedPointwise, PhaseOf
<1>4. ASSUME NEW u \in Task, u # t
      PROVE  taskPhase'[u] = taskPhase[u] /\ taskHolder'[u] = taskHolder[u]
  <2>1. row'[u] = row[u]
    BY <1>1, <1>4 DEF IInv, TypeOK
  <2>2. CASE Idle(u)
    BY <1>2, <2>1, <2>2 DEF MappedPointwise
  <2>3. CASE ~Idle(u)
    BY <1>1, <2>3 DEF MappedPointwise, Idle
  <2> QED
    BY <2>2, <2>3
<1>5. /\ taskPhase' = [taskPhase EXCEPT ![t] = "waiting"]
      /\ taskHolder' = taskHolder
  BY <1>3, <1>4 DEF MappedPointwise
<1> QED
  BY <1>1, <1>3, <1>5 DEF Retry!Submit

\* claim_next_pending_task is the abstract Grant: the row is PENDING, so
\* nobody executes it, and an attempt is left.
LEMMA ClaimRefines ==
  ASSUME IInv, MappedPointwise, MappedPointwise', NEW w \in Worker, NEW t \in Task, Claim(w, t)
  PROVE  Retry!Grant(t, w)
<1>1. /\ Claimable(row[t])
      /\ row' = [row EXCEPT ![t] = Claimed(row[t], w)]
      /\ grants' = [grants EXCEPT ![t] = @ + 1]
      /\ pc' = [pc EXCEPT ![w][t] = "starting"]
  BY DEF Claim
<1>2. Executing(w, t)'
  BY <1>1 DEF IInv, TypeOK, Executing
<1>3. Idle(t)
  BY <1>1 DEF IInv, ExecutorInv, Idle, Claimable
<1>4. taskPhase[t] = "waiting" /\ taskPhase'[t] = "held" /\ taskHolder'[t] = w
  BY <1>1, <1>2, <1>3 DEF MappedPointwise, PhaseOf, Claimable
<1>5. ASSUME NEW u \in Task, u # t
      PROVE  taskPhase'[u] = taskPhase[u] /\ taskHolder'[u] = taskHolder[u]
  <2>1. row'[u] = row[u] /\ \A v \in Worker : Executing(v, u)' = Executing(v, u)
    BY <1>1, <1>5 DEF IInv, TypeOK, Executing
  <2>2. CASE Idle(u)
    BY <2>1, <2>2 DEF MappedPointwise, Idle
  <2>3. CASE ~Idle(u)
    BY <2>1, <2>3 DEF MappedPointwise, Idle
  <2> QED
    BY <2>2, <2>3
<1>6. grants[t] < MaxRequeue
  <2>1. row[t].attempts \in Nat /\ grants[t] \in Nat
    BY DEF IInv, TypeOK, Row
  <2> QED
    BY <1>1, <2>1 DEF IInv, GrantsInv, GrantPaid, Claimable
<1>7. /\ taskPhase' = [taskPhase EXCEPT ![t] = "held"]
      /\ taskHolder' = [taskHolder EXCEPT ![t] = w]
  BY <1>4, <1>5 DEF MappedPointwise
<1> QED
  BY <1>1, <1>4, <1>6, <1>7 DEF Retry!Grant

\* requeue_claimed_task gives the task back while attempts are left, and
\* ends it otherwise; so it does when maintenance has already failed it.
LEMMA RequeueRefines ==
  ASSUME IInv, IInv', MappedPointwise, MappedPointwise',
         NEW w \in Worker, NEW t \in Task, RequeueCommit(w, t)
  PROVE  Retry!Next
<1>1. /\ pc[w][t] = "requeueing"
      /\ pc' = [pc EXCEPT ![w][t] = "closing"]
      /\ grants' = grants
      /\ \A u \in Task : u # t => row'[u] = row[u]
  BY DEF RequeueCommit, Goto, IInv, TypeOK
<1>2. Executing(w, t) /\ Idle(t)'
  <2>1. Executing(w, t)
    BY <1>1 DEF Executing
  <2>2. \A v \in Worker \ {w} : ~Executing(v, t)
    BY <2>1 DEF IInv, ExecutorInv
  <2>3. \A v \in Worker : ~Executing(v, t)'
    BY <1>1, <2>2 DEF IInv, TypeOK, Executing
  <2> QED
    BY <2>1, <2>3 DEF Idle
<1>3. \A u \in Task \ {t}, v \in Worker : Executing(v, u)' = Executing(v, u)
  BY <1>1 DEF IInv, TypeOK, Executing
<1>4. taskPhase[t] = "held"
  BY <1>2 DEF MappedPointwise
<1>5. CASE row'[t].status \notin {"absent", "pending"}
  <2>1. \A u \in Task \ {t} :
           /\ \A v \in Worker : Executing(v, u)' = Executing(v, u)
           /\ Idle(u) => PhaseOf(row'[u].status) = PhaseOf(row[u].status)
    BY <1>1, <1>3
  <2>2. /\ {t} \in SUBSET Task
        /\ \A u \in {t} : /\ taskPhase[u] \in {"waiting", "held"}
                          /\ Idle(u)' /\ row'[u].status \notin {"absent", "pending"}
    BY <1>2, <1>4, <1>5
  <2> QED
    BY <1>1, <2>1, <2>2, DropStep
<1>6. CASE row'[t].status = "pending"
  <2>1. grants[t] < MaxRequeue
    <3>1. row'[t].attempts \in Nat /\ grants[t] \in Nat /\ row'[t].attempts < MaxRequeue
      BY <1>6 DEF IInv, TypeOK, Row, PendingIsClaimable
    <3>2. GrantPaid(row'[t], grants[t])
      BY <1>1 DEF IInv, GrantsInv
    <3> QED
      BY <1>6, <3>1, <3>2 DEF GrantPaid
  <2>2. taskPhase'[t] = "waiting" /\ taskHolder'[t] = NoWorker
    BY <1>2, <1>6 DEF MappedPointwise, PhaseOf
  <2>3. ASSUME NEW u \in Task, u # t
        PROVE  taskPhase'[u] = taskPhase[u] /\ taskHolder'[u] = taskHolder[u]
    <3>1. CASE Idle(u)
      BY <1>1, <1>3, <2>3, <3>1 DEF MappedPointwise, Idle
    <3>2. CASE ~Idle(u)
      BY <1>1, <1>3, <2>3, <3>2 DEF MappedPointwise, Idle
    <3> QED
      BY <3>1, <3>2
  <2>4. /\ taskPhase' = [taskPhase EXCEPT ![t] = "waiting"]
        /\ taskHolder' = [taskHolder EXCEPT ![t] = NoWorker]
    BY <2>2, <2>3 DEF MappedPointwise
  <2>5. Retry!GiveBack(t)
    BY <1>1, <1>4, <2>1, <2>4 DEF Retry!GiveBack
  <2> QED
    BY <2>5 DEF Retry!Next
<1>7. row'[t].status # "absent"
  <2>1. loaded[w][t] \in Row /\ row[t] \in Row /\ loaded[w][t].attempts < MaxRequeue
    <3>1. loaded[w][t] \in Row /\ row[t] \in Row
      BY DEF IInv, TypeOK
    <3>2. row[t].attempts < MaxRequeue /\ loaded[w][t].attempts = row[t].attempts
      BY <1>1, <1>2 DEF IInv, ExecutorInv
    <3> QED
      BY <3>1, <3>2
  <2>2. row[t].status # "absent"
    BY <1>2 DEF IInv, ExecutorInv
  <2>3. row'[t] = Flush(loaded[w][t], Requeued(loaded[w][t]), row[t])
    BY DEF RequeueCommit, IInv, TypeOK
  <2> QED
    BY <2>1, <2>2, <2>3, RequeuedType DEF Flush, Written
<1> QED
  BY <1>5, <1>6, <1>7

---------------------------------------------------------------------------
\* The end of an execution: the coroutine of w leaves the task without
\* making its row PENDING.
LEMMA EndStep ==
  ASSUME IInv, MappedPointwise, MappedPointwise', NEW w \in Worker, NEW t \in Task,
         Executing(w, t), grants' = grants,
         NEW q \in {"off", "closing"}, pc' = [pc EXCEPT ![w][t] = q],
         row'[t].status \notin {"absent", "pending"},
         \A u \in Task : u # t => row'[u] = row[u]
  PROVE  Retry!Next
<1>1. \A v \in Worker \ {w} : ~Executing(v, t)
  BY DEF IInv, ExecutorInv
<1>2. Idle(t)'
  <2>1. \A v \in Worker : ~Executing(v, t)'
    BY <1>1 DEF IInv, TypeOK, Executing
  <2> QED
    BY <2>1 DEF Idle
<1>3. \A u \in Task \ {t}, v \in Worker : Executing(v, u)' = Executing(v, u)
  BY DEF IInv, TypeOK, Executing
<1>4. /\ {t} \in SUBSET Task
      /\ \A u \in {t} : /\ taskPhase[u] \in {"waiting", "held"}
                        /\ Idle(u)' /\ row'[u].status \notin {"absent", "pending"}
  BY <1>2 DEF MappedPointwise
<1>5. \A u \in Task \ {t} :
        /\ \A v \in Worker : Executing(v, u)' = Executing(v, u)
        /\ Idle(u) => PhaseOf(row'[u].status) = PhaseOf(row[u].status)
  BY <1>3
<1> QED
  BY <1>4, <1>5, DropStep

\* A save is invisible, unless it is the last one, the except handler's.
LEMMA SaveRefines ==
  ASSUME IInv, MappedPointwise, MappedPointwise', NEW w \in Worker, NEW t \in Task,
         SaveCommit(w, t)
  PROVE  Retry!Next
<1>1. /\ pc[w][t] \in Saving /\ Executing(w, t)
      /\ pc' = [pc EXCEPT ![w][t] = AfterSave(pc[w][t])]
      /\ grants' = grants
      /\ \A u \in Task : u # t => row'[u] = row[u]
  BY DEF SaveCommit, Goto, IInv, TypeOK, Saving, Executing
<1>2. row'[t].status \notin {"absent", "pending"}
  <2>1. row'[t] = Flush(loaded[w][t], Synced(loaded[w][t], runtime[w][t]), row[t])
    BY DEF SaveCommit, IInv, TypeOK
  <2> QED
    BY <1>1, <2>1, SavedRow
<1>3. CASE pc[w][t] = "savingError"
  <2>1. AfterSave(pc[w][t]) = "closing"
    BY <1>3 DEF AfterSave
  <2> QED
    BY <1>1, <1>2, <2>1, EndStep
<1>4. CASE pc[w][t] # "savingError"
  <2>1. AfterSave(pc[w][t]) \in {"claimed", "crawling", "logging"}
    BY <1>1, <1>4 DEF AfterSave, Saving
  <2>2. \A u \in Task, v \in Worker : Executing(v, u)' = Executing(v, u)
    BY <1>1, <2>1 DEF IInv, TypeOK, Executing
  <2>3. \A u \in Task : Idle(u) => row'[u] = row[u]
    BY <1>1 DEF Idle
  <2> QED
    BY <1>1, <2>2, <2>3, InvisibleStep
<1> QED
  BY <1>3, <1>4

\* The other steps of a coroutine leave the rows alone: it goes on, or it
\* ends with a row that some step has already settled or that stays RUNNING.
LEMMA ExecuteRefines ==
  ASSUME IInv, IInv', MappedPointwise, MappedPointwise', NEW w \in Worker, NEW t \in Task,
         Execute(w, t)
  PROVE  Retry!Next
<1>1. CASE \/ Begin(w, t) \/ EnterCrawl(w, t) \/ Report(w, t) \/ Finish(w, t)
           \/ Raise(w, t) \/ SaveSkipped(w, t)
           \/ RequeueLoad(w, t) /\ HeldBy(row[t], w)
  <2>1. PICK q \in PC \ {"off", "closing"} : pc' = [pc EXCEPT ![w][t] = q]
    BY <1>1 DEF Begin, EnterCrawl, Report, ReportLoad, Finish, FinishLoad, Raise, SaveSkipped,
                RequeueLoad, Goto, PC
  <2>2. pc[w][t] \notin {"off", "closing"} /\ UNCHANGED <<row, grants>>
    BY <1>1 DEF Begin, EnterCrawl, Report, ReportLoad, Finish, FinishLoad, Raise, SaveSkipped,
                RequeueLoad, Saving
  <2>3. \A u \in Task, v \in Worker : Executing(v, u)' = Executing(v, u)
    BY <2>1, <2>2 DEF IInv, TypeOK, Executing
  <2> QED
    BY <2>2, <2>3, InvisibleStep
<1>2. CASE ExecutionDies(w, t) \/ (RequeueLoad(w, t) /\ ~HeldBy(row[t], w))
  <2>1. /\ Executing(w, t)
        /\ pc' = [pc EXCEPT ![w][t] = "closing"]
        /\ UNCHANGED <<row, grants>>
    BY <1>2 DEF ExecutionDies, RequeueLoad, Goto, Executing
  <2>2. row[t].status \notin {"absent", "pending"}
    BY <2>1 DEF IInv, ExecutorInv
  <2> QED
    BY <2>1, <2>2, EndStep
<1>3. CASE Close(w, t)
  <2>1. /\ pc[w][t] \in {"logging", "closing"}
        /\ pc' = [pc EXCEPT ![w][t] = "off"]
        /\ UNCHANGED <<row, grants>>
    BY <1>3 DEF Close, Goto
  <2>2. CASE pc[w][t] = "closing"
    <3>1. \A u \in Task, v \in Worker : Executing(v, u)' = Executing(v, u)
      BY <2>1, <2>2 DEF IInv, TypeOK, Executing
    <3> QED
      BY <2>1, <3>1, InvisibleStep
  <2>3. CASE pc[w][t] = "logging"
    <3>1. Executing(w, t)
      BY <2>3 DEF Executing
    <3>2. row[t].status \notin {"absent", "pending"}
      BY <3>1 DEF IInv, ExecutorInv
    <3> QED
      BY <2>1, <3>1, <3>2, EndStep
  <2> QED
    BY <2>1, <2>2, <2>3
<1>4. CASE SaveCommit(w, t)
  BY <1>4, SaveRefines
<1>5. CASE RequeueCommit(w, t)
  BY <1>5, RequeueRefines
<1>6. CASE RequeueLoad(w, t)
  <2>1. CASE HeldBy(row[t], w)
    BY <1>1, <1>6, <2>1
  <2>2. CASE ~HeldBy(row[t], w)
    BY <1>2, <1>6, <2>2
  <2> QED
    BY <2>1, <2>2
<1>7. CASE \/ Begin(w, t) \/ EnterCrawl(w, t) \/ Report(w, t) \/ Finish(w, t)
           \/ Raise(w, t) \/ SaveSkipped(w, t)
  BY <1>1, <1>7
<1>8. CASE ExecutionDies(w, t)
  BY <1>2, <1>8
<1> QED
  BY <1>3, <1>4, <1>5, <1>6, <1>7, <1>8 DEF Execute

\* A recovery ends the waiting tasks among its selection (a requeue came in
\* between); it does not disturb the mapping of any other task.
LEMMA RecoverRefines ==
  ASSUME IInv, IInv', MappedPointwise, MappedPointwise', NEW m \in Maintainer,
         RecoverCommit(m)
  PROVE  Retry!Next
<1> DEFINE S == {t \in selected[m] : Idle(t) /\ row[t].status = "pending"}
<1>1. /\ UNCHANGED <<pc, grants>>
      /\ \A t \in Task, w \in Worker : Executing(w, t)' = Executing(w, t)
  BY DEF RecoverCommit, Executing
<1>2. \A t \in Task : /\ t \in selected[m] => row'[t].status = "failed"
                      /\ t \notin selected[m] => row'[t] = row[t]
  BY RecoveredRow DEF RecoverCommit
<1>3. selected[m] \in SUBSET Task
  BY DEF IInv, TypeOK
<1>4. \A t \in S : /\ taskPhase[t] \in {"waiting", "held"}
                   /\ Idle(t)' /\ row'[t].status \notin {"absent", "pending"}
  BY <1>1, <1>2, <1>3 DEF MappedPointwise, PhaseOf, Idle
<1>5. \A t \in Task \ S :
        /\ \A w \in Worker : Executing(w, t)' = Executing(w, t)
        /\ Idle(t) => PhaseOf(row'[t].status) = PhaseOf(row[t].status)
  <2> SUFFICES ASSUME NEW t \in Task \ S, Idle(t)
               PROVE  PhaseOf(row'[t].status) = PhaseOf(row[t].status)
    BY <1>1
  <2>1. CASE t \in selected[m]
    <3>1. row[t].status \notin {"absent", "pending"}
      BY <2>1 DEF IInv, MaintenanceInv
    <3> QED
      BY <1>2, <2>1, <3>1 DEF PhaseOf
  <2>2. CASE t \notin selected[m]
    BY <1>2, <2>2
  <2> QED
    BY <2>1, <2>2
<1>6. S \in SUBSET Task
  BY <1>3
<1> QED
  BY <1>1, <1>4, <1>5, <1>6, DropStep

\* A process that stops drops everything it is executing.
LEMMA GoneRefines ==
  ASSUME IInv, MappedPointwise, MappedPointwise', NEW w \in Worker, ProcessGone(w)
  PROVE  Retry!Next
<1> DEFINE S == {t \in Task : Executing(w, t)}
<1>1. /\ UNCHANGED <<row, grants>>
      /\ pc' = [pc EXCEPT ![w] = [t \in Task |-> "off"]]
  BY DEF ProcessGone
<1>2. \A t \in Task : /\ ~Executing(w, t)'
                      /\ \A v \in Worker \ {w} : Executing(v, t)' = Executing(v, t)
  BY <1>1 DEF IInv, TypeOK, Executing
<1>3. ASSUME NEW t \in S
      PROVE  /\ taskPhase[t] \in {"waiting", "held"}
             /\ Idle(t)' /\ row'[t].status \notin {"absent", "pending"}
  <2>1. \A v \in Worker \ {w} : ~Executing(v, t)
    BY <1>3 DEF IInv, ExecutorInv
  <2>2. \A v \in Worker : ~Executing(v, t)'
    BY <1>2, <1>3, <2>1
  <2>3. row[t].status \notin {"absent", "pending"}
    BY <1>3 DEF IInv, ExecutorInv
  <2> QED
    BY <1>1, <1>3, <2>2, <2>3 DEF MappedPointwise, Idle
<1>4. \A t \in Task \ S :
        /\ \A v \in Worker : Executing(v, t)' = Executing(v, t)
        /\ Idle(t) => PhaseOf(row'[t].status) = PhaseOf(row[t].status)
  <2> SUFFICES ASSUME NEW t \in Task \ S, NEW v \in Worker
               PROVE  Executing(v, t)' = Executing(v, t)
    BY <1>1
  <2>1. CASE v = w
    <3>1. ~Executing(v, t) /\ ~Executing(v, t)'
      BY <1>2, <2>1
    <3> QED
      BY <3>1 DEF Executing
  <2>2. CASE v # w
    BY <1>2, <2>2
  <2> QED
    BY <2>1, <2>2
<1>5. S \in SUBSET Task
  OBVIOUS
<1> QED
  BY <1>1, <1>3, <1>4, <1>5, DropStep

---------------------------------------------------------------------------
\* Every step of the queue is a step of the abstract queue, or invisible.
LEMMA NextRefines ==
  ASSUME IInv, IInv', MappedPointwise, MappedPointwise', [Next]_vars
  PROVE  [Retry!Next]_(Retry!vars)
<1>1. ASSUME NEW t \in Task, Submit(t) PROVE Retry!Next
  BY <1>1, SubmitRefines DEF Retry!Next
<1>2. ASSUME NEW t \in Task, LeaseExpires(t) \/ DelayPasses(t) PROVE Retry!Next
  <2>1. UNCHANGED <<pc, grants>>
    BY <1>2 DEF LeaseExpires, DelayPasses
  <2>2. \A u \in Task : row'[u].status = row[u].status
    <3>1. row \in [Task -> Row]
      BY DEF IInv, TypeOK
    <3>2. CASE row' = [row EXCEPT ![t].lease = "expired"]
      BY <3>1, <3>2 DEF Row
    <3>3. CASE row' = [row EXCEPT ![t].deferred = FALSE]
      BY <3>1, <3>3 DEF Row
    <3> QED
      BY <1>2, <3>2, <3>3 DEF LeaseExpires, DelayPasses
  <2> QED
    BY <2>1, <2>2, InvisibleStep DEF Executing
<1>3. ASSUME NEW w \in Worker, Shutdown(w) \/ Crash(w) PROVE Retry!Next
  BY <1>3, GoneRefines DEF Shutdown, Crash
<1>4. ASSUME NEW w \in Worker, NEW t \in Task, Claim(w, t) PROVE Retry!Next
  BY <1>4, ClaimRefines DEF Retry!Next
<1>5. ASSUME NEW w \in Worker, NEW t \in Task, Execute(w, t) PROVE Retry!Next
  BY <1>5, ExecuteRefines
<1>6. ASSUME NEW w \in Worker, NEW t \in Task, Heartbeat(w, t) PROVE Retry!Next
  <2>1. UNCHANGED <<pc, grants>>
    BY <1>6 DEF Heartbeat, BeatLoad, BeatCommit, BeatDies
  <2>2. \A u \in Task : row'[u].status = row[u].status
    <3>1. row \in [Task -> Row]
      BY DEF IInv, TypeOK
    <3>2. CASE row' = [row EXCEPT ![t] = Renewed(row[t])]
      BY <3>1, <3>2 DEF Row, Renewed
    <3> QED
      BY <1>6, <3>2 DEF Heartbeat, BeatLoad, BeatCommit, BeatDies
  <2> QED
    BY <2>1, <2>2, InvisibleStep DEF Executing
<1>7. ASSUME NEW m \in Maintainer, RecoverCommit(m) PROVE Retry!Next
  BY <1>7, RecoverRefines
<1>8. CASE \/ \E w \in Worker : StartWorker(w)
           \/ \E m \in Maintainer : RecoverLoad(m)
           \/ ApiRestart
           \/ UNCHANGED vars
  <2>1. UNCHANGED <<row, pc, grants>>
    BY <1>8 DEF StartWorker, RecoverLoad, ApiRestart, vars
  <2> QED
    BY <2>1, InvisibleStep DEF Executing
<1>9. CASE \E t \in Task : Submit(t) \/ LeaseExpires(t) \/ DelayPasses(t)
  BY <1>1, <1>2, <1>9
<1>10. CASE \E w \in Worker : Shutdown(w) \/ Crash(w)
  BY <1>3, <1>10
<1>11. CASE \E w \in Worker, t \in Task : Claim(w, t) \/ Execute(w, t) \/ Heartbeat(w, t)
  BY <1>4, <1>5, <1>6, <1>11
<1> QED
  BY <1>7, <1>8, <1>9, <1>10, <1>11 DEF Next

\* The initial state of the queue is one of the abstract queue.
LEMMA InitRefines == Init => Retry!Init
<1> SUFFICES ASSUME Init PROVE Retry!Init
  OBVIOUS
<1>1. \A t \in Task : Idle(t) /\ row[t].status = "absent"
  BY DEF Init, Idle, Executing, AbsentRow
<1>2. MappedPointwise
  BY InitIInv, MappingPointwise
<1> QED
  BY <1>1, <1>2 DEF Init, Retry!Init, MappedPointwise, PhaseOf

\* The queue with its rows, leases, heartbeats, crashes and races promises
\* what BoundedRetryQueue says: one holder at a time, at most
\* crawler_task_max_requeue_attempts grants, no grant after the holder is gone.
THEOREM QueueRefinesRetryQueue == Spec => ImplementsRetryQueue
<1>1. IInv /\ IInv' /\ MappedPointwise /\ MappedPointwise' /\ [Next]_vars
        => [Retry!Next]_(Retry!vars)
  BY NextRefines
<1> QED
  BY <1>1, Inductive, InitRefines, MappingPointwise, PTL
     DEF Spec, ImplementsRetryQueue, Retry!Spec
=============================================================================
