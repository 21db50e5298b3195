-------------------------- MODULE JobFanoutProofs --------------------------
(***************************************************************************)
(* Proofs about JobFanout for every set of groups, of batches with several *)
(* configs and of maintainers, every attempt limit, and every timing:      *)
(* Slow and Crashes are not restricted, so that heartbeats may die, leases *)
(* run out and a recovery overtake the parent and any child at any time.   *)
(***************************************************************************)
EXTENDS JobFanout, TLAPS

USE NoWorkerAssumption, MaxRequeueAssumption, OwnerAssumption, NoOneAssumption
    DEF parentVars, maintenance, childVars, aggVars, ParentSide, Reopening

\* Who holds the parent's row lock finds no result there, and nobody writes
\* one before it is done.
LockInv ==
  /\ aggregator # NoOne => ~Terminal(parent)
  /\ verdict # "open" => aggregator # NoOne

\* A child with one config is RUNNING until it has reported, unless a recovery
\* has overtaken it.
AtWork == {"claimed", "leasing", "requeueing", "crawling"}

ChildInv ==
  \A g \in Group \ Reopening : cpc[g] \in AtWork => child[g] = "running"

\* The coroutine stands behind the creation of the children.
Planned == {"savingPlan", "returned", "savingFinal", "toRelease", "releasing", "logging"}

\* What the parent's coroutine knows: an error leads to FAILED, for good, and
\* without one every child has been created.
ParentInv ==
  /\ ppc \in Planned \cup {"creating"} =>
       /\ runtime # "failed"
       /\ runtime = "completed" => groups = {}
  /\ ppc \in Planned => groups \subseteq Created
  /\ ppc = "savingError" =>
       /\ runtime = "failed"
       /\ session.row.status = "failed" => parent.status = "failed"
  /\ ppc = "closing" => parent.status = "failed"
  /\ ppc = "off" => groups \subseteq Created \/ parent.status = "failed"

\* What a COMPLETED parent promises.
Covered ==
  /\ groups \subseteq Created
  /\ \A g \in groups \ Reopening : child[g] \in TerminalStatus /\ ~errors[g]

\* An aggregation that counted too few children is undone: the plan's save
\* waits for the row lock, and the final save, which loads the row after that,
\* reopens it.  A verdict computed later, and so a COMPLETED parent that the
\* final save leaves alone, covers every child.
ResultInv ==
  /\ ppc \in (Planned \ {"savingPlan"}) \cup {"off"} /\ verdict = "completed" => Covered
  /\ /\ ppc = "savingFinal"
     /\ session.row.status = "running"
     /\ parent.status = "completed"
     => Covered
  /\ ppc \in {"toRelease", "releasing", "logging", "off"} /\ parent.status = "completed"
       => Covered

FanoutInv == TypeOK /\ LockInv /\ ChildInv /\ ParentInv /\ ResultInv

---------------------------------------------------------------------------
(* The row operators                                                       *)

\* A commit of columns taken from three rows writes a row.
LEMMA FlushedRow ==
  ASSUME NEW l \in Row, NEW a \in Row, NEW c \in Row
  PROVE  Flush(l, a, c) \in Row
BY DEF Flush, Written, Row

\* What the writers of the parent's row assign is a row.
LEMMA WrittenRows ==
  ASSUME NEW r \in Row, NEW s \in {"running", "completed", "failed"}
  PROVE  /\ Synced(r, s) \in Row /\ Synced(r, s).status = s
         /\ Recovered(r) \in Row /\ Recovered(r).status = "failed"
         /\ Renewed(r) \in Row /\ Renewed(r).status = r.status
<1> USE DEF Row, Status, Lease, TerminalStatus
<1>1. Synced(r, s) \in Row /\ Synced(r, s).status = s
  BY DEF Synced
<1>2. Recovered(r) \in Row /\ Recovered(r).status = "failed"
  BY DEF Recovered
<1>3. Renewed(r) \in Row /\ Renewed(r).status = r.status
  BY DEF Renewed
<1> QED
  BY <1>1, <1>2, <1>3

\* So are a parent without its lease and one whose lease has run out.
LEMMA UnlockedRows ==
  ASSUME NEW r \in Row
  PROVE  /\ [r EXCEPT !.lockedBy = NoWorker, !.lease = "none"] \in Row
         /\ [r EXCEPT !.lockedBy = NoWorker, !.lease = "none"].status = r.status
         /\ [r EXCEPT !.lease = "expired"] \in Row
         /\ [r EXCEPT !.lease = "expired"].status = r.status
BY DEF Row, Status, Lease

\* A missing row and a session that is not open have the type of the others.
LEMMA NothingLoaded ==
  AbsentRow \in Row /\ NoSession \in [row : Row, waiting : BOOLEAN]
BY DEF AbsentRow, NoSession, Row, Status, Lease

\* The invariant holds when the parent has just been claimed.
LEMMA InitFanout == Init => FanoutInv
<1> SUFFICES ASSUME Init PROVE FanoutInv
  OBVIOUS
<1>1. Claimed(NewRow, Owner) \in Row
  BY DEF Claimed, NewRow, Row, Status, Lease
<1>2. TypeOK
  BY <1>1, NothingLoaded DEF Init, TypeOK, ParentPC, ChildPC, ChildLease, Status
<1>3. LockInv /\ ChildInv /\ ParentInv /\ ResultInv
  BY DEF Init, LockInv, ChildInv, AtWork, ParentInv, ResultInv, Planned
<1> QED
  BY <1>2, <1>3 DEF FanoutInv

---------------------------------------------------------------------------
(* The parent's coroutine                                                  *)

\* The configs are read: nothing has been created yet.
LEMMA SelectFanout ==
  ASSUME FanoutInv, NEW S \in SUBSET Group, SelectConfigs(S)
  PROVE  FanoutInv'
<1> USE DEF SelectConfigs, FanoutInv
<1>1. TypeOK'
  BY DEF TypeOK, ParentPC
<1>2. LockInv' /\ ChildInv'
  BY DEF LockInv, ChildInv
<1>3. ParentInv' /\ ResultInv'
  BY DEF ParentInv, ResultInv, Planned
<1> QED
  BY <1>1, <1>2, <1>3

\* A child is created while the parent is still planning.
LEMMA CreateFanout ==
  ASSUME FanoutInv, NEW g \in Group, CreateChild(g)
  PROVE  FanoutInv'
<1> USE DEF CreateChild, FanoutInv
<1>1. TypeOK'
  BY DEF TypeOK, Status
<1>2. LockInv' /\ ChildInv'
  BY DEF LockInv, ChildInv, TypeOK
<1>3. ParentInv' /\ ResultInv'
  BY DEF ParentInv, ResultInv, Planned
<1> QED
  BY <1>1, <1>2, <1>3

\* A session that loads the row now sees what is there.
LEMMA LoadFanout ==
  ASSUME FanoutInv, PlanLoad \/ ReleaseLoad \/ Raise
  PROVE  FanoutInv'
<1> USE DEF PlanLoad, ReleaseLoad, Raise, LoadParent, FanoutInv
<1>1. TypeOK'
  BY DEF TypeOK, ParentPC
<1>2. LockInv' /\ ChildInv'
  BY DEF LockInv, ChildInv
<1>3. ParentInv'
  BY DEF ParentInv, Planned, Created, TypeOK
<1>4. ResultInv'
  BY DEF ParentInv, ResultInv, Planned, Covered, Created, TypeOK
<1> QED
  BY <1>1, <1>2, <1>3, <1>4

\* The coroutine ends.
LEMMA EndFanout ==
  ASSUME FanoutInv, Close \/ ParentDies
  PROVE  FanoutInv'
<1> USE DEF Close, ParentDies, FanoutInv
<1>1. TypeOK'
  BY NothingLoaded DEF TypeOK, ParentPC
<1>2. LockInv' /\ ChildInv'
  BY DEF LockInv, ChildInv
<1>3. ParentInv'
  BY DEF ParentInv, Planned, Created
<1>4. ResultInv'
  BY DEF LockInv, ParentInv, ResultInv, Planned, Covered, Created, Terminal, TerminalStatus
<1> QED
  BY <1>1, <1>2, <1>3, <1>4

\* The status that a save leaves in the row: the runtime's, unless the save
\* had loaded that very status.
LEMMA SavedParent ==
  ASSUME FanoutInv, SaveCommit
  PROVE  /\ parent' \in Row
         /\ parent'.status = IF session.row.status = runtime THEN parent.status ELSE runtime
<1>1. /\ session.row \in Row /\ parent \in Row
      /\ runtime \in {"running", "completed", "failed"}
  BY DEF FanoutInv, TypeOK
<1>2. Synced(session.row, runtime) \in Row /\ Synced(session.row, runtime).status = runtime
  BY <1>1, WrittenRows
<1>3. parent' \in Row
  BY <1>1, <1>2, FlushedRow DEF SaveCommit
<1>4. parent'.status = Written(session.row.status, Synced(session.row, runtime).status,
                               parent.status)
  BY DEF SaveCommit, Flush
<1> QED
  BY <1>2, <1>3, <1>4 DEF Written

\* A save of the coroutine: nobody is aggregating, and the one after which the
\* coroutine is done with its row has loaded it after the plan was saved.
LEMMA SaveFanout ==
  ASSUME FanoutInv, SaveCommit
  PROVE  FanoutInv'
<1>1. /\ ppc \in {"savingPlan", "savingFinal", "savingError"}
      /\ ppc' = AfterSave
      /\ aggregator = NoOne
      /\ session' = NoSession
      /\ waiting' \in BOOLEAN
      /\ UNCHANGED <<groups, slow, runtime, beat, seen, picked, child, lease, errors, cpc, overtaken,
                     aggregator, verdict>>
  BY DEF SaveCommit, Written, FanoutInv, TypeOK
<1>2. TypeOK'
  BY <1>1, NothingLoaded, SavedParent DEF FanoutInv, TypeOK, AfterSave, ParentPC
<1>3. LockInv' /\ ChildInv'
  BY <1>1 DEF FanoutInv, LockInv, ChildInv
<1>4. ParentInv'
  BY <1>1, SavedParent DEF FanoutInv, ParentInv, AfterSave, Planned, Created
<1>5. ResultInv'
  <2>1. verdict' = "open"
    BY <1>1 DEF FanoutInv, LockInv, TypeOK
  <2>2. ppc' # "savingFinal"
    BY <1>1 DEF AfterSave
  <2>3. ASSUME ppc' \in {"toRelease", "releasing", "logging", "off"}, parent'.status = "completed"
        PROVE  Covered
    <3>1. ppc = "savingFinal"
      BY <1>1, <2>3 DEF AfterSave
    <3>2. CASE runtime = "completed"
      BY <3>1, <3>2 DEF FanoutInv, ParentInv, Planned, Covered
    <3>3. CASE runtime = "running"
      BY <2>3, <3>1, <3>3, SavedParent DEF FanoutInv, ResultInv
    <3> QED
      BY <3>1, <3>2, <3>3 DEF FanoutInv, ParentInv, Planned, TypeOK
  <2>4. Covered = Covered'
    BY <1>1 DEF Covered, Created
  <2> QED
    BY <2>1, <2>2, <2>3, <2>4 DEF ResultInv
<1> QED
  BY <1>2, <1>3, <1>4, <1>5 DEF FanoutInv

\* A release of the lease, a renewal and the passing of time leave the status.
LEMMA LeaseFanout ==
  ASSUME FanoutInv, ReleaseCommit \/ BeatCommit \/ LeaseExpires
  PROVE  FanoutInv'
<1>1. parent' \in Row /\ parent'.status = parent.status
  <2>1. parent \in Row /\ session.row \in Row
    BY DEF FanoutInv, TypeOK
  <2>2. CASE ReleaseCommit
    <3> DEFINE l == session.row
               a == [l EXCEPT !.lockedBy = NoWorker, !.lease = "none"]
    <3>1. a \in Row /\ a.status = l.status
      BY <2>1, UnlockedRows
    <3>2. parent' = Flush(l, a, parent)
      BY <2>2 DEF ReleaseCommit
    <3>3. parent' \in Row
      BY <2>1, <3>1, <3>2, FlushedRow
    <3> HIDE DEF a
    <3>4. parent'.status = Written(l.status, a.status, parent.status)
      BY <3>2 DEF Flush
    <3> QED
      BY <3>1, <3>3, <3>4 DEF Written
  <2>3. CASE BeatCommit
    BY <2>1, <2>3, WrittenRows DEF BeatCommit
  <2>4. CASE LeaseExpires
    BY <2>1, <2>4, UnlockedRows DEF LeaseExpires
  <2> QED
    BY <2>2, <2>3, <2>4
<1>2. /\ UNCHANGED <<waiting, groups, slow, runtime, seen, picked, child, lease, errors, cpc, overtaken,
                     aggregator, verdict>>
      /\ \/ UNCHANGED <<ppc, session>> /\ beat' \in {beat, "on"}
         \/ ppc = "releasing" /\ ppc' = "logging" /\ session' = NoSession /\ UNCHANGED beat
  BY DEF ReleaseCommit, BeatCommit, LeaseExpires
<1>3. TypeOK'
  BY <1>1, <1>2, NothingLoaded DEF FanoutInv, TypeOK, ParentPC
<1>4. LockInv' /\ ChildInv'
  BY <1>1, <1>2 DEF FanoutInv, LockInv, ChildInv, Terminal
<1>5. ParentInv'
  BY <1>1, <1>2 DEF FanoutInv, ParentInv, Planned, Created
<1>6. ResultInv'
  BY <1>1, <1>2 DEF FanoutInv, ResultInv, Planned, Covered, Created
<1> QED
  BY <1>3, <1>4, <1>5, <1>6 DEF FanoutInv

\* So does a heartbeat that only looks, or dies.
LEMMA BeatFanout ==
  ASSUME FanoutInv, BeatLoad \/ BeatDies \/ \E m \in Maintainer : RecoverLoad(m)
  PROVE  FanoutInv'
<1>1. /\ UNCHANGED <<parent, waiting, groups, slow, ppc, runtime, session, child, lease, errors,
                     cpc, overtaken, aggregator, verdict>>
      /\ beat' \in {"off", "on", "renewing"}
      /\ seen' \in [Maintainer -> Row]
      /\ picked' \in [Maintainer -> SUBSET Group]
  BY NothingLoaded DEF BeatLoad, BeatDies, RecoverLoad, FanoutInv, TypeOK
<1>2. TypeOK'
  BY <1>1 DEF FanoutInv, TypeOK
<1>3. LockInv' /\ ChildInv' /\ ParentInv' /\ ResultInv'
  BY <1>1 DEF FanoutInv, LockInv, ChildInv, ParentInv, ResultInv, Covered, Created
<1> QED
  BY <1>2, <1>3 DEF FanoutInv

\* Recovery writes FAILED into the parent's row, or leaves the status it found
\* changed meanwhile.
LEMMA RecoveredParent ==
  ASSUME FanoutInv, NEW m \in Maintainer, RecoverParent(m)
  PROVE  /\ parent' \in Row
         /\ parent' # parent => aggregator = NoOne /\ parent'.status \in {"failed", parent.status}
         /\ waiting' \in BOOLEAN
<1>1. parent \in Row /\ seen[m] \in Row /\ waiting \in BOOLEAN
  BY DEF FanoutInv, TypeOK
<1>2. CASE seen[m] = AbsentRow
  BY <1>1, <1>2 DEF RecoverParent
<1>3. CASE seen[m] # AbsentRow
  <2>1. Recovered(seen[m]) \in Row /\ Recovered(seen[m]).status = "failed"
    BY <1>1, WrittenRows
  <2>2. aggregator = NoOne /\ waiting' = FALSE /\ parent' = Flush(seen[m], Recovered(seen[m]), parent)
    BY <1>3 DEF RecoverParent
  <2>3. parent' \in Row
    BY <1>1, <2>1, <2>2, FlushedRow
  <2>4. parent'.status = Written(seen[m].status, Recovered(seen[m]).status, parent.status)
    BY <2>2 DEF Flush
  <2> QED
    BY <2>1, <2>2, <2>3, <2>4 DEF Written
<1> QED
  BY <1>2, <1>3

\* It makes children FAILED and leaves their errors as they are; a child whose
\* executor goes on is overtaken from then on.
LEMMA RecoveredChildren ==
  ASSUME FanoutInv, NEW m \in Maintainer, RecoverChildren(m)
  PROVE  /\ child' \in [Group -> Status] /\ lease' \in [Group -> ChildLease]
         /\ overtaken' \in SUBSET Group /\ Reopening \subseteq Reopening'
         /\ UNCHANGED <<errors, cpc>>
         /\ \A g \in Group : child'[g] \in {"failed", child[g]}
         /\ \A g \in Group \ Reopening' : cpc[g] # "off" => child'[g] = child[g]
<1>1. /\ picked[m] \subseteq Group
      /\ child \in [Group -> Status] /\ lease \in [Group -> ChildLease]
      /\ overtaken \subseteq Group
  BY DEF FanoutInv, TypeOK
<1>2. child' = [g \in Group |-> IF g \in picked[m] THEN "failed" ELSE child[g]]
  BY DEF RecoverChildren
<1>3. overtaken' = overtaken \cup {g \in picked[m] \ MultiConfig : cpc[g] # "off"}
  BY DEF RecoverChildren
<1>4. lease' \in [Group -> ChildLease]
  BY <1>1 DEF RecoverChildren, ChildLease
<1>5. UNCHANGED <<errors, cpc>>
  BY DEF RecoverChildren
<1>6. child' \in [Group -> Status] /\ \A g \in Group : child'[g] \in {"failed", child[g]}
  BY <1>1, <1>2 DEF Status, TerminalStatus
<1>7. overtaken' \in SUBSET Group /\ Reopening \subseteq Reopening'
  BY <1>1, <1>3
<1>8. \A g \in Group \ Reopening' : cpc[g] # "off" => child'[g] = child[g]
  BY <1>2, <1>3
<1> QED
  BY <1>4, <1>5, <1>6, <1>7, <1>8

\* A recovery of the parent and of children preserves the invariant.
LEMMA RecoverFanout ==
  ASSUME FanoutInv, NEW m \in Maintainer, RecoverCommit(m)
  PROVE  FanoutInv'
<1>1. /\ parent' \in Row
      /\ parent' # parent => aggregator = NoOne /\ parent'.status \in {"failed", parent.status}
      /\ waiting' \in BOOLEAN
  BY RecoveredParent DEF RecoverCommit
<1>2. /\ child' \in [Group -> Status] /\ lease' \in [Group -> ChildLease]
      /\ overtaken' \in SUBSET Group /\ Reopening \subseteq Reopening'
      /\ UNCHANGED <<errors, cpc>>
      /\ \A g \in Group : child'[g] \in {"failed", child[g]}
      /\ \A g \in Group \ Reopening' : cpc[g] # "off" => child'[g] = child[g]
  BY RecoveredChildren DEF RecoverCommit
<1>3. /\ seen' \in [Maintainer -> Row]
      /\ picked' \in [Maintainer -> SUBSET Group]
      /\ UNCHANGED <<groups, slow, ppc, runtime, session, beat, aggregator, verdict>>
  BY NothingLoaded DEF RecoverCommit, FanoutInv, TypeOK
<1>4. TypeOK'
  BY <1>1, <1>2, <1>3 DEF FanoutInv, TypeOK
<1>5. LockInv'
  BY <1>1, <1>3 DEF FanoutInv, LockInv
<1>6. ChildInv'
  BY <1>2 DEF FanoutInv, ChildInv, AtWork
<1>7. groups \subseteq Created => groups' \subseteq Created'
  BY <1>2, <1>3 DEF Created
<1>8. Covered => Covered'
  BY <1>2, <1>3, <1>7 DEF Covered, TerminalStatus, FanoutInv, TypeOK
<1>9. ParentInv'
  BY <1>1, <1>3, <1>7 DEF FanoutInv, ParentInv
<1>10. ResultInv'
  BY <1>1, <1>3, <1>8 DEF FanoutInv, ResultInv
<1> QED
  BY <1>4, <1>5, <1>6, <1>9, <1>10 DEF FanoutInv

---------------------------------------------------------------------------
(* The children                                                            *)

\* What a step of a child may do to its row: with one config and no recovery, a
\* result and the absence of errors stay.
LEMMA ChildKeepsResult ==
  ASSUME FanoutInv, NEW g \in Group, ChildStep(g)
  PROVE  /\ child[g] # "absent" => child'[g] # "absent"
         /\ g \notin Reopening =>
              /\ cpc'[g] \in AtWork => child'[g] = "running"
              /\ child[g] \in TerminalStatus /\ ~errors[g] =>
                   child'[g] \in TerminalStatus /\ ~errors'[g]
<1> USE DEF FanoutInv, TypeOK, ChildInv, AtWork, SaveChild, SaveRunning, Goto, TerminalStatus,
            Outcome
<1>1. CASE ClaimChild(g) \/ StartChild(g) \/ EnterCrawl(g)
  BY <1>1 DEF ClaimChild, StartChild, EnterCrawl
<1>2. CASE ProfileBusy(g) \/ CloseChild(g) \/ ChildDies(g)
  BY <1>2 DEF ProfileBusy, CloseChild, ChildDies
<1>3. CASE RequeueChild(g)
  BY <1>3 DEF RequeueChild
<1>4. CASE ConfigDone(g)
  BY <1>4 DEF ConfigDone
<1>5. CASE NextConfig(g)
  BY <1>5 DEF NextConfig
<1>6. CASE FinishChild(g)
  BY <1>6 DEF FinishChild, InBatch, BatchErrors
<1>7. CASE ChildRaises(g)
  BY <1>7 DEF ChildRaises, InBatch, BatchErrors
<1> QED
  BY <1>1, <1>2, <1>3, <1>4, <1>5, <1>6, <1>7 DEF ChildStep

\* The frame of a step of a child.
LEMMA ChildFrame ==
  ASSUME FanoutInv, NEW g \in Group, ChildStep(g)
  PROVE  /\ UNCHANGED <<parent, waiting, groups, slow, ppc, runtime, session, beat, seen, picked,
                        overtaken>>
         /\ \/ UNCHANGED <<aggregator, verdict>>
            \/ aggregator' = NoOne /\ verdict' = "open"
         /\ child' = [child EXCEPT ![g] = child'[g]] /\ child'[g] \in Status
         /\ lease' = [lease EXCEPT ![g] = lease'[g]] /\ lease'[g] \in ChildLease
         /\ errors' = [errors EXCEPT ![g] = errors'[g]] /\ errors'[g] \in BOOLEAN
         /\ cpc' = [cpc EXCEPT ![g] = cpc'[g]] /\ cpc'[g] \in ChildPC
<1> USE DEF FanoutInv, TypeOK, SaveChild, SaveRunning, Goto, Outcome, Status, TerminalStatus,
            ChildPC, ChildLease
<1>1. CASE ClaimChild(g) \/ StartChild(g) \/ EnterCrawl(g)
  BY <1>1 DEF ClaimChild, StartChild, EnterCrawl
<1>2. CASE CloseChild(g) \/ ChildDies(g)
  BY <1>2 DEF CloseChild, ChildDies
<1>3. CASE ProfileBusy(g) \/ RequeueChild(g)
  BY <1>3 DEF ProfileBusy, RequeueChild
<1>4. CASE ConfigDone(g) \/ NextConfig(g)
  BY <1>4 DEF ConfigDone, NextConfig
<1>5. CASE FinishChild(g)
  BY <1>5 DEF FinishChild
<1>6. CASE ChildRaises(g)
  BY <1>6 DEF ChildRaises
<1> QED
  BY <1>1, <1>2, <1>3, <1>4, <1>5, <1>6 DEF ChildStep

\* A step of a child preserves the invariant.
LEMMA ChildFanout ==
  ASSUME FanoutInv, NEW g \in Group, ChildStep(g)
  PROVE  FanoutInv'
<1>1. TypeOK'
  BY ChildFrame DEF FanoutInv, TypeOK
<1>2. LockInv'
  BY ChildFrame DEF FanoutInv, LockInv
<1>3. ASSUME NEW h \in Group
      PROVE  /\ child[h] # "absent" => child'[h] # "absent"
             /\ h \notin Reopening =>
                  /\ cpc'[h] \in AtWork => child'[h] = "running"
                  /\ child[h] \in TerminalStatus /\ ~errors[h] =>
                       child'[h] \in TerminalStatus /\ ~errors'[h]
  BY ChildFrame, ChildKeepsResult DEF FanoutInv, TypeOK, ChildInv
<1>4. Reopening' = Reopening
  BY ChildFrame
<1>5. ChildInv'
  BY <1>3, <1>4 DEF ChildInv
<1>6. /\ groups \subseteq Created => groups \subseteq Created'
      /\ Covered => Covered'
  BY <1>3, <1>4, ChildFrame DEF Covered, Created, FanoutInv, TypeOK
<1>7. ParentInv'
  BY <1>6, ChildFrame DEF FanoutInv, ParentInv
<1>8. ResultInv'
  BY <1>6, ChildFrame DEF FanoutInv, ResultInv
<1> QED
  BY <1>1, <1>2, <1>5, <1>7, <1>8 DEF FanoutInv

---------------------------------------------------------------------------
(* The aggregation                                                         *)

\* Taking the lock, and finding nothing to do.
LEMMA LockFanout ==
  ASSUME FanoutInv, \/ \E a \in Aggregator : AggregateLock(a)
                    \/ \E g \in Group : AggregateSkip(g)
  PROVE  FanoutInv'
<1>1. /\ UNCHANGED <<parent, waiting, groups, slow, ppc, runtime, session, beat, seen, picked, child,
                     lease, errors, overtaken>>
      /\ aggregator' \in Aggregator \cup {NoOne} /\ verdict' \in {verdict, "open"}
      /\ aggregator' # NoOne => ~Terminal(parent)
      /\ verdict' = "open"
      /\ cpc' \in [Group -> ChildPC]
      /\ \A g \in Group : cpc'[g] \in {cpc[g], "logging"}
  BY DEF AggregateLock, AggregateSkip, EndAggregation, FanoutInv, LockInv, TypeOK, ChildPC, Aggregator
<1>2. TypeOK'
  BY <1>1 DEF FanoutInv, TypeOK
<1>3. LockInv' /\ ChildInv'
  BY <1>1 DEF FanoutInv, LockInv, ChildInv, AtWork
<1>4. ParentInv' /\ ResultInv'
  BY <1>1 DEF FanoutInv, ParentInv, ResultInv, Covered, Created
<1> QED
  BY <1>2, <1>3, <1>4 DEF FanoutInv

\* Reading the children: a verdict COMPLETED is about every child created.
LEMMA ReadFanout ==
  ASSUME FanoutInv, NEW a \in Aggregator, AggregateRead(a)
  PROVE  FanoutInv'
<1>1. /\ UNCHANGED <<parent, waiting, groups, slow, ppc, runtime, session, beat, seen, picked, child,
                     lease, errors, overtaken>>
      /\ aggregator' \in {aggregator, NoOne} /\ verdict' \in {"open", "completed", "failed"}
      /\ verdict' # "open" => aggregator' # NoOne
      /\ cpc' \in [Group -> ChildPC]
      /\ \A g \in Group : cpc'[g] \in {cpc[g], "logging"}
  BY DEF AggregateRead, EndAggregation, Verdict, FanoutInv, LockInv, TypeOK, ChildPC, Aggregator
<1>2. TypeOK'
  BY <1>1 DEF FanoutInv, TypeOK
<1>3. LockInv' /\ ChildInv'
  BY <1>1 DEF FanoutInv, LockInv, ChildInv, AtWork
<1>4. ParentInv'
  BY <1>1 DEF FanoutInv, ParentInv, Created
<1>5. verdict' = "completed" =>
        \A g \in Created : child[g] \in TerminalStatus /\ ~errors[g]
  BY DEF AggregateRead, EndAggregation, Verdict, ChildrenFinished, Created, TerminalStatus,
         Status, FanoutInv, TypeOK
<1>6. verdict' = "completed" /\ groups \subseteq Created => Covered
  BY <1>5 DEF Covered
<1>7. ~Terminal(parent)
  BY DEF AggregateRead, FanoutInv, LockInv
<1>8. ppc \in (Planned \ {"savingPlan"}) \cup {"off"} /\ verdict' = "completed" => Covered
  BY <1>6, <1>7 DEF FanoutInv, ParentInv, Terminal, TerminalStatus
<1>9. Covered' = Covered
  BY <1>1 DEF Covered, Created
<1>10. ResultInv'
  BY <1>1, <1>8, <1>9 DEF FanoutInv, ResultInv
<1> QED
  BY <1>2, <1>3, <1>4, <1>10 DEF FanoutInv

\* Writing the verdict.
LEMMA CommitFanout ==
  ASSUME FanoutInv, NEW a \in Aggregator, AggregateCommit(a)
  PROVE  FanoutInv'
<1>1. /\ verdict \in {"completed", "failed"} /\ ~Terminal(parent)
      /\ parent' \in Row /\ parent'.status = verdict
  BY WrittenRows DEF AggregateCommit, FanoutInv, LockInv, TypeOK
<1>2. /\ UNCHANGED <<groups, slow, ppc, runtime, session, beat, seen, picked, child, lease, errors,
                     overtaken>>
      /\ aggregator' = NoOne /\ verdict' = "open" /\ waiting' = FALSE
      /\ cpc' \in [Group -> ChildPC]
      /\ \A g \in Group : cpc'[g] \in {cpc[g], "logging"}
  BY DEF AggregateCommit, EndAggregation, FanoutInv, TypeOK, ChildPC
<1>3. TypeOK'
  BY <1>1, <1>2 DEF FanoutInv, TypeOK
<1>4. LockInv' /\ ChildInv'
  BY <1>2 DEF FanoutInv, LockInv, ChildInv, AtWork
<1>5. ParentInv'
  BY <1>1, <1>2 DEF FanoutInv, ParentInv, Created, Terminal, TerminalStatus
<1>6. Covered' = Covered
  BY <1>2 DEF Covered, Created
<1>7. ResultInv'
  BY <1>1, <1>2, <1>6 DEF FanoutInv, ResultInv, Planned
<1> QED
  BY <1>3, <1>4, <1>5, <1>7 DEF FanoutInv

---------------------------------------------------------------------------
\* Every step preserves the invariant.
LEMMA NextFanout == FanoutInv /\ [Next]_vars => FanoutInv'
<1> SUFFICES ASSUME FanoutInv, [Next]_vars PROVE FanoutInv'
  OBVIOUS
<1>1. CASE ParentStep \/ Raise \/ ParentDies
  BY <1>1, SelectFanout, CreateFanout, LoadFanout, EndFanout, SaveFanout, LeaseFanout DEF ParentStep
<1>2. CASE BeatLoad \/ BeatCommit \/ BeatDies \/ LeaseExpires
  BY <1>2, BeatFanout, LeaseFanout
<1>3. ASSUME NEW m \in Maintainer, RecoverLoad(m) \/ RecoverCommit(m) PROVE FanoutInv'
  BY <1>3, BeatFanout, RecoverFanout
<1>4. ASSUME NEW g \in Group, ChildStep(g) \/ AggregateSkip(g) PROVE FanoutInv'
  BY <1>4, ChildFanout, LockFanout
<1>5. ASSUME NEW a \in Aggregator, Aggregate(a) PROVE FanoutInv'
  BY <1>5, LockFanout, ReadFanout, CommitFanout DEF Aggregate
<1>6. CASE UNCHANGED vars
  BY <1>6 DEF vars, FanoutInv, TypeOK, LockInv, ChildInv, ParentInv, ResultInv, Covered,
                 Created
<1> QED
  BY <1>1, <1>2, <1>3, <1>4, <1>5, <1>6 DEF Next

\* The inductive invariant holds in every reachable state.
LEMMA InductiveFanout == Spec => []FanoutInv
BY InitFanout, NextFanout, PTL DEF Spec

\* Every state of the fan-out has its type.
THEOREM FanoutTypeCorrect == Spec => []TypeOK
<1>1. FanoutInv => TypeOK
  BY DEF FanoutInv
<1> QED
  BY <1>1, InductiveFanout, PTL

\* A parent that ends COMPLETED has created every child, and every child with
\* one config that no recovery has overtaken is finished, although an aggregation may have counted too few
\* children and written COMPLETED early.
THEOREM CompletedMeansAll == Spec => []CompletedCoversAllGroups
<1>1. FanoutInv => CompletedCoversAllGroups
  BY DEF FanoutInv, ResultInv, Covered, CompletedCoversAllGroups, Settled
<1> QED
  BY <1>1, InductiveFanout, PTL

\* An error counted by such a child is not lost: its parent does not end
\* COMPLETED.
THEOREM ErrorsAreNotLost == Spec => []ErrorsReachParent
<1>1. FanoutInv => ErrorsReachParent
  BY DEF FanoutInv, ResultInv, Covered, ErrorsReachParent, Settled
<1> QED
  BY <1>1, InductiveFanout, PTL

\* An aggregation never overwrites a result of the parent.
THEOREM ResultsSurviveAggregation == Spec => AggregationKeepsResults
<1>1. FanoutInv => \A a \in Aggregator : AggregateCommit(a) => ~Terminal(parent)
  BY DEF FanoutInv, LockInv, AggregateCommit
<1> QED
  BY <1>1, InductiveFanout, PTL DEF AggregationKeepsResults
---------------------------------------------------------------------------
(* Which children can be overtaken                                         *)

\* A maintainer that has loaded a stale child whose heartbeat is timely has
\* found one that nobody executes, and nobody will before it is FAILED.
Forsaken(g) ==
  /\ lease[g] # "left"
  /\ \A m \in Maintainer : g \in picked[m] => cpc[g] = "off" /\ child[g] \in {"running", "failed"}

TimelyInv ==
  /\ aggregator \in Group => cpc[aggregator] = "reported"
  /\ \A g \in Group : child[g] \in {"absent", "pending"} => cpc[g] = "off"
  /\ \A g \in Group \ (MultiConfig \cup slow) : Forsaken(g)
  /\ overtaken \subseteq slow

\* Nothing is stale at first.
LEMMA InitTimely == Init => TimelyInv
BY DEF Init, TimelyInv, Forsaken, Aggregator

\* A load finds no timely child at work.
LEMMA LoadTimely ==
  ASSUME TypeOK, TimelyInv, NEW m \in Maintainer, RecoverLoad(m)
  PROVE  TimelyInv'
<1>1. PICK S \in SUBSET {g \in Group : MayBeStale(g)} : picked' = [picked EXCEPT ![m] = S]
  BY DEF RecoverLoad
<1>2. UNCHANGED <<slow, child, lease, cpc, overtaken, aggregator>>
  BY DEF RecoverLoad
<1>3. ASSUME NEW g \in Group \ (MultiConfig \cup slow)
      PROVE  Forsaken(g)'
  <2>1. Forsaken(g) /\ picked \in [Maintainer -> SUBSET Group]
    BY DEF TimelyInv, TypeOK
  <2>2. g \in S => cpc[g] = "off" /\ child[g] = "running"
    BY <2>1 DEF Forsaken, MayBeStale
  <2> QED
    BY <1>1, <1>2, <2>1, <2>2 DEF Forsaken
<1> QED
  BY <1>2, <1>3 DEF TimelyInv

\* A commit overtakes none.
LEMMA RecoverTimely ==
  ASSUME TypeOK, TimelyInv, NEW m \in Maintainer, RecoverCommit(m)
  PROVE  TimelyInv'
<1>1. /\ picked \in [Maintainer -> SUBSET Group]
      /\ child \in [Group -> Status] /\ lease \in [Group -> ChildLease]
  BY DEF TypeOK
<1>2. UNCHANGED <<slow, cpc, aggregator>> /\ picked' = [picked EXCEPT ![m] = {}]
  BY DEF RecoverCommit, RecoverChildren
<1>3. child' = [g \in Group |-> IF g \in picked[m] THEN "failed" ELSE child[g]]
  BY DEF RecoverCommit, RecoverChildren
<1>4. overtaken' = overtaken \cup {g \in picked[m] \ MultiConfig : cpc[g] # "off"}
  BY DEF RecoverCommit, RecoverChildren
<1>5. PICK late \in SUBSET (picked[m] \cap Renewing) :
        lease' = [g \in Group |-> CASE g \in late -> "left"
                                    [] g \in picked[m] \ late -> "none"
                                    [] OTHER -> lease[g]]
  BY DEF RecoverCommit, RecoverChildren
<1>6. ASSUME NEW g \in Group \ (MultiConfig \cup slow)
      PROVE  Forsaken(g)'
  <2>1. Forsaken(g)
    BY DEF TimelyInv
  <2>2. g \notin late
    BY <2>1 DEF Forsaken, Renewing
  <2>3. lease'[g] # "left"
    BY <1>5, <2>1, <2>2 DEF Forsaken
  <2>4. \A n \in Maintainer : g \in picked'[n] => g \in picked[n]
    BY <1>1, <1>2
  <2>5. child'[g] \in {"failed", child[g]}
    BY <1>3
  <2> QED
    BY <1>2, <2>1, <2>3, <2>4, <2>5 DEF Forsaken
<1>7. overtaken' \subseteq slow
  <2>1. \A g \in picked[m] \ MultiConfig : g \in slow \/ cpc[g] = "off"
    BY <1>1 DEF TimelyInv, Forsaken
  <2> QED
    BY <1>4, <2>1 DEF TimelyInv
<1>8. \A g \in Group : child'[g] \in {"absent", "pending"} => child[g] = child'[g]
  BY <1>3
<1> QED
  BY <1>2, <1>6, <1>7, <1>8 DEF TimelyInv

\* A child that has been found forsaken is not claimed, and does not step.
LEMMA ChildTimely ==
  ASSUME FanoutInv, TimelyInv, NEW h \in Group, ChildStep(h)
  PROVE  TimelyInv'
<1>1. /\ UNCHANGED <<slow, picked, overtaken>>
      /\ child' = [child EXCEPT ![h] = child'[h]]
      /\ lease' = [lease EXCEPT ![h] = lease'[h]]
      /\ cpc' = [cpc EXCEPT ![h] = cpc'[h]]
      /\ TypeOK
  BY ChildFrame DEF FanoutInv
<1>2. cpc[h] = "off" => child[h] = "pending"
  BY DEF ChildStep, ClaimChild, StartChild, ProfileBusy, RequeueChild, EnterCrawl, ConfigDone,
         NextConfig, FinishChild, ChildRaises, CloseChild, ChildDies, InBatch
<1>3. h \notin MultiConfig /\ lease[h] # "left" => lease'[h] # "left"
  <2> USE <1>1 DEF TypeOK, SaveChild, SaveRunning, Goto
  <2>1. CASE ClaimChild(h) \/ StartChild(h) \/ EnterCrawl(h) \/ NextConfig(h)
    BY <2>1 DEF ClaimChild, StartChild, EnterCrawl, NextConfig
  <2>2. CASE ProfileBusy(h) \/ RequeueChild(h) \/ CloseChild(h) \/ ChildDies(h)
    BY <2>2 DEF ProfileBusy, RequeueChild, CloseChild, ChildDies
  <2>3. CASE ConfigDone(h)
    BY <2>3 DEF ConfigDone
  <2>4. CASE FinishChild(h) \/ ChildRaises(h)
    BY <2>4 DEF FinishChild, ChildRaises
  <2> QED
    BY <2>1, <2>2, <2>3, <2>4 DEF ChildStep
<1>4. ASSUME NEW g \in Group \ (MultiConfig \cup slow)
      PROVE  Forsaken(g)'
  <2>1. Forsaken(g)
    BY DEF TimelyInv
  <2>2. CASE g # h
    <3>1. child'[g] = child[g] /\ lease'[g] = lease[g] /\ cpc'[g] = cpc[g]
      BY <1>1, <2>2 DEF TypeOK
    <3> QED
      BY <1>1, <2>1, <3>1 DEF Forsaken
  <2>3. CASE g = h
    BY <1>1, <1>2, <1>3, <2>1, <2>3 DEF Forsaken
  <2> QED
    BY <2>2, <2>3
<1>5. aggregator' \in Group => cpc'[aggregator'] = "reported"
  <2>1. CASE aggregator = h
    <3>1. cpc[h] = "reported" /\ child[h] # "pending"
      BY <2>1 DEF TimelyInv
    <3>2. ChildDies(h)
      BY <2>1, <3>1 DEF ChildStep, ClaimChild, StartChild, ProfileBusy, RequeueChild, EnterCrawl,
         ConfigDone, NextConfig, FinishChild, ChildRaises, CloseChild, InBatch
    <3>3. aggregator' = NoOne
      BY <2>1, <3>2 DEF ChildDies
    <3> QED
      BY <3>3 DEF Aggregator
  <2>2. CASE aggregator # h
    <3>1. aggregator' = aggregator
      BY <2>2 DEF ChildStep, ClaimChild, StartChild, ProfileBusy, RequeueChild, EnterCrawl,
         ConfigDone, NextConfig, FinishChild, ChildRaises, CloseChild, ChildDies
    <3> QED
      BY <1>1, <2>2, <3>1 DEF TimelyInv, TypeOK
  <2> QED
    BY <2>1, <2>2
<1>6. \A g \in Group : child'[g] \in {"absent", "pending"} => cpc'[g] = "off"
  <2> USE <1>1 DEF TypeOK, TimelyInv, SaveChild, SaveRunning, Goto, Outcome
  <2>1. CASE ClaimChild(h) \/ StartChild(h) \/ EnterCrawl(h) \/ NextConfig(h)
    BY <2>1 DEF ClaimChild, StartChild, EnterCrawl, NextConfig
  <2>2. CASE ProfileBusy(h) \/ RequeueChild(h) \/ CloseChild(h) \/ ChildDies(h)
    BY <2>2 DEF ProfileBusy, RequeueChild, CloseChild, ChildDies
  <2>3. CASE ConfigDone(h)
    BY <2>3 DEF ConfigDone
  <2>4. CASE FinishChild(h) \/ ChildRaises(h)
    BY <2>4 DEF FinishChild, ChildRaises
  <2> QED
    BY <2>1, <2>2, <2>3, <2>4 DEF ChildStep
<1> QED
  BY <1>1, <1>4, <1>5, <1>6 DEF TimelyInv

\* An aggregation moves only an executor that has reported.
LEMMA AggregateTimely ==
  ASSUME TypeOK, TimelyInv,
         \/ \E a \in Aggregator : Aggregate(a)
         \/ \E g \in Group : AggregateSkip(g)
  PROVE  TimelyInv'
<1>1. UNCHANGED <<slow, picked, overtaken, child, lease>>
  BY DEF Aggregate, AggregateLock, AggregateRead, AggregateCommit, AggregateSkip
<1>2. ASSUME NEW a \in Aggregator, EndAggregation(a), a \in Group => cpc[a] = "reported"
      PROVE  /\ \A g \in Group : cpc[g] = "off" => cpc'[g] = "off"
             /\ aggregator' = NoOne
  BY <1>2 DEF EndAggregation, TypeOK
<1>3. CASE \E a \in Aggregator : AggregateLock(a)
  <2>1. PICK a \in Aggregator : AggregateLock(a)
    BY <1>3
  <2>2. aggregator' = a /\ cpc' = cpc /\ (a \in Group => cpc[a] = "reported")
    BY <2>1, GroupAssumption DEF AggregateLock, MayAggregate
  <2> QED
    BY <1>1, <2>2 DEF TimelyInv, Forsaken
<1>4. CASE \E a \in Aggregator : AggregateRead(a) \/ AggregateCommit(a)
  <2>1. PICK a \in Aggregator : AggregateRead(a) \/ AggregateCommit(a)
    BY <1>4
  <2>2. aggregator = a /\ (a \in Group => cpc[a] = "reported")
    BY <2>1 DEF AggregateRead, AggregateCommit, TimelyInv
  <2>3. UNCHANGED <<aggregator, cpc>> \/ EndAggregation(a)
    BY <2>1 DEF AggregateRead, AggregateCommit
  <2>4. CASE UNCHANGED <<aggregator, cpc>>
    BY <1>1, <2>4 DEF TimelyInv, Forsaken
  <2>5. CASE EndAggregation(a)
    BY <1>1, <1>2, <2>2, <2>5, NoOneAssumption DEF TimelyInv, Forsaken, Aggregator
  <2> QED
    BY <2>3, <2>4, <2>5
<1>5. CASE \E g \in Group : AggregateSkip(g)
  <2>1. PICK g \in Group : AggregateSkip(g)
    BY <1>5
  <2>2. g \in Aggregator /\ cpc[g] = "reported" /\ EndAggregation(g)
    BY <2>1, GroupAssumption DEF AggregateSkip, MayAggregate, Aggregator
  <2> QED
    BY <1>1, <1>2, <2>2, NoOneAssumption DEF TimelyInv, Forsaken, Aggregator
<1> QED
  BY <1>3, <1>4, <1>5 DEF Aggregate

\* The other steps do not touch the children, except for creating one.
LEMMA ParentTimely ==
  ASSUME TypeOK, TimelyInv,
         \/ ParentStep \/ Raise \/ ParentDies
         \/ BeatLoad \/ BeatCommit \/ BeatDies \/ LeaseExpires
  PROVE  TimelyInv'
<1>1. UNCHANGED <<slow, picked, overtaken, lease, cpc, aggregator>>
  BY DEF ParentStep, SelectConfigs, CreateChild, PlanLoad, SaveCommit, ReleaseLoad, ReleaseCommit,
         Close, Raise, ParentDies, BeatLoad, BeatCommit, BeatDies, LeaseExpires
<1>2. \A g \in Group : child'[g] = child[g] \/ child[g] = "absent"
  BY DEF ParentStep, SelectConfigs, CreateChild, PlanLoad, SaveCommit, ReleaseLoad, ReleaseCommit,
         Close, Raise, ParentDies, BeatLoad, BeatCommit, BeatDies, LeaseExpires, TypeOK
<1>3. \A g \in Group : Forsaken(g) => Forsaken(g)'
  BY <1>1, <1>2 DEF Forsaken
<1> QED
  BY <1>1, <1>2, <1>3 DEF TimelyInv

\* Every step preserves the invariant.
LEMMA NextTimely == FanoutInv /\ TimelyInv /\ [Next]_vars => TimelyInv'
<1> SUFFICES ASSUME FanoutInv, TimelyInv, [Next]_vars PROVE TimelyInv'
  OBVIOUS
<1> TypeOK
  BY DEF FanoutInv
<1>1. ASSUME NEW m \in Maintainer, RecoverLoad(m) \/ RecoverCommit(m) PROVE TimelyInv'
  BY <1>1, LoadTimely, RecoverTimely
<1>2. ASSUME NEW g \in Group, ChildStep(g) \/ AggregateSkip(g) PROVE TimelyInv'
  BY <1>2, ChildTimely, AggregateTimely
<1>3. ASSUME NEW a \in Aggregator, Aggregate(a) PROVE TimelyInv'
  BY <1>3, AggregateTimely
<1>4. CASE UNCHANGED vars
  BY <1>4 DEF vars, TimelyInv, Forsaken
<1> QED
  BY <1>1, <1>2, <1>3, <1>4, ParentTimely DEF Next

\* A recovery overtakes the executor of a child with one config only if that
\* very child's own heartbeat was slow or dead: a parent's slow heartbeat, the
\* other children's, crashes, requeues and late recoveries do not lead there.
\* So the theorems above excuse no child but the batches and the slow ones.
THEOREM OnlySlowChildrenAreOvertaken == Spec => [](overtaken \subseteq slow)
<1>1. TimelyInv => overtaken \subseteq slow
  BY DEF TimelyInv
<1> QED
  BY <1>1, InductiveFanout, InitTimely, NextTimely, PTL DEF Spec

=============================================================================
