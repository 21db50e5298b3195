----------------------------- MODULE JobsProofs -----------------------------
(***************************************************************************)
(* Proofs about the parts of the jobs domain: PlatformDetails, and the     *)
(* instances Match, Results, Details and Search of MCJobs, whose sets and  *)
(* bounds are constants.                                                   *)
(***************************************************************************)
EXTENDS MCJobs, FiniteSetTheorems, TLAPS

---------------------------------------------------------------------------
(* PlatformDetails: no browser is left behind, for any number of requests, *)
(* as long as none is given up.  Requests are made one after the other,    *)
(* and as nobody gives up a request before its thread has ended, so are    *)
(* the threads: the browser is always that of the one which runs.          *)

Launching == {"launch to refresh", "launch to visit", "launched to refresh", "launched to visit"}
Using == {"refresh", "visit"}
Closing == {"close to request", "close with detail", "close after block", "close after error"}
Stage == {"none", "request", "ended"} \cup Launching \cup Using \cup Closing
Outcome == {"success", "retry", "unavailable", "waf_block", "timeout"}

\* None is neither a request nor an outcome.
Distinct == Wanted \in Nat /\ None \notin Nat \cup Outcome

TypeOK ==
  /\ thread \in [Request -> Stage]
  /\ outcome \in [Request -> {None} \cup Outcome]

\* A request has its outcome when its thread has ended, and not before; the
\* next one is made after that.
InTurn ==
  /\ \A i \in Request : thread[i] = "ended" <=> outcome[i] # None
  /\ \A i \in Request : thread[i] # "none" => \A j \in 1..(i - 1) : outcome[j] # None

\* A browser is there from the launch to the closing, and it is that of the
\* thread which runs.
OneBrowser ==
  /\ left = {}
  /\ context # None => context \in Request /\ thread[context] \in Using \cup Closing

Inv == TypeOK /\ (late = {} => InTurn /\ OneBrowser)

(* Nothing is under way before the first request.                          *)
LEMMA InitInv == ASSUME Distinct, Init PROVE Inv
BY DEF Init, Inv, TypeOK, InTurn, OneBrowser, Distinct, Stage, Request

(* In turn, no two threads run together.                                   *)
LEMMA OneRuns ==
  ASSUME Distinct, TypeOK, InTurn, NEW i \in Request, NEW j \in Request, Running(i), Running(j)
  PROVE  i = j
<1>1. \A k, m \in Request : Running(k) /\ Running(m) => ~(k < m)
  <2>1. SUFFICES ASSUME NEW k \in Request, NEW m \in Request, Running(k), Running(m), k < m
                 PROVE  FALSE
    OBVIOUS
  <2>2. thread[m] # "none" /\ k \in 1..(m - 1)
    BY <2>1 DEF Running, Request, Distinct
  <2>3. outcome[k] # None
    BY <2>2 DEF InTurn
  <2>4. QED
    BY <2>1, <2>3 DEF InTurn, Running
<1>2. QED
  BY <1>1 DEF Distinct, Request

(* A thread that ends gives the request its outcome: both go on in turn.   *)
LEMMA ResultInTurn ==
  ASSUME Distinct, TypeOK, late = {} => InTurn, NEW i \in Request, Running(i),
         NEW o \in Outcome, Result(i, o)
  PROVE  TypeOK' /\ (late = {} => InTurn')
<1>1. TypeOK'
  BY DEF TypeOK, Distinct, Result, Goto, Stage
<1>2. ASSUME late = {} PROVE InTurn'
  <2>1. InTurn
    BY <1>2
  <2>2. thread' = [thread EXCEPT ![i] = "ended"] /\ outcome' = [outcome EXCEPT ![i] = o]
    BY <2>1 DEF InTurn, Running, Result, Goto
  <2>3. thread[i] # "none" /\ o # None
    BY DEF Running, Distinct, Outcome
  <2>4. \A k \in Request : thread'[k] = "ended" <=> outcome'[k] # None
    BY <2>1, <2>2, <2>3 DEF InTurn, TypeOK
  <2>5. ASSUME NEW k \in Request, thread'[k] # "none", NEW j \in 1..(k - 1) PROVE outcome'[j] # None
    <3>1. thread[k] # "none" /\ j \in Request
      BY <2>2, <2>3, <2>5 DEF TypeOK, Request, Distinct
    <3>2. QED
      BY <2>1, <2>2, <2>3, <3>1 DEF InTurn, TypeOK
  <2>6. QED
    BY <2>4, <2>5 DEF InTurn
<1>3. QED
  BY <1>1, <1>2

(* The browser, if there is one, is that of the thread which runs.         *)
LEMMA BrowserOfRunning ==
  ASSUME Distinct, Inv, late = {}, NEW i \in Request, Running(i)
  PROVE  left = {} /\ (context # None => context = i /\ thread[i] \in Using \cup Closing)
<1>1. ASSUME context # None PROVE Running(context) /\ context \in Request
  BY <1>1 DEF Inv, OneBrowser, Running, Using, Closing
<1>2. QED
  BY <1>1, OneRuns DEF Inv, OneBrowser

(* So a thread that ends without a browser keeps the invariant.            *)
LEMMA ResultInv ==
  ASSUME Distinct, Inv, NEW i \in Request, Running(i), NEW o \in Outcome, Result(i, o),
         late' = {} => late = {} /\ left' = {} /\ context' = None
  PROVE  Inv'
BY ResultInTurn DEF Inv, OneBrowser

(* Every step of a thread, and of the loop that waits for it, keeps the    *)
(* invariant.                                                              *)
LEMMA StepInv == ASSUME Distinct, Inv, [Next]_vars PROVE Inv'
<1> USE DEF Request, Stage, Launching, Using, Closing, Goto, Running
<1>1. CASE UNCHANGED vars
  BY <1>1 DEF vars, Inv, TypeOK, InTurn, OneBrowser
<1>2. ASSUME NEW i \in Request, Ask(i) PROVE Inv'
  BY <1>2 DEF Ask, Distinct, Inv, TypeOK, InTurn, OneBrowser
<1>3. ASSUME NEW i \in Request, TimeOut(i) PROVE Inv'
  BY <1>3 DEF TimeOut, Inv, TypeOK, Outcome
<1>4. ASSUME NEW i \in Request, BossAnswer(i) PROVE Inv'
  <2>1. /\ Running(i) /\ thread[i] = "request"
        /\ \E o \in Outcome : Result(i, o)
        /\ UNCHANGED <<context, left, late>>
    BY <1>4 DEF BossAnswer, Outcome
  <2>2. QED
    BY <2>1, BrowserOfRunning, ResultInv
<1>5. ASSUME NEW i \in Request, LiepinAnswer(i) PROVE Inv'
  <2>1. /\ Running(i) /\ thread[i] = "request"
        /\ \E o \in Outcome : Result(i, o)
        /\ UNCHANGED <<context, left, late>>
    BY <1>5 DEF LiepinAnswer, Outcome
  <2>2. QED
    BY <2>1, BrowserOfRunning, ResultInv
<1>6. ASSUME NEW i \in Request, Job51Answer(i) PROVE Inv'
  <2>1. Running(i) /\ thread[i] = "request" /\ UNCHANGED <<context, left, late>>
    BY <1>6 DEF Job51Answer
  <2>2. CASE \E o \in {"success", "retry"} : Result(i, o)
    BY <2>1, <2>2, BrowserOfRunning, ResultInv DEF Outcome
  <2>3. CASE Goto(i, "launch to visit") /\ UNCHANGED outcome
    BY <2>1, <2>3 DEF Inv, TypeOK, InTurn, OneBrowser
  <2>4. QED
    BY <1>6, <2>2, <2>3 DEF Job51Answer
<1>7. ASSUME NEW i \in Request, ShareBrowser(i) PROVE Inv'
  BY <1>7 DEF ShareBrowser, Then, Inv, TypeOK, InTurn, OneBrowser
<1>8. ASSUME NEW i \in Request, BeginLaunch(i) PROVE Inv'
  BY <1>8 DEF BeginLaunch, Then, Inv, TypeOK, InTurn, OneBrowser
<1>9. ASSUME NEW i \in Request, Launched(i) PROVE Inv'
  <2>1. Running(i) /\ thread[i] \in Launching
    BY <1>9 DEF Launched
  <2>2. CASE Goto(i, Then(i)) /\ UNCHANGED <<outcome, late>>
    <3>1. late = {} => left' = {} /\ context' = i
      BY <1>9, <2>1, BrowserOfRunning DEF Launched, Forgotten
    <3>2. QED
      BY <2>1, <2>2, <3>1 DEF Then, Inv, TypeOK, InTurn, OneBrowser
  <2>3. CASE Result(i, "retry") /\ late' = late \cup {i}
    BY <2>1, <2>3, ResultInTurn DEF Inv, Outcome
  <2>4. QED
    BY <1>9, <2>2, <2>3 DEF Launched
<1>10. ASSUME NEW i \in Request, LaunchFails(i) PROVE Inv'
  <2>1. /\ Running(i) /\ thread[i] \in Launching /\ Result(i, "retry")
        /\ UNCHANGED <<context, left, late>>
    BY <1>10 DEF LaunchFails
  <2>2. QED
    BY <2>1, BrowserOfRunning, ResultInv DEF Outcome
<1>11. ASSUME NEW i \in Request, Refresh(i) PROVE Inv'
  BY <1>11 DEF Refresh, Inv, TypeOK, InTurn, OneBrowser
<1>12. ASSUME NEW i \in Request, Visit(i) PROVE Inv'
  BY <1>12 DEF Visit, Inv, TypeOK, InTurn, OneBrowser
<1>13. ASSUME NEW i \in Request, Close(i) PROVE Inv'
  <2>1. Running(i) /\ thread[i] \in Closing /\ context' = None /\ late' = late
    BY <1>13 DEF Close
  <2>2. late = {} => left' = {}
    BY <1>13, <2>1, BrowserOfRunning DEF Close
  <2>3. CASE thread[i] = "close to request"
    BY <1>13, <2>1, <2>2, <2>3 DEF Close, Inv, TypeOK, InTurn, OneBrowser
  <2>4. CASE thread[i] # "close to request"
    <3>1. ResultOf(thread[i]) \in Outcome /\ Result(i, ResultOf(thread[i]))
      BY <1>13, <2>1, <2>4 DEF Close, ResultOf, Outcome
    <3>2. QED
      BY <2>1, <2>2, <3>1, ResultInv
  <2>5. QED
    BY <2>3, <2>4
<1>14. QED
  BY <1>1, <1>2, <1>3, <1>4, <1>5, <1>6, <1>7, <1>8, <1>9, <1>10, <1>11, <1>12, <1>13 DEF Next

(* However many details are requested: if none is given up, and every new  *)
(* browser opens its page, no browser runs once the threads have ended.    *)
THEOREM BrowsersClosed == ASSUME Distinct PROVE Spec => []BrowserIsClosed
<1>1. Init => Inv
  BY InitInv
<1>2. Inv /\ [Next]_vars => Inv'
  BY StepInv
<1>3. Inv => BrowserIsClosed
  BY DEF Inv, BrowserIsClosed, OneBrowser, Running, Using, Closing
<1>4. QED
  BY <1>1, <1>2, <1>3, PTL DEF Spec

(* Under the same condition the requests are really made one at a time.    *)
THEOREM DetailsInTurn ==
  ASSUME Distinct
  PROVE  Spec => [](late = {} => \A i, j \in Request : Running(i) /\ Running(j) => i = j)
<1>1. Init => Inv
  BY InitInv
<1>2. Inv /\ [Next]_vars => Inv'
  BY StepInv
<1>3. Inv => (late = {} => \A i, j \in Request : Running(i) /\ Running(j) => i = j)
  BY OneRuns DEF Inv
<1>4. QED
  BY <1>1, <1>2, <1>3, PTL DEF Spec

---------------------------------------------------------------------------
(* MatchAnalysis.  A task that runs has a coroutine, whose counts add up   *)
(* with what is left to do, and whose good results are those it announces. *)

MatchResult == [text : Nat, at : Nat, good : BOOLEAN, by : Task \cup {"nobody"}]
MatchJob == [text : Nat, complete : BOOLEAN, updated : Nat]
MatchTask == [status : {"absent", "pending", "running", "failed", "completed"},
              jobs : SUBSET Job, total : Nat, success : Nat, errors : Nat]
MatchRun == [stage : {"idle", "claimed", "storing", "announced"}, todo : SUBSET Job,
             text : [Job -> Nat], began : Nat, total : Nat, success : Nat, errors : Nat,
             good : SUBSET Job]

MatchTypeOK ==
  /\ now \in Nat
  /\ job \in [Job -> MatchJob]
  /\ editing \in [Job -> Nat]
  /\ result \in [Job -> MatchResult]
  /\ task \in [Task -> MatchTask]
  /\ untold \in [Task -> Nat]
  /\ run \in [Task -> MatchRun]
  /\ told \in [Task -> SUBSET Job]

\* How task k, its coroutine r, the total still to be stored and the jobs in
\* the notification fit together.
Accounts(k, r, late_, message) ==
  /\ r.stage # "idle" => k.status = "running"
  /\ r.stage \in {"idle", "claimed"} => r.total = 0 /\ r.success = 0 /\ r.errors = 0
  /\ r.stage \in {"storing", "announced"} => r.total = r.success + r.errors + Cardinality(r.todo)
  /\ r.stage = "announced" => r.todo = {} /\ message = r.good
  /\ late_ # 0 => late_ = Cardinality(k.jobs)
  /\ k.status = "completed" => k.total \in {k.success + k.errors, Cardinality(k.jobs)}

\* Where the good results of task k are, with coroutine r and a message.
Known(good, k, r, message) ==
  /\ good # {} => k.status \notin {"absent", "pending"} /\ r.stage # "claimed"
  /\ r.stage = "storing" => good \subseteq r.good
  /\ k.status \in {"running", "failed"} \/ good \subseteq message
  /\ r.stage = "announced" => good \subseteq message

GoodBy(t) == {j \in Job : result[j].good /\ result[j].by = t}

MatchInv ==
  /\ MatchTypeOK
  /\ \A t \in Task : Accounts(task[t], run[t], untold[t], told[t])
  /\ \A t \in Task : Known(GoodBy(t), task[t], run[t], told[t])
  /\ \A j \in Job : result[j].good => result[j].by \in Task

LEMMA MatchCounts == \A S : Match!Cardinality(S) = Cardinality(S)
  BY DEF Match!Cardinality, Cardinality

LEMMA SubsetsCount == ASSUME IsFiniteSet(Job), NEW S \in SUBSET Job
                      PROVE  IsFiniteSet(S) /\ Cardinality(S) \in Nat
  BY FS_Subset, FS_CardinalityType

\* What is idle, absent or deleted.
LEMMA MatchValues ==
  /\ Match!Idle \in MatchRun /\ Match!Idle.stage = "idle"
  /\ Match!Idle.total = 0 /\ Match!Idle.success = 0 /\ Match!Idle.errors = 0
  /\ Match!NoTask \in MatchTask /\ Match!NoTask.status = "absent"
  /\ Match!Deleted \in MatchJob
  /\ Match!NoResult \in MatchResult /\ ~Match!NoResult.good
  BY DEF Match!Idle, Match!NoTask, Match!Deleted, Match!NoResult, MatchRun, MatchTask, MatchJob, MatchResult

LEMMA MatchInitInv == Match!Init => MatchInv
<1> SUFFICES ASSUME Match!Init PROVE MatchInv
  OBVIOUS
<1>1. job \in [Job -> MatchJob]
  <2>1. job \in [Job -> {Match!Deleted} \cup [text : {1}, complete : BOOLEAN, updated : {1}]]
    BY DEF Match!Init
  <2>2. [text : {1}, complete : BOOLEAN, updated : {1}] \subseteq MatchJob
    BY DEF MatchJob
  <2> QED
    BY <2>1, <2>2, MatchValues
<1>2. MatchTypeOK
  BY <1>1, MatchValues DEF Match!Init, MatchTypeOK
<1>3. \A t \in Task : GoodBy(t) = {}
  BY MatchValues DEF Match!Init, GoodBy
<1>4. \A t \in Task : run[t] = Match!Idle /\ task[t] = Match!NoTask /\ untold[t] = 0
  BY DEF Match!Init
<1>5. \A t \in Task : Accounts(task[t], run[t], untold[t], told[t])
  BY <1>4, MatchValues DEF Accounts
<1>6. \A t \in Task : Known(GoodBy(t), task[t], run[t], told[t])
  BY <1>3, <1>4, MatchValues DEF Known
<1> QED
  BY <1>2, <1>5, <1>6, MatchValues DEF MatchInv, Match!Init

\* Less to be known of.
LEMMA LessKnown ==
  ASSUME NEW good, NEW less \in SUBSET good, NEW k, NEW r, NEW m, Known(good, k, r, m)
  PROVE  Known(less, k, r, m)
  BY DEF Known

\* A step of task t, which may take results over from other tasks.
LEMMA TaskMoves ==
  ASSUME MatchInv, NEW t \in Task, NEW k \in MatchTask, NEW r \in MatchRun, NEW n \in Nat,
         NEW m \in SUBSET Job,
         task' = [task EXCEPT ![t] = k], run' = [run EXCEPT ![t] = r],
         untold' = [untold EXCEPT ![t] = n], told' = [told EXCEPT ![t] = m],
         now' \in Nat, UNCHANGED <<job, editing>>,
         result' \in [Job -> MatchResult], \A j \in Job : result'[j].good => result'[j].by \in Task,
         \A u \in Task \ {t} : GoodBy(u)' \subseteq GoodBy(u),
         Accounts(k, r, n, m), Known(GoodBy(t)', k, r, m)
  PROVE  MatchInv'
<1>1. MatchTypeOK'
  BY DEF MatchInv, MatchTypeOK
<1>2. /\ task'[t] = k /\ run'[t] = r /\ untold'[t] = n /\ told'[t] = m
      /\ \A u \in Task \ {t} : /\ task'[u] = task[u] /\ run'[u] = run[u]
                               /\ untold'[u] = untold[u] /\ told'[u] = told[u]
  BY DEF MatchInv, MatchTypeOK
<1>3. ASSUME NEW u \in Task
      PROVE  /\ Accounts(task'[u], run'[u], untold'[u], told'[u])
             /\ Known(GoodBy(u)', task'[u], run'[u], told'[u])
  <2>1. CASE u = t
    BY <1>2, <2>1
  <2>2. CASE u # t
    <3>1. Accounts(task[u], run[u], untold[u], told[u]) /\ Known(GoodBy(u), task[u], run[u], told[u])
      BY DEF MatchInv
    <3>2. Known(GoodBy(u)', task[u], run[u], told[u])
      BY <2>2, <3>1, LessKnown
    <3> QED
      BY <1>2, <2>2, <3>1, <3>2
  <2> QED
    BY <2>1, <2>2
<1>4. \A u \in Task : /\ Accounts(task[u], run[u], untold[u], told[u])'
                      /\ Known(GoodBy(u), task[u], run[u], told[u])'
  BY <1>3 DEF Accounts, Known
<1> QED
  BY <1>1, <1>4 DEF MatchInv

\* A step that leaves the results alone.
LEMMA TaskMovesAlone ==
  ASSUME MatchInv, NEW t \in Task, NEW k \in MatchTask, NEW r \in MatchRun, NEW n \in Nat,
         NEW m \in SUBSET Job,
         task' = [task EXCEPT ![t] = k], run' = [run EXCEPT ![t] = r],
         untold' = [untold EXCEPT ![t] = n], told' = [told EXCEPT ![t] = m],
         now' \in Nat, UNCHANGED <<job, editing, result>>,
         Accounts(k, r, n, m), Known(GoodBy(t), k, r, m)
  PROVE  MatchInv'
<1>1. \A u \in Task : GoodBy(u)' = GoodBy(u)
  BY DEF GoodBy
<1>2. /\ result' \in [Job -> MatchResult]
      /\ \A j \in Job : result'[j].good => result'[j].by \in Task
  BY DEF MatchInv, MatchTypeOK
<1> QED
  BY <1>1, <1>2, TaskMoves

\* A step of the users, which may take results away.
LEMMA JobsMove ==
  ASSUME MatchInv, now' \in Nat, job' \in [Job -> MatchJob], editing' \in [Job -> Nat],
         UNCHANGED <<task, untold, run, told>>,
         \A j \in Job : result'[j] \in {result[j], Match!NoResult}, result' \in [Job -> MatchResult]
  PROVE  MatchInv'
<1>1. MatchTypeOK'
  BY DEF MatchInv, MatchTypeOK
<1>2. \A u \in Task : GoodBy(u)' \subseteq GoodBy(u)
  BY MatchValues DEF GoodBy
<1>3. ASSUME NEW u \in Task
      PROVE  (Accounts(task[u], run[u], untold[u], told[u]) /\ Known(GoodBy(u), task[u], run[u], told[u]))'
  <2>1. Accounts(task[u], run[u], untold[u], told[u]) /\ Known(GoodBy(u), task[u], run[u], told[u])
    BY DEF MatchInv
  <2>2. Known(GoodBy(u)', task[u], run[u], told[u])
    BY <1>2, <2>1, LessKnown
  <2> QED
    BY <2>1, <2>2 DEF Accounts, Known
<1>4. \A j \in Job : result'[j].good => result'[j].by \in Task
  BY MatchValues DEF MatchInv
<1> QED
  BY <1>1, <1>3, <1>4 DEF MatchInv

\* What the progress callback writes.
LEMMA Persists ==
  ASSUME NEW t \in Task, task[t] \in MatchTask, NEW r \in MatchRun,
         NEW status \in {"running", "failed", "completed"}
  PROVE  /\ Match!Persisted(t, status, r) \in MatchTask
         /\ Match!Persisted(t, status, r).status = status
         /\ Match!Persisted(t, status, r).jobs = task[t].jobs
         /\ Match!Persisted(t, status, r).total = r.total
         /\ Match!Persisted(t, status, r).success = r.success
         /\ Match!Persisted(t, status, r).errors = r.errors
<1>1. /\ r.total \in Nat /\ r.success \in Nat /\ r.errors \in Nat
  BY DEF MatchRun
<1> QED
  BY <1>1 DEF Match!Persisted, MatchTask

\* One job less to do.
LEMMA OneLess ==
  ASSUME IsFiniteSet(Job), NEW S \in SUBSET Job, NEW j \in S, NEW total \in Nat,
         NEW success \in Nat, NEW errors \in Nat, total = success + errors + Cardinality(S)
  PROVE  /\ total = success + (errors + 1) + Cardinality(S \ {j})
         /\ total = (success + 1) + errors + Cardinality(S \ {j})
<1> DEFINE n == Cardinality(S)
           m == Cardinality(S \ {j})
<1>1. n \in Nat /\ m \in Nat /\ m = n - 1
  BY SubsetsCount, FS_RemoveElement
<1>2. total = success + errors + n
  OBVIOUS
<1> HIDE DEF n, m
<1>3. total = success + (errors + 1) + m /\ total = (success + 1) + errors + m
  BY <1>1, <1>2
<1> QED
  BY <1>3 DEF m

\* Every step of the tasks and of the users keeps the invariant.
LEMMA MatchStepInv ==
  ASSUME IsFiniteSet(Job), MatchInv, [Match!Next]_(Match!vars) PROVE MatchInv'
<1> USE DEF Match!jobs
<1>0. ASSUME NEW t \in Task
      PROVE  /\ task[t] \in MatchTask /\ run[t] \in MatchRun /\ untold[t] \in Nat /\ told[t] \in SUBSET Job
             /\ task = [task EXCEPT ![t] = task[t]] /\ run = [run EXCEPT ![t] = run[t]]
             /\ untold = [untold EXCEPT ![t] = untold[t]] /\ told = [told EXCEPT ![t] = told[t]]
             /\ Accounts(task[t], run[t], untold[t], told[t])
             /\ Known(GoodBy(t), task[t], run[t], told[t])
             /\ now \in Nat
  BY DEF MatchInv, MatchTypeOK
<1>1. ASSUME NEW t \in Task, NEW candidates \in SUBSET Job, Match!Enqueue(t, candidates) PROVE MatchInv'
  <2> DEFINE need == {j \in candidates : Match!NeedsAnalysis(j)}
             k == [Match!NoTask EXCEPT !.status = "pending", !.jobs = need]
             n == Cardinality(need)
  <2>1. /\ task[t] = Match!NoTask /\ task' = [task EXCEPT ![t] = k]
        /\ untold' = [untold EXCEPT ![t] = n] /\ UNCHANGED <<now, job, editing, result, run, told>>
    BY <1>1, MatchCounts DEF Match!Enqueue
  <2>2. need \in SUBSET Job /\ n \in Nat
    BY SubsetsCount
  <2> HIDE DEF need
  <2>3. k \in MatchTask /\ k.status = "pending" /\ k.jobs = need
    BY <2>2, MatchValues DEF MatchTask, Match!NoTask
  <2> HIDE DEF k, n
  <2>4. run[t].stage = "idle" /\ GoodBy(t) = {}
    BY <1>0, <2>1, MatchValues DEF Accounts, Known, MatchRun
  <2>5. Accounts(k, run[t], n, told[t]) /\ Known(GoodBy(t), k, run[t], told[t])
    BY <1>0, <2>3, <2>4 DEF Accounts, Known, n
  <2> QED
    BY <1>0, <2>1, <2>2, <2>3, <2>5, TaskMovesAlone
<1>2. ASSUME NEW t \in Task, Match!StoreTotal(t) PROVE MatchInv'
  <2> DEFINE k == [task[t] EXCEPT !.total = untold[t]]
  <2>1. /\ task' = [task EXCEPT ![t] = k] /\ untold' = [untold EXCEPT ![t] = 0]
        /\ untold[t] # 0 /\ UNCHANGED <<now, job, editing, result, run, told>>
    BY <1>0, <1>2 DEF Match!StoreTotal, MatchInv, MatchTypeOK
  <2>2. k \in MatchTask /\ k.status = task[t].status /\ k.jobs = task[t].jobs /\ k.total = untold[t]
    BY <1>0 DEF MatchTask
  <2> HIDE DEF k
  <2>3. Accounts(k, run[t], 0, told[t]) /\ Known(GoodBy(t), k, run[t], told[t])
    BY <1>0, <2>1, <2>2 DEF Accounts, Known
  <2> QED
    BY <1>0, <2>1, <2>2, <2>3, TaskMovesAlone
<1>3. ASSUME NEW t \in Task, Match!Claim(t) PROVE MatchInv'
  <2> DEFINE k == [task[t] EXCEPT !.status = "running"]
             r == [run[t] EXCEPT !.stage = "claimed"]
  <2>1. /\ task' = [task EXCEPT ![t] = k] /\ run' = [run EXCEPT ![t] = r]
        /\ task[t].status = "pending" /\ UNCHANGED <<now, job, editing, result, untold, told>>
    BY <1>0, <1>3 DEF Match!Claim, MatchInv, MatchTypeOK
  <2>2. k \in MatchTask /\ r \in MatchRun
    BY <1>0 DEF MatchTask, MatchRun
  <2>3. /\ k.status = "running" /\ r.stage = "claimed" /\ r.total = run[t].total
        /\ r.success = run[t].success /\ r.errors = run[t].errors /\ k.jobs = task[t].jobs
    BY <1>0 DEF MatchTask, MatchRun
  <2> HIDE DEF k, r
  <2>4. GoodBy(t) = {} /\ run[t].stage = "idle"
    BY <1>0, <2>1 DEF Known, Accounts, MatchRun
  <2>5. Accounts(k, r, untold[t], told[t]) /\ Known(GoodBy(t), k, r, told[t])
    BY <1>0, <2>1, <2>3, <2>4 DEF Accounts, Known
  <2> QED
    BY <1>0, <2>1, <2>2, <2>5, TaskMovesAlone
\* The coroutine ends; what it counted goes into the row.
<1>4. ASSUME NEW t \in Task, NEW status \in {"failed", "completed"}, run[t].stage # "idle",
             Match!End(t, status, run[t]), UNCHANGED <<now, job, editing, result, untold, told>>,
             status = "completed" =>
               /\ run[t].total = run[t].success + run[t].errors
               /\ GoodBy(t) \subseteq told[t]
      PROVE  MatchInv'
  <2> DEFINE k == Match!Persisted(t, status, run[t])
  <2>1. task' = [task EXCEPT ![t] = k] /\ run' = [run EXCEPT ![t] = Match!Idle]
    BY <1>4 DEF Match!End
  <2>2. task[t] \in MatchTask /\ run[t] \in MatchRun
    BY <1>0
  <2>3. /\ k \in MatchTask
        /\ k.status = status /\ k.jobs = task[t].jobs /\ k.total = run[t].total
        /\ k.success = run[t].success /\ k.errors = run[t].errors
    BY <2>2, Persists
  <2> HIDE DEF k
  <2>4. Accounts(k, Match!Idle, untold[t], told[t]) /\ Known(GoodBy(t), k, Match!Idle, told[t])
    BY <1>0, <1>4, <2>3, MatchValues DEF Accounts, Known
  <2> QED
    BY <1>0, <1>4, <2>1, <2>3, <2>4, MatchValues, TaskMovesAlone
<1>5. ASSUME NEW t \in Task, Match!NothingToDo(t) PROVE MatchInv'
  <2>1. /\ run[t].stage = "claimed" /\ UNCHANGED <<now, job, editing, result, untold, told>>
        /\ Match!End(t, "failed", run[t]) \/ Match!End(t, "completed", run[t])
    BY <1>5 DEF Match!NothingToDo
  <2>2. run[t].total = run[t].success + run[t].errors /\ GoodBy(t) \subseteq told[t]
    BY <1>0, <2>1 DEF Accounts, Known
  <2> QED
    BY <1>4, <2>1, <2>2
<1>6. ASSUME NEW t \in Task, NEW j \in Job, Match!StoreFails(t, j) PROVE MatchInv'
  BY <1>4, <1>6 DEF Match!StoreFails
<1>7. ASSUME NEW t \in Task, Match!Finish(t) PROVE MatchInv'
  <2>1. /\ run[t].stage = "announced" /\ UNCHANGED <<now, job, editing, result, untold, told>>
        /\ Match!End(t, "failed", run[t]) \/ Match!End(t, "completed", run[t])
    BY <1>7 DEF Match!Finish
  <2>2. run[t].total = run[t].success + run[t].errors /\ GoodBy(t) \subseteq told[t]
    <3>1. run[t].todo = {} /\ run[t].total = run[t].success + run[t].errors + Cardinality(run[t].todo)
      BY <1>0, <2>1 DEF Accounts
    <3>2. GoodBy(t) \subseteq told[t]
      BY <1>0, <2>1 DEF Known
    <3> QED
      BY <1>0, <3>1, <3>2, FS_EmptySet DEF MatchRun
  <2> QED
    BY <1>4, <2>1, <2>2
<1>8. ASSUME NEW t \in Task, Match!Die(t) PROVE MatchInv'
  <2> DEFINE k == [task[t] EXCEPT !.status = "failed"]
  <2>1. /\ task' = [task EXCEPT ![t] = k] /\ run' = [run EXCEPT ![t] = Match!Idle]
        /\ UNCHANGED <<now, job, editing, result, untold, told>> /\ run[t].stage # "idle"
    BY <1>0, <1>8 DEF Match!Die, MatchInv, MatchTypeOK
  <2>2. k \in MatchTask /\ k.status = "failed" /\ k.jobs = task[t].jobs
    BY <1>0 DEF MatchTask
  <2> HIDE DEF k
  <2>3. Accounts(k, Match!Idle, untold[t], told[t]) /\ Known(GoodBy(t), k, Match!Idle, told[t])
    BY <1>0, <2>1, <2>2, MatchValues DEF Accounts, Known
  <2> QED
    BY <1>0, <2>1, <2>2, <2>3, MatchValues, TaskMovesAlone
<1>9. ASSUME NEW t \in Task, Match!Load(t) PROVE MatchInv'
  <2> DEFINE need == {j \in task[t].jobs : Match!NeedsAnalysis(j)}
             valid == {j \in need : job[j].complete}
             texts == [j \in Job |-> IF j \in valid THEN job[j].text ELSE 0]
             r == [run[t] EXCEPT !.stage = "storing", !.todo = valid, !.text = texts,
                     !.began = now + 1, !.total = Cardinality(need), !.errors = Cardinality(need \ valid)]
             k == Match!Persisted(t, "running", [r EXCEPT !.errors = 0])
  <2>1. /\ run' = [run EXCEPT ![t] = r] /\ task' = [task EXCEPT ![t] = k]
        /\ run[t].stage = "claimed" /\ now' = now + 1 /\ UNCHANGED <<job, editing, result, untold, told>>
    BY <1>9, MatchCounts DEF Match!Load
  <2>2. need \in SUBSET Job /\ valid \in SUBSET need
    BY <1>0 DEF MatchTask
  <2>3. texts \in [Job -> Nat]
    BY DEF MatchInv, MatchTypeOK, MatchJob
  <2> HIDE DEF need, valid, texts
  <2>4. /\ Cardinality(need) \in Nat /\ Cardinality(valid) \in Nat /\ Cardinality(need \ valid) \in Nat
        /\ Cardinality(need) = Cardinality(need \ valid) + Cardinality(valid)
    <3>1. /\ Cardinality(need) \in Nat /\ Cardinality(valid) \in Nat /\ Cardinality(need \ valid) \in Nat
          /\ IsFiniteSet(need) /\ need \cap valid = valid
      BY <2>2, SubsetsCount
    <3>2. Cardinality(need \ valid) = Cardinality(need) - Cardinality(need \cap valid)
      BY <3>1, FS_Difference
    <3>3. Cardinality(need \ valid) = Cardinality(need) - Cardinality(valid)
      BY <3>1, <3>2
    <3> DEFINE n == Cardinality(need)
               v == Cardinality(valid)
               d == Cardinality(need \ valid)
    <3>4. n \in Nat /\ v \in Nat /\ d \in Nat /\ d = n - v
      BY <3>1, <3>3
    <3> HIDE DEF n, v, d
    <3>5. n = d + v
      BY <3>4
    <3> QED
      BY <3>4, <3>5 DEF n, v, d
  <2>5. r \in MatchRun
    <3>1. run[t] \in MatchRun /\ valid \in SUBSET Job /\ now + 1 \in Nat
      BY <1>0, <2>2
    <3> QED
      BY <2>3, <2>4, <3>1 DEF MatchRun
  <2>6. /\ r.stage = "storing" /\ r.todo = valid /\ r.total = Cardinality(need)
        /\ r.errors = Cardinality(need \ valid) /\ r.success = run[t].success
    BY <1>0 DEF MatchRun
  <2>7. k \in MatchTask /\ k.status = "running" /\ k.jobs = task[t].jobs
    <3>1. task[t] \in MatchTask /\ [r EXCEPT !.errors = 0] \in MatchRun
      BY <1>0, <2>5 DEF MatchRun
    <3> HIDE DEF r
    <3> QED
      BY <3>1, Persists
  <2> HIDE DEF r, k
  <2>8. Accounts(k, r, untold[t], told[t])
    BY <1>0, <2>1, <2>4, <2>6, <2>7 DEF Accounts
  <2>9. Known(GoodBy(t), k, r, told[t])
    BY <1>0, <2>1, <2>6, <2>7 DEF Known
  <2>10. now' \in Nat
    BY <1>0, <2>1
  <2> QED
    BY <1>0, <2>1, <2>5, <2>7, <2>8, <2>9, <2>10, TaskMovesAlone
<1>11. ASSUME NEW t \in Task, NEW j \in Job, Match!NoAnswer(t, j) PROVE MatchInv'
  <2> DEFINE r == [run[t] EXCEPT !.todo = run[t].todo \ {j}, !.errors = run[t].errors + 1]
  <2>1. /\ run' = [run EXCEPT ![t] = r] /\ run[t].stage = "storing" /\ j \in run[t].todo
        /\ UNCHANGED <<now, job, editing, result, task, untold, told>>
    <3>1. run' = [run EXCEPT ![t].todo = run[t].todo \ {j}, ![t].errors = run[t].errors + 1]
      BY <1>0, <1>11 DEF Match!NoAnswer, MatchInv, MatchTypeOK, MatchRun
    <3>2. run' = [run EXCEPT ![t] = r]
      BY <3>1 DEF MatchInv, MatchTypeOK
    <3> HIDE DEF r
    <3> QED
      BY <1>11, <3>2 DEF Match!NoAnswer
  <2>2. r \in MatchRun
    <3> DEFINE less == run[t].todo \ {j}
               more == run[t].errors + 1
    <3>1. run[t] \in MatchRun
      BY <1>0
    <3>2. less \in SUBSET Job /\ more \in Nat
      BY <3>1 DEF MatchRun
    <3>3. r = [run[t] EXCEPT !.todo = less, !.errors = more]
      OBVIOUS
    <3> HIDE DEF less, more, r
    <3> QED
      BY <3>1, <3>2, <3>3 DEF MatchRun
  <2>3. /\ r.stage = "storing" /\ r.total = run[t].total /\ r.success = run[t].success
        /\ r.errors = run[t].errors + 1 /\ r.todo = run[t].todo \ {j} /\ r.good = run[t].good
    BY <1>0, <2>1 DEF MatchRun
  <2> HIDE DEF r
  <2>4. Accounts(task[t], r, untold[t], told[t])
    <3>1. /\ run[t].total = run[t].success + run[t].errors + Cardinality(run[t].todo)
          /\ run[t].success \in Nat /\ run[t].errors \in Nat
          /\ run[t].total \in Nat /\ run[t].todo \in SUBSET Job
      BY <1>0, <2>1 DEF Accounts, MatchRun
    <3>2. r.total = r.success + r.errors + Cardinality(r.todo)
      <4>1. run[t].total = run[t].success + (run[t].errors + 1) + Cardinality(run[t].todo \ {j})
        BY <2>1, <3>1, OneLess
      <4> QED
        BY <2>3, <4>1
    <3> QED
      BY <1>0, <2>1, <2>3, <3>2 DEF Accounts
  <2>5. Known(GoodBy(t), task[t], r, told[t])
    BY <1>0, <2>1, <2>3 DEF Known
  <2>6. /\ task' = [task EXCEPT ![t] = task[t]] /\ untold' = [untold EXCEPT ![t] = untold[t]]
        /\ told' = [told EXCEPT ![t] = told[t]] /\ UNCHANGED <<now, job, editing, result>>
    BY <1>0, <2>1
  <2>7. run' = [run EXCEPT ![t] = r] /\ now' \in Nat
    BY <1>0, <2>1
  <2>8. task[t] \in MatchTask /\ untold[t] \in Nat /\ told[t] \in SUBSET Job
    BY <1>0
  <2> QED
    BY <2>2, <2>4, <2>5, <2>6, <2>7, <2>8, TaskMovesAlone
<1>12. ASSUME NEW t \in Task, NEW j \in Job, NEW good \in BOOLEAN, Match!Store(t, j, good) PROVE MatchInv'
  <2> DEFINE inserts == result[j] = Match!NoResult \/ run[t].began = 0
             time == IF inserts THEN now + 1 ELSE run[t].began
             new == [text |-> run[t].text[j], at |-> time, good |-> good, by |-> t]
             goods == IF good THEN run[t].good \cup {j} ELSE run[t].good
             r == [run[t] EXCEPT !.todo = run[t].todo \ {j}, !.success = run[t].success + 1,
                                 !.began = 0, !.good = goods]
  <2>1. /\ run[t].stage = "storing" /\ j \in run[t].todo
        /\ result' = [result EXCEPT ![j] = new]
        /\ UNCHANGED <<job, editing, task, untold, told>>
    BY <1>12 DEF Match!Store
  <2>2. time \in Nat /\ now' \in Nat
    BY <1>0, <1>12 DEF Match!Store, MatchRun
  <2>3. goods \in SUBSET Job /\ run[t].good \subseteq goods /\ (good => j \in goods)
    BY <1>0 DEF MatchRun
  <2> HIDE DEF time, goods
  <2>4. new \in MatchResult
    BY <1>0, <2>2 DEF MatchResult, MatchRun
  <2>5. new.good = good /\ new.by = t
    OBVIOUS
  <2> HIDE DEF new
  <2>6. run' = [run EXCEPT ![t] = r]
    <3>1. run' = [run EXCEPT ![t].todo = run[t].todo \ {j}, ![t].success = run[t].success + 1,
                             ![t].began = 0, ![t].good = goods]
      BY <1>0, <1>12 DEF Match!Store, MatchInv, MatchTypeOK, MatchRun, goods
    <3> QED
      BY <3>1 DEF MatchInv, MatchTypeOK
  <2>7. r \in MatchRun
    <3> DEFINE less == run[t].todo \ {j}
               more == run[t].success + 1
    <3>1. run[t] \in MatchRun
      BY <1>0
    <3>2. less \in SUBSET Job /\ more \in Nat
      BY <3>1 DEF MatchRun
    <3>3. r = [run[t] EXCEPT !.todo = less, !.success = more, !.began = 0, !.good = goods]
      OBVIOUS
    <3> HIDE DEF less, more, r
    <3> QED
      BY <2>3, <3>1, <3>2, <3>3 DEF MatchRun
  <2>8. /\ r.stage = "storing" /\ r.total = run[t].total /\ r.success = run[t].success + 1
        /\ r.errors = run[t].errors /\ r.todo = run[t].todo \ {j} /\ r.good = goods
    BY <1>0, <2>1 DEF MatchRun
  <2> HIDE DEF r
  <2>9. Accounts(task[t], r, untold[t], told[t])
    <3>1. /\ run[t].total = run[t].success + run[t].errors + Cardinality(run[t].todo)
          /\ run[t].success \in Nat /\ run[t].errors \in Nat
          /\ run[t].total \in Nat /\ run[t].todo \in SUBSET Job
      BY <1>0, <2>1 DEF Accounts, MatchRun
    <3>2. r.total = r.success + r.errors + Cardinality(r.todo)
      <4>1. run[t].total = (run[t].success + 1) + run[t].errors + Cardinality(run[t].todo \ {j})
        BY <2>1, <3>1, OneLess
      <4> QED
        BY <2>8, <4>1
    <3> QED
      BY <1>0, <2>1, <2>8, <3>2 DEF Accounts
  <2>10. /\ result' \in [Job -> MatchResult] /\ result'[j] = new
         /\ \A i \in Job \ {j} : result'[i] = result[i]
    BY <2>1, <2>4 DEF MatchInv, MatchTypeOK
  <2>11. \A i \in Job : result'[i].good => result'[i].by \in Task
    BY <2>5, <2>10 DEF MatchInv
  <2>12. \A u \in Task \ {t} : GoodBy(u)' \subseteq GoodBy(u)
    BY <2>5, <2>10 DEF GoodBy
  <2>13. GoodBy(t)' \subseteq GoodBy(t) \cup {j} /\ (j \in GoodBy(t)' => good)
    BY <2>5, <2>10 DEF GoodBy
  <2>14. Known(GoodBy(t)', task[t], r, told[t])
    <3>1. task[t].status = "running" /\ GoodBy(t) \subseteq run[t].good
      BY <1>0, <2>1 DEF Known, Accounts
    <3>2. GoodBy(t)' \subseteq goods
      BY <2>3, <2>13, <3>1
    <3> QED
      BY <2>8, <3>1, <3>2 DEF Known
  <2>15. /\ task' = [task EXCEPT ![t] = task[t]] /\ untold' = [untold EXCEPT ![t] = untold[t]]
         /\ told' = [told EXCEPT ![t] = told[t]] /\ UNCHANGED <<job, editing>>
    BY <1>0, <2>1
  <2> QED
    BY <1>0, <2>2, <2>6, <2>7, <2>9, <2>10, <2>11, <2>12, <2>14, <2>15, TaskMoves
<1>13. ASSUME NEW t \in Task, Match!Announce(t) PROVE MatchInv'
  <2> DEFINE r == [run[t] EXCEPT !.stage = "announced"]
             k == Match!Persisted(t, "running", run[t])
  <2>1. /\ run' = [run EXCEPT ![t] = r] /\ task' = [task EXCEPT ![t] = k]
        /\ told' = [told EXCEPT ![t] = run[t].good]
        /\ run[t].stage = "storing" /\ run[t].todo = {}
        /\ UNCHANGED <<now, job, editing, result, untold>>
    BY <1>0, <1>13 DEF Match!Announce, MatchInv, MatchTypeOK
  <2>2. r \in MatchRun /\ run[t].good \in SUBSET Job
    BY <1>0 DEF MatchRun
  <2>3. /\ r.stage = "announced" /\ r.total = run[t].total /\ r.success = run[t].success
        /\ r.errors = run[t].errors /\ r.todo = run[t].todo /\ r.good = run[t].good
    BY <1>0 DEF MatchRun
  <2>4. k \in MatchTask /\ k.status = "running" /\ k.jobs = task[t].jobs
    BY <1>0, Persists
  <2> HIDE DEF r, k
  <2>5. Accounts(k, r, untold[t], run[t].good) /\ Known(GoodBy(t), k, r, run[t].good)
    BY <1>0, <2>1, <2>3, <2>4 DEF Accounts, Known
  <2> QED
    BY <1>0, <2>1, <2>2, <2>4, <2>5, TaskMovesAlone
<1>14. ASSUME NEW j \in Job, Match!BeginEdit(j) PROVE MatchInv'
  BY <1>14, JobsMove DEF Match!BeginEdit, MatchInv, MatchTypeOK
<1>15. ASSUME NEW j \in Job, Match!CommitEdit(j) PROVE MatchInv'
  <2>1. PICK complete \in BOOLEAN :
          job' = [job EXCEPT ![j] = [text |-> job[j].text + 1, complete |-> complete, updated |-> editing[j]]]
    BY <1>15 DEF Match!CommitEdit, MatchInv, MatchTypeOK
  <2>2. [text |-> job[j].text + 1, complete |-> complete, updated |-> editing[j]] \in MatchJob
    BY DEF MatchInv, MatchTypeOK, MatchJob
  <2>3. job' \in [Job -> MatchJob]
    BY <2>1, <2>2 DEF MatchInv, MatchTypeOK
  <2> QED
    BY <1>15, <2>3, JobsMove DEF Match!CommitEdit, MatchInv, MatchTypeOK
<1>16. ASSUME NEW j \in Job, Match!DeleteJob(j) PROVE MatchInv'
  BY <1>16, MatchValues, JobsMove DEF Match!DeleteJob, MatchInv, MatchTypeOK
<1>17. CASE Match!DeleteResume
  BY <1>17, MatchValues, JobsMove DEF Match!DeleteResume, MatchInv, MatchTypeOK
<1>18. CASE UNCHANGED Match!vars
  BY <1>18, JobsMove DEF Match!vars, MatchInv, MatchTypeOK
<1>19. ASSUME NEW t \in Task, Match!RequestAnalysis(t) \/ Match!AnalyzeNew(t) PROVE MatchInv'
  BY <1>1, <1>19 DEF Match!RequestAnalysis, Match!AnalyzeNew
<1> QED
  BY <1>2, <1>3, <1>5, <1>6, <1>7, <1>8, <1>9, <1>11, <1>12, <1>13, <1>14, <1>15, <1>16, <1>17,
     <1>18, <1>19 DEF Match!Next

LEMMA MatchInvariant == ASSUME IsFiniteSet(Job) PROVE Match!Spec => []MatchInv
<1>1. MatchInv /\ [Match!Next]_(Match!vars) => MatchInv'
  BY MatchStepInv
<1> QED
  BY <1>1, MatchInitInv, PTL DEF Match!Spec

\* For any finite number of jobs, and however analyses, edits and deletions
\* overlap: a completed analysis accounts for every job that needed one when
\* it began, or shows the total that the enqueuer stored late.
THEOREM AnalysesAddUp == ASSUME IsFiniteSet(Job) PROVE Match!Spec => []CompletedAddsUp
<1>1. MatchInv => CompletedAddsUp
  BY MatchCounts DEF MatchInv, Accounts, CompletedAddsUp, Match!CompletedAddsUp
<1> QED
  BY <1>1, MatchInvariant, PTL

\* Nobody misses a good result, unless the task that stored it still runs or
\* has failed.
THEOREM GoodResultsAnnounced == ASSUME IsFiniteSet(Job) PROVE Match!Spec => []GoodIsAnnounced
<1>1. MatchInv => GoodIsAnnounced
  BY DEF MatchInv, Known, GoodBy, GoodIsAnnounced, Match!GoodIsAnnounced
<1> QED
  BY <1>1, MatchInvariant, PTL

\* A result becomes outdated without being due for renewal only by the two
\* races that OutdatedOnlyByRace names.
THEOREM OutdatedByRace == ASSUME IsFiniteSet(Job) PROVE Match!Spec => OutdatedOnlyByRace
<1> DEFINE Raced(j) ==
             \/ \E t \in Task : j \in run[t].todo /\ run[t].text[j] # job[j].text
             \/ editing[j] # 0 /\ editing[j] <= result[j].at
           Becomes(j) == Match!Outdated(j)' /\ ~Match!Outdated(j)
           OnlyRaced == \A j \in Job : Becomes(j) => Raced(j)
<1>1. MatchInv /\ [Match!Next]_(Match!vars) => [OnlyRaced]_(Match!vars)
  <2> SUFFICES ASSUME MatchInv, Match!Next, NEW j \in Job, Becomes(j) PROVE Raced(j)
    BY DEF Match!vars
  <2>1. job' # job \/ result' # result
    BY DEF Match!Outdated, Match!Exists, Match!NeedsAnalysis
  <2>2. CASE \E t \in Task, i \in Job, good \in BOOLEAN : Match!Store(t, i, good)
    <3>1. PICK t \in Task, i \in Job, good \in BOOLEAN : Match!Store(t, i, good)
      BY <2>2
    <3>2. job' = job /\ i \in run[t].todo /\ result'[i].text = run[t].text[i]
          /\ \A h \in Job \ {i} : result'[h] = result[h]
      BY <3>1 DEF Match!Store, MatchInv, MatchTypeOK, Match!jobs
    <3>3. i = j
      BY <3>2 DEF Match!Outdated, Match!Exists, Match!NeedsAnalysis
    <3> QED
      BY <3>2, <3>3 DEF Match!Outdated
  <2>3. CASE \E i \in Job : Match!CommitEdit(i)
    <3>1. PICK i \in Job : Match!CommitEdit(i)
      BY <2>3
    <3>2. /\ editing[i] # 0 /\ result' = result /\ job'[i].updated = editing[i]
          /\ \A h \in Job \ {i} : job'[h] = job[h]
      BY <3>1 DEF Match!CommitEdit, MatchInv, MatchTypeOK
    <3>3. i = j
      BY <3>2 DEF Match!Outdated, Match!Exists, Match!NeedsAnalysis
    <3>4. ~(editing[j] > result[j].at) /\ editing[j] \in Nat /\ result[j].at \in Nat
      BY <3>2, <3>3 DEF Match!Outdated, Match!Exists, Match!NeedsAnalysis, MatchInv, MatchTypeOK, MatchResult
    <3> QED
      BY <3>2, <3>3, <3>4
  <2>4. CASE (\E i \in Job : Match!DeleteJob(i)) \/ Match!DeleteResume
    <3>1. \A h \in Job : \/ job'[h] = Match!Deleted \/ result'[h] = Match!NoResult
                         \/ job'[h] = job[h] /\ result'[h] = result[h]
      BY <2>4 DEF Match!DeleteJob, Match!DeleteResume, MatchInv, MatchTypeOK, Match!jobs
    <3> QED
      BY <3>1 DEF Match!Outdated, Match!Exists, Match!NeedsAnalysis
  <2> QED
    BY <2>1, <2>2, <2>3, <2>4
       DEF Match!Next, Match!jobs, Match!RequestAnalysis, Match!AnalyzeNew, Match!Enqueue,
           Match!StoreTotal, Match!Claim, Match!NothingToDo, Match!Load, Match!NoAnswer,
           Match!StoreFails, Match!Announce, Match!Finish, Match!Die, Match!BeginEdit
<1> HIDE DEF OnlyRaced
<1>2. Match!Spec => [][OnlyRaced]_(Match!vars)
  BY <1>1, MatchInvariant, PTL DEF Match!Spec
<1> QED
  BY <1>2 DEF OutdatedOnlyByRace, Match!OutdatedOnlyByRace, OnlyRaced

---------------------------------------------------------------------------
(* JobResults.  What a session has in hand follows from what it loaded;    *)
(* the sessions in a transaction have locked what they write and have job  *)
(* ids of their own.                                                       *)

StoredRow == [listing : Listing, active : BOOLEAN, miss : Nat]
AnyRow == [listing : Listing \cup {NoListing}, active : BOOLEAN, miss : Nat]
Loads == UNION {[S -> StoredRow] : S \in SUBSET RowId}
Sessions == [stage : {"idle", "read", "matched", "flushed", "notified"}, seen : SUBSET Listing,
             old : Loads, new : Loads, locked : SUBSET RowId, fresh : SUBSET Listing]

ResultsTypeOK ==
  /\ exists \in BOOLEAN
  /\ row \in [RowId -> AnyRow]
  /\ session \in [Crawl -> Sessions]
  /\ announced \in [Listing -> 0..2]
  /\ missed \in [RowId -> Nat]

\* Of a session s: the rows it changes, the job ids it gives to rows, and
\* whether it has flushed them.
Changed(s) == {r \in DOMAIN s.new : s.new[r] # s.old[r]}
Ids(s) == s.fresh \cup
  {s.new[r].listing : r \in {q \in Changed(s) : s.new[q].listing # s.old[q].listing}}
Flushed(s) == s.stage \in {"flushed", "notified"}

\* Row r is deactivated by its count, activated because it is listed, and
\* counted once.
CountedOnce(s, r) ==
  /\ s.old[r].active /\ ~s.new[r].active => s.old[r].miss + 1 >= Threshold
  /\ ~s.old[r].active /\ s.new[r].active => s.new[r].listing \in s.seen
  /\ \/ s.new[r].miss \in {0, s.old[r].miss}
     \/ s.new[r].miss = s.old[r].miss + 1 /\ s.seen # {}

\* Row r of the session is for listing l.
IsFor(s, r, l) ==
  /\ s.new[r].active /\ s.new[r].listing \in s.seen
  /\ s.new[r].listing = l \/ Offer[s.new[r].listing] = Offer[l]

SessionOK(s) ==
  /\ DOMAIN s.new = DOMAIN s.old
  /\ \A r \in DOMAIN s.new : CountedOnce(s, r)
  /\ s.stage \notin {"idle", "read"} =>
       \A l \in s.seen : l \in s.fresh \/ \E r \in DOMAIN s.new : IsFor(s, r, l)

\* What session s has flushed is stored, or can be inserted.
FlushOK(s) ==
  Flushed(s) =>
    /\ s.locked = Changed(s)
    /\ Changed(s) \subseteq Results!Stored
    /\ \A r \in Results!Stored : row[r].listing \notin s.fresh
    /\ ~exists => s.fresh = {}

Apart(s, z) == Flushed(s) /\ Flushed(z) => Ids(s) \cap Ids(z) = {}

\* The counter of a job that is not in miscounted is right.
Counted == \A r \in RowId : row[r].active /\ r \notin miscounted => row[r].miss <= missed[r]

SessionsInv ==
  /\ ResultsTypeOK
  /\ \A c \in Crawl : SessionOK(session[c]) /\ FlushOK(session[c])
  /\ \A c, d \in Crawl : c # d => Apart(session[c], session[d])
  /\ Counted

\* A job that was announced is stored, or about to be.
IsHeld(l) ==
  \/ \E r \in Results!Stored : row[r].listing = l
  \/ \E c \in Crawl : session[c].stage = "notified" /\ l \in session[c].fresh

Held == exists => \A l \in Listing : announced[l] # 0 /\ l \notin lost \cup renamed => IsHeld(l)

ResultsInv == SessionsInv /\ Held /\ Results!AnnouncedOnce

LEMMA OfSession ==
  ASSUME NEW c \in Crawl
  PROVE  /\ Results!Dirty(c) = Changed(session[c])
         /\ Results!Claimed(c) = Ids(session[c])
         /\ Results!InTransaction(c) <=> Flushed(session[c])
  BY DEF Results!Dirty, Results!Claimed, Results!Reused, Results!InTransaction, Changed, Ids, Flushed

LEMMA LoadIs ==
  ASSUME NEW f \in Loads
  PROVE  DOMAIN f \in SUBSET RowId /\ \A r \in DOMAIN f : f[r] \in StoredRow
<1>1. PICK S \in SUBSET RowId : f \in [S -> StoredRow]
  BY DEF Loads
<1> QED
  BY <1>1

LEMMA IsLoad ==
  ASSUME NEW S \in SUBSET RowId, NEW f \in [S -> StoredRow]
  PROVE  f \in Loads /\ DOMAIN f = S
  BY DEF Loads

LEMMA IdleIs ==
  /\ Results!IdleSession \in Sessions /\ SessionOK(Results!IdleSession)
  /\ Results!IdleSession.stage = "idle"
<1>1. <<>> \in [{} -> StoredRow] /\ DOMAIN <<>> = {}
  BY SMT
<1>2. <<>> \in Loads
  BY <1>1, IsLoad
<1> QED
  BY <1>1, <1>2 DEF Results!IdleSession, Sessions, SessionOK

LEMMA ResultsInitInv == Results!Init => ResultsInv
<1> SUFFICES ASSUME Results!Init PROVE ResultsInv
  OBVIOUS
<1>1. ResultsTypeOK
  BY IdleIs DEF Results!Init, Results!AbsentRow, ResultsTypeOK, AnyRow
<1>2. \A c \in Crawl : session[c] = Results!IdleSession
  BY DEF Results!Init
<1>3. \A c \in Crawl : ~Flushed(session[c])
  BY <1>2, IdleIs DEF Flushed
<1>4. \A c \in Crawl : SessionOK(session[c])
  BY <1>2, IdleIs
<1>5. Counted
  BY DEF Counted, Results!Init, Results!AbsentRow
<1>6. Held /\ Results!AnnouncedOnce
  BY DEF Results!Init, Held, Results!AnnouncedOnce
<1> QED
  BY <1>1, <1>3, <1>4, <1>5, <1>6 DEF ResultsInv, SessionsInv, FlushOK, Apart

\* A session moves to s and nothing is committed.
LEMMA SessionMoves ==
  ASSUME SessionsInv, NEW c \in Crawl, NEW s \in Sessions, session' = [session EXCEPT ![c] = s],
         UNCHANGED <<exists, row, missed, miscounted>>, announced' \in [Listing -> 0..2],
         SessionOK(s), FlushOK(s), \A d \in Crawl \ {c} : Apart(session[d], s)
  PROVE  SessionsInv'
<1>1. session'[c] = s /\ \A d \in Crawl \ {c} : session'[d] = session[d]
  BY DEF SessionsInv, ResultsTypeOK
<1>2. ResultsTypeOK'
  BY DEF SessionsInv, ResultsTypeOK
<1>3. ASSUME NEW z, FlushOK(z) PROVE FlushOK(z)'
  BY <1>3 DEF FlushOK, Results!Stored, Flushed, Changed
<1>4. \A d \in Crawl : SessionOK(session'[d]) /\ FlushOK(session'[d])
  BY <1>1 DEF SessionsInv
<1>5. \A d, e \in Crawl : d # e => Apart(session'[d], session'[e])
  BY <1>1 DEF SessionsInv, Apart
<1>6. Counted'
  BY DEF SessionsInv, Counted
<1>7. \A d \in Crawl : FlushOK(session[d])'
  BY <1>4 DEF FlushOK, Results!Stored, Flushed, Changed
<1>8. \A d \in Crawl : SessionOK(session[d])'
  BY <1>4 DEF SessionOK, CountedOnce, IsFor
<1>9. (\A d, e \in Crawl : d # e => Apart(session[d], session[e]))'
  BY <1>5 DEF Apart, Flushed, Ids, Changed
<1> QED
  BY <1>2, <1>6, <1>7, <1>8, <1>9 DEF SessionsInv

\* Nothing is announced, committed or given up.
LEMMA StillHeld ==
  ASSUME ResultsInv, NEW c \in Crawl, session[c].stage # "notified",
         \A d \in Crawl \ {c} : session'[d] = session[d],
         UNCHANGED <<exists, row, announced, lost, renamed>>
  PROVE  Held' /\ Results!AnnouncedOnce'
<1>1. Results!AnnouncedOnce'
  BY DEF ResultsInv, Results!AnnouncedOnce
<1>2. ASSUME NEW l, IsHeld(l) PROVE IsHeld(l)'
  BY <1>2 DEF IsHeld, Results!Stored
<1> QED
  BY <1>1, <1>2 DEF ResultsInv, Held

\* What the theorems about Results assume of its constants.
ResultsAssumption == Threshold \in Nat /\ NoListing \notin Listing

LEMMA StoredIs ==
  ASSUME SessionsInv, NEW r \in Results!Stored
  PROVE  r \in RowId /\ row[r] \in StoredRow
  BY DEF SessionsInv, ResultsTypeOK, AnyRow, Results!Stored, StoredRow

\* The grace period.
LEMMA CountIs ==
  ASSUME Threshold \in Nat, NEW job_ \in StoredRow, NEW S
  PROVE  /\ Results!Counted(job_, S) \in StoredRow
         /\ Results!Counted(job_, S).listing = job_.listing
         /\ job_.listing \in S =>
              Results!Counted(job_, S).miss = 0 /\ Results!Counted(job_, S).active = job_.active
         /\ job_.listing \notin S =>
              /\ Results!Counted(job_, S).miss = job_.miss + 1
              /\ Results!Counted(job_, S).active <=> job_.miss + 1 < Threshold
<1> DEFINE active == job_.miss + 1 < Threshold
<1>1. active \in BOOLEAN
  OBVIOUS
<1>2. CASE job_.listing \in S
  BY <1>2 DEF Results!Counted, StoredRow
<1>3. CASE job_.listing \notin S
  <2>1. Results!Counted(job_, S) = [job_ EXCEPT !.miss = job_.miss + 1, !.active = active]
    BY <1>3 DEF Results!Counted, StoredRow
  <2> HIDE DEF active
  <2>2. /\ Results!Counted(job_, S) \in StoredRow
        /\ Results!Counted(job_, S).listing = job_.listing
        /\ Results!Counted(job_, S).miss = job_.miss + 1
        /\ Results!Counted(job_, S).active = active
    <3> DEFINE more == job_.miss + 1
    <3>1. more \in Nat /\ Results!Counted(job_, S) = [job_ EXCEPT !.miss = more, !.active = active]
      BY <2>1 DEF StoredRow
    <3> HIDE DEF more
    <3>2. /\ [job_ EXCEPT !.miss = more, !.active = active] \in StoredRow
          /\ [job_ EXCEPT !.miss = more, !.active = active].listing = job_.listing
          /\ [job_ EXCEPT !.miss = more, !.active = active].miss = more
      BY <1>1, <3>1 DEF StoredRow
    <3>3. [job_ EXCEPT !.miss = more, !.active = active].active = active
      BY DEF StoredRow
    <3> QED
      BY <3>1, <3>2, <3>3 DEF more
  <2> QED
    BY <1>3, <2>2 DEF active
<1> QED
  BY <1>2, <1>3

LEMMA BeginKeeps ==
  ASSUME ResultsAssumption, ResultsInv, NEW c \in Crawl, NEW S \in SUBSET Listing, Results!Begin(c, S)
  PROVE  ResultsInv'
<1> DEFINE active == Results!Active(S)
           old == Results!LoadedJobs(S)
           new == Results!CountedJobs(S)
           s == [stage |-> "read", seen |-> S, old |-> old, new |-> new, locked |-> {}, fresh |-> {}]
<1>1. /\ session' = [session EXCEPT ![c] = s] /\ session[c].stage = "idle"
      /\ UNCHANGED <<exists, row, announced, lost, renamed, missed, miscounted>>
  BY DEF Results!Begin, Results!history
<1>2. SessionsInv
  BY DEF ResultsInv
<1>3. \A r \in active : row[r] \in StoredRow /\ row[r].active /\ S # {}
  BY <1>2, StoredIs DEF Results!Active
<1>4. active \in SUBSET RowId
  BY <1>2, StoredIs DEF Results!Active
<1>5. \A r \in active : /\ old[r] = row[r] /\ new[r] = Results!Counted(row[r], S)
                        /\ new[r] \in StoredRow
  BY <1>3, CountIs DEF ResultsAssumption, Results!LoadedJobs, Results!CountedJobs
<1>6. old \in [active -> StoredRow] /\ new \in [active -> StoredRow]
  BY <1>3, <1>5 DEF Results!LoadedJobs, Results!CountedJobs
<1>7. s.stage = "read" /\ s.seen = S /\ s.old = old /\ s.new = new
  OBVIOUS
<1> HIDE DEF active, old, new
<1>8. /\ DOMAIN old = active /\ DOMAIN new = active /\ old \in Loads /\ new \in Loads
  BY <1>4, <1>6, IsLoad
<1>9. s \in Sessions
  BY <1>8 DEF Sessions
<1> HIDE DEF s
<1>10. ASSUME NEW r \in active PROVE CountedOnce(s, r)
  <2>1. /\ row[r] \in StoredRow /\ row[r].active /\ S # {} /\ s.old[r] = row[r]
        /\ s.new[r] = Results!Counted(row[r], S)
    BY <1>3, <1>5, <1>7
  <2>2. row[r].miss \in Nat
    BY <2>1 DEF StoredRow
  <2> QED
    BY <1>7, <2>1, <2>2, CountIs DEF CountedOnce, ResultsAssumption
<1>11. SessionOK(s)
  BY <1>7, <1>8, <1>10 DEF SessionOK
<1>12. FlushOK(s) /\ \A d \in Crawl : Apart(session[d], s)
  BY <1>7 DEF FlushOK, Apart, Flushed
<1>13. announced' \in [Listing -> 0..2]
  BY <1>1, <1>2 DEF SessionsInv, ResultsTypeOK
<1>14. SessionsInv'
  BY <1>1, <1>2, <1>9, <1>11, <1>12, <1>13, SessionMoves
<1>15. \A d \in Crawl \ {c} : session'[d] = session[d]
  BY <1>1, <1>2 DEF SessionsInv, ResultsTypeOK
<1> QED
  BY <1>1, <1>14, <1>15, StillHeld DEF ResultsInv

LEMMA FlushKeeps ==
  ASSUME ResultsAssumption, ResultsInv, NEW c \in Crawl, Results!Flush(c)
  PROVE  ResultsInv'
<1> DEFINE s == [session[c] EXCEPT !.stage = "flushed", !.locked = Results!Dirty(c)]
<1>1. SessionsInv /\ session[c] \in Sessions /\ session \in [Crawl -> Sessions]
  BY DEF ResultsInv, SessionsInv, ResultsTypeOK
<1>2. /\ session' = [session EXCEPT ![c] = s] /\ session[c].stage = "matched" /\ exists
      /\ UNCHANGED <<exists, row, announced, lost, renamed, missed, miscounted>>
  BY <1>1 DEF Results!Flush, Results!history
<1>3. Results!Dirty(c) \in SUBSET RowId
  <2>1. Results!Dirty(c) \subseteq DOMAIN session[c].new
    BY DEF Results!Dirty
  <2>2. session[c].new \in Loads
    BY <1>1 DEF Sessions
  <2> QED
    BY <2>1, <2>2, LoadIs
<1>4. s \in Sessions
  BY <1>1, <1>3 DEF Sessions
<1>5. /\ s.stage = "flushed" /\ s.locked = Results!Dirty(c) /\ s.seen = session[c].seen
      /\ s.old = session[c].old /\ s.new = session[c].new /\ s.fresh = session[c].fresh
  BY <1>1 DEF Sessions
<1> HIDE DEF s
<1>6. SessionOK(s)
  BY <1>1, <1>2, <1>5 DEF SessionsInv, SessionOK, CountedOnce, IsFor
<1>7. FlushOK(s)
  BY <1>2, <1>5, OfSession DEF Results!Flush, Results!Flushable, Results!IdsFree, FlushOK, Changed
<1>8. Ids(s) = Results!Claimed(c)
  BY <1>5, OfSession DEF Ids, Changed
<1>9. \A d \in Crawl \ {c} : Apart(session[d], s)
  BY <1>8, OfSession DEF Results!Flush, Results!IdsFree, Apart
<1>10. announced' \in [Listing -> 0..2]
  BY <1>1, <1>2 DEF SessionsInv, ResultsTypeOK
<1>11. SessionsInv'
  BY <1>1, <1>2, <1>4, <1>6, <1>7, <1>9, <1>10, SessionMoves
<1>12. \A d \in Crawl \ {c} : session'[d] = session[d]
  BY <1>1, <1>2
<1> QED
  BY <1>2, <1>11, <1>12, StillHeld DEF ResultsInv

LEMMA LoadedIs ==
  ASSUME SessionsInv, NEW c \in Crawl,
         NEW r \in Results!Stored \cup DOMAIN session[c].new
  PROVE  Results!Loaded(c, r) \in StoredRow
<1>1. session[c].new \in Loads
  BY DEF SessionsInv, ResultsTypeOK, Sessions
<1>2. CASE r \in DOMAIN session[c].new
  BY <1>1, <1>2, LoadIs DEF Results!Loaded
<1>3. CASE r \notin DOMAIN session[c].new
  BY <1>3, StoredIs DEF Results!Loaded
<1> QED
  BY <1>2, <1>3

LEMMA MatchKeeps ==
  ASSUME ResultsAssumption, ResultsInv, NEW c \in Crawl, Results!Match(c)
  PROVE  ResultsInv'
<1>1. SessionsInv /\ session[c] \in Sessions /\ session \in [Crawl -> Sessions] /\ SessionOK(session[c])
  BY DEF ResultsInv, SessionsInv, ResultsTypeOK
<1> DEFINE foundById == Results!FoundById(c)
           sameAgain == Results!Repeated(c)
<1> DEFINE Matches(reused, given) ==
             /\ \A r \in reused : r \in Results!SameOffer(c, given[r])
             /\ \A l \in sameAgain : \E r \in reused : {q \in reused : Offer[given[q]] = Offer[l]} = {r}
             /\ LET rows == DOMAIN session[c].new \cup foundById \cup reused
                IN session' = [session EXCEPT ![c] =
                     [stage |-> "matched", seen |-> session[c].seen, old |-> Results!OldRows(c, rows),
                      new |-> Results!NewRows(c, rows, given), locked |-> Results!Dirty(c),
                      fresh |-> Results!Unfound(c) \ sameAgain]]
<1>0. PICK reused \in SUBSET Results!Stored : \E given \in [reused -> sameAgain] : Matches(reused, given)
  BY DEF Results!Match
<1>2. PICK given \in [reused -> sameAgain] : Matches(reused, given)
  BY <1>0
<1> DEFINE rows == DOMAIN session[c].new \cup foundById \cup reused
           old == Results!OldRows(c, rows)
           new == Results!NewRows(c, rows, given)
           fresh == Results!Unfound(c) \ sameAgain
           s == [stage |-> "matched", seen |-> session[c].seen, old |-> old, new |-> new,
                 locked |-> Results!Dirty(c), fresh |-> fresh]
<1>3. /\ session' = [session EXCEPT ![c] = s] /\ session[c].stage = "read"
      /\ UNCHANGED <<exists, row, announced, lost, renamed, missed, miscounted>>
  BY <1>2 DEF Results!Match, Results!history
<1>4. session[c].old \in Loads /\ session[c].new \in Loads /\ session[c].seen \in SUBSET Listing
  BY <1>1 DEF Sessions
<1>5. DOMAIN session[c].new \in SUBSET RowId /\ DOMAIN session[c].old = DOMAIN session[c].new
  BY <1>1, <1>4, LoadIs DEF SessionOK
<1>6. foundById \in SUBSET Results!Stored
  BY DEF Results!FoundById
<1>7. sameAgain \in SUBSET session[c].seen /\ fresh \in SUBSET Listing
  BY <1>4 DEF Results!Repeated, Results!Unfound
<1>8. rows \in SUBSET RowId
  BY <1>1, <1>5, <1>6, StoredIs
<1>9. \A r \in rows : Results!Loaded(c, r) \in StoredRow
  BY <1>1, <1>6, LoadedIs
<1>10. Results!Dirty(c) \in SUBSET RowId
  BY <1>5 DEF Results!Dirty
<1>11. DOMAIN given = reused /\ \A r \in reused : given[r] \in session[c].seen /\ given[r] \in Listing
  BY <1>2, <1>4, <1>7
<1> HIDE DEF foundById, sameAgain, fresh
<1>12. ASSUME NEW r \in rows
       PROVE  /\ old[r] \in StoredRow
              /\ old[r] = IF r \in DOMAIN session[c].new THEN session[c].old[r] ELSE row[r]
  <2>1. old[r] = IF r \in DOMAIN session[c].new THEN session[c].old[r] ELSE row[r]
    BY <1>5, <1>12 DEF Results!OldRows
  <2> HIDE DEF old
  <2>2. CASE r \in DOMAIN session[c].new
    BY <1>4, <1>5, <2>1, <2>2, LoadIs
  <2>3. CASE r \notin DOMAIN session[c].new
    BY <1>1, <1>6, <1>12, <2>1, <2>3, StoredIs
  <2> QED
    BY <2>1, <2>2, <2>3
<1>13. ASSUME NEW r \in rows
       PROVE  /\ new[r] \in StoredRow
              /\ new[r].listing = IF r \in reused THEN given[r] ELSE Results!Loaded(c, r).listing
              /\ new[r].active <=> (r \in foundById \cup reused \/ Results!Loaded(c, r).active)
              /\ new[r].miss = Results!Loaded(c, r).miss
  <2> DEFINE listing == IF r \in reused THEN given[r] ELSE Results!Loaded(c, r).listing
             active == r \in foundById \cup reused \/ Results!Loaded(c, r).active
             miss == Results!Loaded(c, r).miss
  <2>1. new[r] = [listing |-> listing, active |-> active, miss |-> miss]
    BY <1>11, <1>13 DEF Results!NewRows, foundById
  <2>2. Results!Loaded(c, r) \in StoredRow
    BY <1>9
  <2>3. listing \in Listing /\ active \in BOOLEAN /\ miss \in Nat
    BY <1>11, <2>2 DEF StoredRow
  <2> HIDE DEF listing, active, miss, new
  <2>4. new[r] \in StoredRow /\ new[r].listing = listing /\ new[r].miss = miss
    BY <2>1, <2>3 DEF StoredRow
  <2>5. new[r].active = active
    BY <2>1
  <2> QED
    BY <2>4, <2>5 DEF listing, active, miss
<1>14. old \in [rows -> StoredRow] /\ new \in [rows -> StoredRow]
  <2>1. /\ old = [r \in rows |-> old[r]]
        /\ new = [r \in rows |-> new[r]]
    BY DEF Results!OldRows, Results!NewRows
  <2> HIDE DEF old, new, rows
  <2> QED
    BY <1>12, <1>13, <2>1
<1>15. /\ s.stage = "matched" /\ s.seen = session[c].seen /\ s.old = old /\ s.new = new
       /\ s.fresh = fresh
  OBVIOUS
<1> HIDE DEF rows, old, new
<1>16. /\ DOMAIN old = rows /\ DOMAIN new = rows /\ old \in Loads /\ new \in Loads
  BY <1>8, <1>14, IsLoad
<1>17. s \in Sessions
  BY <1>4, <1>7, <1>10, <1>16 DEF Sessions
<1> HIDE DEF s
<1>18. ASSUME NEW r \in rows PROVE CountedOnce(s, r)
  <2>1. s.old[r] = old[r] /\ s.new[r] = new[r] /\ s.seen = session[c].seen
    BY <1>15
  <2>2. CASE r \in DOMAIN session[c].new
    <3>1. CountedOnce(session[c], r)
      BY <1>1, <2>2 DEF SessionOK
    <3>2. Results!Loaded(c, r) = session[c].new[r] /\ old[r] = session[c].old[r]
      BY <1>12, <2>2 DEF Results!Loaded
    <3>3. r \in reused => new[r].listing \in session[c].seen
      BY <1>11, <1>13
    <3>4. r \in foundById => Results!Loaded(c, r).listing \in session[c].seen
      BY DEF foundById, Results!FoundById
    <3> QED
      BY <1>13, <2>1, <3>1, <3>2, <3>3, <3>4 DEF CountedOnce
  <2>3. CASE r \notin DOMAIN session[c].new
    <3>1. Results!Loaded(c, r) = row[r] /\ old[r] = row[r]
      BY <1>12, <2>3 DEF Results!Loaded
    <3>2. r \in reused => new[r].listing \in session[c].seen
      BY <1>11, <1>13
    <3>3. r \in foundById => Results!Loaded(c, r).listing \in session[c].seen
      BY DEF foundById, Results!FoundById
    <3>4. new[r].miss = old[r].miss /\ (old[r].active => new[r].active)
      BY <1>13, <3>1
    <3>5. ~old[r].active /\ new[r].active => new[r].listing \in session[c].seen
      BY <1>13, <3>1, <3>2, <3>3
    <3> QED
      BY <2>1, <3>4, <3>5 DEF CountedOnce
  <2> QED
    BY <2>2, <2>3
<1>19. ASSUME NEW l \in s.seen, l \notin s.fresh PROVE \E r \in rows : IsFor(s, r, l)
  <2>1. l \in session[c].seen /\ l \notin fresh
    BY <1>15, <1>19
  <2>2. CASE l \in sameAgain
    <3>1. PICK r \in reused : Offer[given[r]] = Offer[l]
      BY <1>2, <2>2
    <3>2. r \in rows /\ new[r].listing = given[r] /\ new[r].active
      BY <1>13 DEF rows
    <3> QED
      BY <1>11, <1>15, <3>1, <3>2 DEF IsFor
  <2>3. CASE l \notin sameAgain
    <3>1. l \notin Results!Unfound(c)
      BY <2>1, <2>3 DEF fresh
    <3>2. PICK r \in Results!Stored : row[r].listing \in session[c].seen /\ Results!Loaded(c, r).listing = l
      BY <2>1, <3>1 DEF Results!Unfound
    <3>3. r \in foundById
      BY <2>1, <3>2 DEF foundById, Results!FoundById
    <3>4. r \in rows /\ new[r].active
      BY <1>13, <3>3 DEF rows
    <3>5. CASE r \in reused
      <4>1. Offer[given[r]] = Offer[l]
        BY <1>2, <3>2, <3>5 DEF Results!SameOffer
      <4> QED
        BY <1>11, <1>13, <1>15, <3>4, <3>5, <4>1 DEF IsFor
    <3>6. CASE r \notin reused
      BY <1>13, <1>15, <2>1, <3>2, <3>4, <3>6 DEF IsFor
    <3> QED
      BY <3>5, <3>6
  <2> QED
    BY <2>2, <2>3
<1>20. SessionOK(s)
  BY <1>15, <1>16, <1>18, <1>19 DEF SessionOK
<1>21. FlushOK(s) /\ \A d \in Crawl : Apart(session[d], s)
  BY <1>15 DEF FlushOK, Apart, Flushed
<1>22. announced' \in [Listing -> 0..2]
  BY <1>1, <1>3 DEF SessionsInv, ResultsTypeOK
<1>23. SessionsInv'
  BY <1>1, <1>3, <1>17, <1>20, <1>21, <1>22, SessionMoves
<1>24. \A d \in Crawl \ {c} : session'[d] = session[d]
  BY <1>1, <1>3
<1> QED
  BY <1>3, <1>23, <1>24, StillHeld DEF ResultsInv

LEMMA NotifyKeeps ==
  ASSUME ResultsAssumption, ResultsInv, NEW c \in Crawl, Results!Notify(c)
  PROVE  ResultsInv'
<1> DEFINE s == [session[c] EXCEPT !.stage = "notified"]
<1>1. /\ SessionsInv /\ session[c] \in Sessions /\ session \in [Crawl -> Sessions]
      /\ SessionOK(session[c]) /\ FlushOK(session[c]) /\ announced \in [Listing -> 0..2]
  BY DEF ResultsInv, SessionsInv, ResultsTypeOK
<1>2. /\ session' = [session EXCEPT ![c] = s] /\ session[c].stage = "flushed" /\ session[c].fresh # {}
      /\ UNCHANGED <<exists, row, lost, renamed, missed, miscounted>>
  BY <1>1 DEF Results!Notify
<1>3. /\ s \in Sessions /\ s.stage = "notified" /\ s.locked = session[c].locked
      /\ s.seen = session[c].seen /\ s.old = session[c].old /\ s.new = session[c].new
      /\ s.fresh = session[c].fresh
  BY <1>1 DEF Sessions
<1> HIDE DEF s
<1>4. /\ announced' \in [Listing -> 0..2]
      /\ \A l \in Listing : announced'[l] # announced[l] => l \in session[c].fresh
      /\ \A l \in Listing : announced'[l] = 2 => announced[l] # 0
  BY <1>1 DEF Results!Notify
<1>5. SessionOK(s)
  BY <1>1, <1>2, <1>3 DEF SessionOK, CountedOnce, IsFor
<1>6. FlushOK(s) /\ exists
  BY <1>1, <1>2, <1>3 DEF FlushOK, Flushed, Changed
<1>7. ASSUME NEW d \in Crawl \ {c} PROVE Apart(session[d], s) /\ Apart(session[d], session[c])
  <2>1. Apart(session[d], session[c])
    BY <1>1, <1>7 DEF SessionsInv
  <2> QED
    BY <1>2, <1>3, <2>1 DEF Apart, Flushed, Ids, Changed
<1>8. SessionsInv'
  BY <1>1, <1>2, <1>3, <1>4, <1>5, <1>6, <1>7, SessionMoves
<1>9. session'[c] = s /\ \A d \in Crawl \ {c} : session'[d] = session[d]
  BY <1>1, <1>2
<1>10. Held'
  <2> SUFFICES ASSUME NEW l \in Listing, announced'[l] # 0, l \notin lost \cup renamed
               PROVE  IsHeld(l)'
    BY <1>2 DEF Held
  <2>1. CASE l \in session[c].fresh
    BY <1>3, <1>9, <2>1 DEF IsHeld
  <2>2. CASE l \notin session[c].fresh
    <3>1. IsHeld(l)
      BY <1>4, <1>6, <2>2 DEF ResultsInv, Held
    <3> QED
      BY <1>2, <1>9, <3>1 DEF IsHeld, Results!Stored
  <2> QED
    BY <2>1, <2>2
<1>11. Results!AnnouncedOnce'
  <2> SUFFICES ASSUME NEW l \in Listing, announced'[l] = 2 PROVE l \in lost \cup renamed
    BY <1>2 DEF Results!AnnouncedOnce
  <2>1. CASE announced[l] = 2
    BY <2>1 DEF ResultsInv, Results!AnnouncedOnce
  <2>2. CASE announced[l] # 2
    <3>1. l \in session[c].fresh /\ announced[l] # 0
      BY <1>4, <2>2
    <3>2. ~\E r \in Results!Stored : row[r].listing = l
      BY <1>1, <1>2, <3>1 DEF FlushOK, Flushed
    <3>3. ~\E d \in Crawl : session[d].stage = "notified" /\ l \in session[d].fresh
      BY <1>2, <1>7, <3>1 DEF Apart, Flushed, Ids
    <3> QED
      BY <1>6, <3>1, <3>2, <3>3 DEF ResultsInv, Held, IsHeld
  <2> QED
    BY <2>1, <2>2
<1> QED
  BY <1>8, <1>10, <1>11 DEF ResultsInv

LEMMA AbortKeeps ==
  ASSUME ResultsInv, NEW c \in Crawl, Results!Abort(c)
  PROVE  ResultsInv'
<1>1. SessionsInv /\ session \in [Crawl -> Sessions] /\ announced \in [Listing -> 0..2]
  BY DEF ResultsInv, SessionsInv, ResultsTypeOK
<1>2. /\ session' = [session EXCEPT ![c] = Results!IdleSession]
      /\ UNCHANGED <<exists, row, announced, renamed, missed, miscounted>>
      /\ lost \subseteq lost'
      /\ session[c].stage = "notified" => session[c].fresh \subseteq lost'
  BY DEF Results!Abort
<1>3. FlushOK(Results!IdleSession) /\ \A d \in Crawl : Apart(session[d], Results!IdleSession)
  BY IdleIs DEF FlushOK, Apart, Flushed
<1>4. SessionsInv'
  BY <1>1, <1>2, <1>3, IdleIs, SessionMoves
<1>5. \A d \in Crawl \ {c} : session'[d] = session[d]
  BY <1>1, <1>2
<1>6. ASSUME NEW l, IsHeld(l), l \notin lost' PROVE IsHeld(l)'
  BY <1>2, <1>5, <1>6 DEF IsHeld, Results!Stored
<1>7. Held' /\ Results!AnnouncedOnce'
  BY <1>2, <1>6 DEF ResultsInv, Held, Results!AnnouncedOnce
<1> QED
  BY <1>4, <1>7 DEF ResultsInv

LEMMA DeleteKeeps ==
  ASSUME ResultsInv, Results!DeleteConfig
  PROVE  ResultsInv'
<1>1. /\ ~exists' /\ UNCHANGED <<session, announced, lost, renamed, missed, miscounted>>
      /\ \A r \in RowId : row'[r] = Results!AbsentRow
      /\ row' = [r \in RowId |-> Results!AbsentRow] /\ exists' \in BOOLEAN
      /\ \A c \in Crawl : session[c].locked = {} /\ (Flushed(session[c]) => session[c].fresh = {})
  BY OfSession DEF Results!DeleteConfig, Results!history
<1>2. ResultsTypeOK'
  BY <1>1 DEF ResultsInv, SessionsInv, ResultsTypeOK, AnyRow, Results!AbsentRow
<1>3. \A c \in Crawl : SessionOK(session[c])'
  BY <1>1 DEF ResultsInv, SessionsInv, SessionOK, CountedOnce, IsFor
<1>4. \A c \in Crawl : FlushOK(session[c])'
  BY <1>1 DEF ResultsInv, SessionsInv, FlushOK, Flushed, Changed
<1>5. \A c, d \in Crawl : c # d => Apart(session[c], session[d])'
  <2>1. \A c, d \in Crawl : c # d => Apart(session[c], session[d])
    BY DEF ResultsInv, SessionsInv
  <2>2. \A c, d \in Crawl : c # d => Apart(session'[c], session'[d])
    BY <1>1, <2>1
  <2> QED
    BY <2>2 DEF Apart, Flushed, Ids, Changed
<1>6. Counted'
  BY <1>1 DEF Counted, Results!AbsentRow
<1>7. Held' /\ Results!AnnouncedOnce'
  BY <1>1 DEF Held, ResultsInv, Results!AnnouncedOnce
<1> QED
  BY <1>2, <1>3, <1>4, <1>5, <1>6, <1>7 DEF ResultsInv, SessionsInv

\* The columns of row r, which the session has changed, after its update.
LEMMA WrittenIs ==
  ASSUME NEW c \in Crawl, NEW r, row[r] \in StoredRow, session[c].new[r] \in StoredRow,
         session[c].old[r] \in StoredRow
  PROVE  /\ Results!Written(c, r) \in StoredRow
         /\ session[c].old[r] = row[r] => Results!Written(c, r) = session[c].new[r]
         /\ Results!Written(c, r).listing \in {row[r].listing, session[c].new[r].listing}
         /\ Results!Written(c, r).listing # row[r].listing =>
              session[c].new[r].listing # session[c].old[r].listing
<1> DEFINE old == session[c].old[r]
           new == session[c].new[r]
           w == Results!Written(c, r)
<1>1. DOMAIN row[r] = {"listing", "active", "miss"}
  BY DEF StoredRow
<1>2. w = [f \in {"listing", "active", "miss"} |-> IF new[f] # old[f] THEN new[f] ELSE row[r][f]]
  BY <1>1 DEF Results!Written
<1>3. /\ w.listing = IF new.listing # old.listing THEN new.listing ELSE row[r].listing
      /\ w.active = IF new.active # old.active THEN new.active ELSE row[r].active
      /\ w.miss = IF new.miss # old.miss THEN new.miss ELSE row[r].miss
  BY <1>2
<1>4. w = [listing |-> w.listing, active |-> w.active, miss |-> w.miss]
  BY <1>2
<1>5. w.listing \in Listing /\ w.active \in BOOLEAN /\ w.miss \in Nat
  BY <1>3 DEF StoredRow
<1>6. w \in StoredRow
  BY <1>4, <1>5 DEF StoredRow
<1>7. ASSUME old = row[r] PROVE w = new
  <2>1. new = [listing |-> new.listing, active |-> new.active, miss |-> new.miss]
    BY DEF StoredRow
  <2>2. w.listing = new.listing /\ w.miss = new.miss
    BY <1>3, <1>7
  <2>3. w.active = new.active
    BY <1>3, <1>7
  <2> HIDE DEF w, new
  <2> QED
    BY <1>4, <2>1, <2>2, <2>3
<1> QED
  BY <1>3, <1>6, <1>7

\* What a commit does to the rows: it updates those the session has changed,
\* and inserts one for each fresh listing.
FreshRow(l) == [listing |-> l, active |-> TRUE, miss |-> 0]

LEMMA FreshIs == \A l : FreshRow(l).listing = l /\ FreshRow(l).active = TRUE /\ FreshRow(l).miss = 0
  BY DEF FreshRow

LEMMA CommitWrites ==
  ASSUME ResultsAssumption, ResultsInv, NEW c \in Crawl, Results!Commit(c)
  PROVE  /\ exists /\ Flushed(session[c])
         /\ row' \in [RowId -> AnyRow]
         /\ Changed(session[c]) \subseteq Results!Stored
         /\ \A r \in Changed(session[c]) :
              /\ session[c].old[r] \in StoredRow /\ session[c].new[r] \in StoredRow
              /\ row'[r] = Results!Written(c, r)
         /\ \A r \in Results!Stored : row'[r] \in StoredRow
         /\ \A r \in Results!Stored \ Changed(session[c]) : row'[r] = row[r]
         /\ \A r \in RowId \ Results!Stored :
              row'[r] = row[r] \/ \E l \in session[c].fresh : row'[r] = FreshRow(l)
         /\ \A l \in session[c].fresh : \E r \in RowId \ Results!Stored : row'[r] = FreshRow(l)
<1>1. /\ SessionsInv /\ session[c] \in Sessions /\ row \in [RowId -> AnyRow]
      /\ SessionOK(session[c]) /\ FlushOK(session[c])
  BY DEF ResultsInv, SessionsInv, ResultsTypeOK
<1>2. exists /\ Flushed(session[c])
  BY OfSession DEF Results!Commit
<1>3. Changed(session[c]) \subseteq Results!Stored /\ session[c].fresh \subseteq Listing
  BY <1>1, <1>2 DEF FlushOK, Sessions
<1> DEFINE D == Changed(session[c])
           F == session[c].fresh
           O == Results!Stored
<1>4. \A r \in D : session[c].old[r] \in StoredRow /\ session[c].new[r] \in StoredRow
  <2>1. session[c].old \in Loads /\ session[c].new \in Loads /\ DOMAIN session[c].new = DOMAIN session[c].old
    BY <1>1 DEF Sessions, SessionOK
  <2> QED
    BY <2>1, LoadIs DEF Changed
<1>5. \A r \in O : r \in RowId /\ row[r] \in StoredRow
  BY <1>1, StoredIs
<1>6. \A r \in D : Results!Written(c, r) \in StoredRow
  BY <1>3, <1>4, <1>5, WrittenIs
<1> DEFINE Writes(place) ==
             row' = [r \in RowId |->
               IF r \in D THEN Results!Written(c, r)
               ELSE IF r \in Results!Range(place)
               THEN [listing |-> Results!AntiFunction(place)[r], active |-> TRUE, miss |-> 0]
               ELSE row[r]]
<1>7. PICK place \in [F -> RowId \ O] : Results!IsInjective(place) /\ Writes(place)
  BY OfSession DEF Results!Commit
<1> HIDE DEF D, F, O
<1>8. ASSUME NEW l \in F
      PROVE  place[l] \in Results!Range(place) /\ Results!AntiFunction(place)[place[l]] = l
  <2>1. DOMAIN place = F /\ place[l] \in Results!Range(place)
    BY <1>7, <1>8 DEF Results!Range
  <2>2. \A k \in F : place[k] = place[l] => k = l
    BY <1>7, <1>8, <2>1 DEF Results!IsInjective
  <2>3. (CHOOSE k \in F : place[l] \in Results!Range(place) => place[k] = place[l]) = l
    BY <1>8, <2>1, <2>2
  <2> QED
    BY <2>1, <2>3 DEF Results!AntiFunction, Results!Inverse
<1>9. ASSUME NEW r \in Results!Range(place)
      PROVE  \E l \in F : place[l] = r /\ Results!AntiFunction(place)[r] = l
  BY <1>7, <1>8, <1>9 DEF Results!Range
<1>10. Results!Range(place) \cap O = {}
  BY <1>7 DEF Results!Range
<1>11. \A r \in D : row'[r] = Results!Written(c, r)
  BY <1>3, <1>5, <1>7 DEF D, O
<1>12. \A r \in O \ D : row'[r] = row[r]
  BY <1>5, <1>7, <1>10
<1>13. \A r \in RowId \ O : row'[r] = row[r] \/ \E l \in F : row'[r] = FreshRow(l)
  <2> SUFFICES ASSUME NEW r \in RowId \ O PROVE row'[r] = row[r] \/ \E l \in F : row'[r] = FreshRow(l)
    OBVIOUS
  <2>1. r \notin D
    BY <1>3 DEF D, O
  <2>2. CASE r \in Results!Range(place)
    BY <1>7, <1>9, <2>1, <2>2 DEF FreshRow
  <2>3. CASE r \notin Results!Range(place)
    BY <1>7, <2>1, <2>3
  <2> QED
    BY <2>2, <2>3
<1>14. \A l \in F : \E r \in RowId \ O : row'[r] = FreshRow(l)
  <2> SUFFICES ASSUME NEW l \in F PROVE place[l] \in RowId \ O /\ row'[place[l]] = FreshRow(l)
    OBVIOUS
  <2>1. place[l] \in RowId \ O /\ place[l] \notin D
    BY <1>3, <1>7 DEF D, O
  <2> QED
    BY <1>7, <1>8, <2>1 DEF FreshRow
<1>15. \A r \in O : row'[r] \in StoredRow
  BY <1>5, <1>6, <1>11, <1>12
<1>16. \A r \in RowId : row'[r] \in AnyRow
  <2>1. \A l \in F : FreshRow(l) \in AnyRow
    BY <1>3 DEF FreshRow, AnyRow, F
  <2>2. StoredRow \subseteq AnyRow
    BY DEF StoredRow, AnyRow
  <2> QED
    BY <1>1, <1>13, <1>15, <2>1, <2>2
<1>17. row' \in [RowId -> AnyRow]
  BY <1>7, <1>16
<1> QED
  BY <1>2, <1>3, <1>4, <1>11, <1>12, <1>13, <1>14, <1>15, <1>17 DEF D, F, O

\* What a commit remembers of row r.
LEMMA CommitRemembers ==
  ASSUME ResultsTypeOK, NEW c \in Crawl, Results!Commit(c)
  PROVE  /\ missed' \in [RowId -> Nat]
         /\ \A r \in RowId : row'[r].active /\ row'[r].listing \notin session[c].seen =>
              missed'[r] = IF session[c].seen = {} THEN missed[r] ELSE missed[r] + 1
         /\ \A r \in RowId : row'[r].miss # 0 /\ r \notin miscounted' =>
              /\ row'[r].listing \notin session[c].seen /\ r \notin miscounted
              /\ r \in Changed(session[c]) => session[c].old[r] = row[r]
         /\ renamed \subseteq renamed'
         /\ \A r \in Results!Stored : row'[r].listing # row[r].listing => row[r].listing \in renamed'
<1>1. Results!Remember(c)
  BY DEF Results!Commit
<1>2. missed' = [r \in RowId |->
       IF session[c].seen = {} THEN missed[r]
       ELSE IF row'[r].listing \in session[c].seen \/ ~row'[r].active THEN 0 ELSE missed[r] + 1]
  BY <1>1 DEF Results!Remember
<1>3. missed' \in [RowId -> Nat]
  BY <1>2 DEF ResultsTypeOK
<1>4. \A r \in RowId : row'[r].active /\ row'[r].listing \notin session[c].seen =>
              missed'[r] = IF session[c].seen = {} THEN missed[r] ELSE missed[r] + 1
  BY <1>2
<1>5. \A r \in RowId : row'[r].miss # 0 /\ r \notin miscounted' =>
              /\ row'[r].listing \notin session[c].seen /\ r \notin miscounted
              /\ r \in Changed(session[c]) => session[c].old[r] = row[r]
  BY <1>1, OfSession DEF Results!Remember
<1>6. renamed' = renamed \cup {row[r].listing : r \in {q \in Results!Stored : row'[q].listing # row[q].listing}}
  BY <1>1 DEF Results!Remember
<1> QED
  BY <1>3, <1>4, <1>5, <1>6

LEMMA CommitKeeps ==
  ASSUME ResultsAssumption, ResultsInv, NEW c \in Crawl, Results!Commit(c)
  PROVE  ResultsInv'
<1> DEFINE D == Changed(session[c])
           F == session[c].fresh
           O == Results!Stored
<1>1. /\ SessionsInv /\ ResultsTypeOK /\ session \in [Crawl -> Sessions] /\ missed \in [RowId -> Nat]
      /\ SessionOK(session[c]) /\ row \in [RowId -> AnyRow]
  BY DEF ResultsInv, SessionsInv, ResultsTypeOK
<1>2. /\ session' = [session EXCEPT ![c] = Results!IdleSession]
      /\ UNCHANGED <<exists, announced, lost>>
  BY DEF Results!Commit
<1>3. session'[c] = Results!IdleSession /\ \A d \in Crawl \ {c} : session'[d] = session[d]
  BY <1>1, <1>2
<1>4. \A r \in Results!Stored' : r \in RowId /\ row'[r].listing # NoListing
  BY DEF Results!Stored
<1>5. O \subseteq Results!Stored'
  BY CommitWrites, StoredIs, <1>1 DEF Results!Stored, StoredRow, ResultsAssumption
<1>6. ResultsTypeOK'
  BY <1>1, <1>2, IdleIs, CommitWrites, CommitRemembers DEF ResultsTypeOK
<1>7. \A d \in Crawl : SessionOK(session'[d])
  BY <1>1, <1>3, IdleIs DEF SessionsInv
<1>8. ASSUME NEW d \in Crawl \ {c}, Flushed(session[d])
      PROVE  /\ session[d].locked = Changed(session[d])
             /\ Changed(session[d]) \subseteq Results!Stored'
             /\ \A r \in Results!Stored' : row'[r].listing \notin session[d].fresh
  <2>1. FlushOK(session[d]) /\ Apart(session[d], session[c])
    BY <1>1 DEF SessionsInv
  <2>2. session[d].locked = Changed(session[d]) /\ Changed(session[d]) \subseteq O
        /\ \A r \in O : row[r].listing \notin session[d].fresh
    BY <1>8, <2>1 DEF FlushOK
  <2>3. Ids(session[c]) \cap session[d].fresh = {}
    BY <1>8, <2>1, CommitWrites DEF Apart, Ids
  <2>4. ASSUME NEW r \in Results!Stored' PROVE row'[r].listing \notin session[d].fresh
    <3>1. CASE r \in D
      <4>1. /\ r \in O /\ row[r] \in StoredRow /\ session[c].new[r] \in StoredRow
            /\ session[c].old[r] \in StoredRow /\ row'[r] = Results!Written(c, r)
        BY <1>1, <3>1, CommitWrites, StoredIs
      <4>2. CASE row'[r].listing = row[r].listing
        BY <2>2, <4>1, <4>2
      <4>3. CASE row'[r].listing # row[r].listing
        <5>1. row'[r].listing = session[c].new[r].listing /\ session[c].new[r].listing # session[c].old[r].listing
          BY <4>1, <4>3, WrittenIs
        <5>2. row'[r].listing \in Ids(session[c])
          BY <3>1, <5>1 DEF Ids
        <5> QED
          BY <2>3, <5>2
      <4> QED
        BY <4>2, <4>3
    <3>2. CASE r \in O \ D
      BY <2>2, <3>2, CommitWrites
    <3>3. CASE r \notin O
      <4>1. row'[r] # row[r]
        BY <1>4, <3>3 DEF Results!Stored
      <4>2. PICK l \in F : row'[r] = FreshRow(l)
        BY <1>4, <3>3, <4>1, CommitWrites
      <4>3. row'[r].listing = l /\ l \in Ids(session[c])
        BY <4>2 DEF FreshRow, Ids
      <4> QED
        BY <2>3, <4>3
    <3> QED
      BY <3>1, <3>2, <3>3
  <2> QED
    BY <1>5, <2>2, <2>4
<1>9. \A d \in Crawl : FlushOK(session[d])'
  BY <1>2, <1>3, <1>8, IdleIs, CommitWrites DEF FlushOK, Flushed, Changed
<1>10. \A d, e \in Crawl : d # e => Apart(session'[d], session'[e])
  BY <1>1, <1>3, IdleIs DEF SessionsInv, Apart, Flushed
<1>11. Counted'
  <2> SUFFICES ASSUME NEW r \in RowId, row'[r].active, r \notin miscounted'
               PROVE  row'[r].miss <= missed'[r]
    BY DEF Counted
  <2>1. row'[r].miss \in Nat /\ row[r].miss \in Nat /\ missed'[r] \in Nat /\ missed[r] \in Nat
    BY <1>1, CommitWrites, CommitRemembers DEF AnyRow
  <2>2. CASE row'[r].miss = 0
    BY <2>1, <2>2
  <2>3. CASE row'[r].miss # 0
    <3>1. /\ row'[r].listing \notin session[c].seen /\ r \notin miscounted
          /\ r \in D => session[c].old[r] = row[r]
          /\ missed'[r] = IF session[c].seen = {} THEN missed[r] ELSE missed[r] + 1
      BY <1>1, <2>3, CommitRemembers
    <3>2. row[r].active => row[r].miss <= missed[r]
      BY <1>1, <3>1 DEF SessionsInv, Counted
    <3>3. CASE row'[r] = row[r]
      BY <2>1, <3>1, <3>2, <3>3
    <3>4. CASE row'[r] # row[r]
      <4>1. r \in D
        <5>1. ~\E l \in F : row'[r] = FreshRow(l)
          BY <2>3, FreshIs
        <5> QED
          BY <3>4, <5>1, CommitWrites
      <4>2. row'[r] = session[c].new[r] /\ session[c].old[r] = row[r]
        <5>1. /\ session[c].old[r] \in StoredRow /\ session[c].new[r] \in StoredRow
              /\ row'[r] = Results!Written(c, r) /\ session[c].old[r] = row[r]
              /\ row[r] \in StoredRow
          BY <3>1, <4>1, CommitWrites
        <5> QED
          BY <5>1, WrittenIs
      <4>3. CountedOnce(session[c], r)
        BY <1>1, <4>1 DEF SessionOK, Changed
      <4>4. row[r].active
        BY <3>1, <4>2, <4>3 DEF CountedOnce
      <4>5. \/ row'[r].miss = row[r].miss
            \/ row'[r].miss = row[r].miss + 1 /\ session[c].seen # {}
        BY <2>3, <4>2, <4>3 DEF CountedOnce
      <4> QED
        BY <2>1, <3>1, <3>2, <4>4, <4>5
    <3> QED
      BY <3>3, <3>4
  <2> QED
    BY <2>2, <2>3
<1>12. Held'
  <2> SUFFICES ASSUME NEW l \in Listing, announced[l] # 0, l \notin lost, l \notin renamed'
               PROVE  IsHeld(l)'
    BY <1>2 DEF Held
  <2>1. IsHeld(l)
    BY <1>1, CommitWrites, CommitRemembers DEF ResultsInv, Held
  <2>2. CASE \E r \in O : row[r].listing = l
    <3>1. PICK r \in O : row[r].listing = l
      BY <2>2
    <3>2. row'[r].listing = l
      BY <1>1, <3>1, CommitRemembers
    <3> QED
      BY <1>5, <3>2 DEF IsHeld
  <2>3. CASE \E d \in Crawl : session[d].stage = "notified" /\ l \in session[d].fresh
    <3>1. PICK d \in Crawl : session[d].stage = "notified" /\ l \in session[d].fresh
      BY <2>3
    <3>2. CASE d # c
      BY <1>3, <3>1, <3>2 DEF IsHeld
    <3>3. CASE d = c
      <4>1. PICK r \in RowId \ O : row'[r] = FreshRow(l)
        BY <3>1, <3>3, CommitWrites
      <4>2. r \in Results!Stored' /\ row'[r].listing = l
        BY <4>1 DEF FreshRow, Results!Stored, ResultsAssumption
      <4> QED
        BY <4>2 DEF IsHeld
    <3> QED
      BY <3>2, <3>3
  <2> QED
    BY <2>1, <2>2, <2>3 DEF IsHeld
<1>13. Results!AnnouncedOnce'
  BY <1>1, <1>2, CommitRemembers DEF ResultsInv, Results!AnnouncedOnce
<1>14. \A d \in Crawl : SessionOK(session[d])'
  BY <1>7 DEF SessionOK, CountedOnce, IsFor
<1>15. (\A d, e \in Crawl : d # e => Apart(session[d], session[e]))'
  BY <1>10 DEF Apart, Flushed, Ids, Changed
<1> QED
  BY <1>6, <1>9, <1>11, <1>12, <1>13, <1>14, <1>15 DEF ResultsInv, SessionsInv

\* Every step of the crawls keeps the invariant.
LEMMA ResultsStepInv ==
  ResultsAssumption /\ ResultsInv /\ [Results!Next]_(Results!vars) => ResultsInv'
<1> SUFFICES ASSUME ResultsAssumption, ResultsInv, [Results!Next]_(Results!vars) PROVE ResultsInv'
  OBVIOUS
<1>1. CASE UNCHANGED Results!vars
  <2>1. UNCHANGED <<begun, exists, row, session, announced, lost, renamed, missed, miscounted>>
    BY <1>1 DEF Results!vars, Results!history
  <2>2. ResultsTypeOK' /\ Counted' /\ Results!AnnouncedOnce'
    BY <2>1 DEF ResultsInv, SessionsInv, ResultsTypeOK, Counted, Results!AnnouncedOnce
  <2>3. (\A c \in Crawl : SessionOK(session[c]) /\ FlushOK(session[c]))'
    BY <2>1 DEF ResultsInv, SessionsInv, SessionOK, CountedOnce, IsFor, FlushOK, Flushed, Changed, Results!Stored
  <2>4. (\A c, d \in Crawl : c # d => Apart(session[c], session[d]))'
    <3>1. \A c, d \in Crawl : c # d => Apart(session[c], session[d])
      BY DEF ResultsInv, SessionsInv
    <3>2. \A c, d \in Crawl : c # d => Apart(session'[c], session'[d])
      BY <2>1, <3>1
    <3> QED
      BY <3>2 DEF Apart, Flushed, Ids, Changed
  <2>5. Held'
    BY <2>1 DEF ResultsInv, Held, IsHeld, Results!Stored
  <2> QED
    BY <2>2, <2>3, <2>4, <2>5 DEF ResultsInv, SessionsInv
<1> QED
  BY <1>1, BeginKeeps, MatchKeeps, FlushKeeps, NotifyKeeps, CommitKeeps, AbortKeeps, DeleteKeeps
     DEF Results!Next

LEMMA ResultsInvariant == ASSUME ResultsAssumption PROVE Results!Spec => []ResultsInv
<1>1. ResultsInv /\ [Results!Next]_(Results!vars) => ResultsInv'
  BY ResultsStepInv
<1> QED
  BY <1>1, ResultsInitInv, PTL DEF Results!Spec

\* For any number of crawls at once, listings and rows, and wherever a crawl
\* fails: the second announcement of a job is due to a crawl that announced it
\* and did not commit, or to a row that was given to another job id.
THEOREM JobsAnnouncedOnce == ASSUME ResultsAssumption PROVE Results!Spec => []AnnouncedOnce
<1>1. ResultsInv => AnnouncedOnce
  BY DEF ResultsInv, AnnouncedOnce
<1> QED
  BY <1>1, ResultsInvariant, PTL

\* What a crawl has seen is on active rows once it commits undisturbed.
THEOREM SeenJobsListed == ASSUME ResultsAssumption PROVE Results!Spec => SeenIsListed
<1> DEFINE SeenListed == \A c \in Crawl : Results!Commit(c) /\ Results!Undisturbed(c) =>
             \A l \in session[c].seen : \E r \in RowId :
               /\ row'[r].active
               /\ row'[r].listing \in session[c].seen
               /\ row'[r].listing = l \/ Offer[row'[r].listing] = Offer[l]
<1>1. ResultsInv => SeenListed
  <2> SUFFICES ASSUME ResultsInv, NEW c \in Crawl, Results!Commit(c), Results!Undisturbed(c),
                      NEW l \in session[c].seen
               PROVE  \E r \in RowId :
                        /\ row'[r].active
                        /\ row'[r].listing \in session[c].seen
                        /\ row'[r].listing = l \/ Offer[row'[r].listing] = Offer[l]
    OBVIOUS
  <2>1. SessionsInv /\ session[c] \in Sessions /\ SessionOK(session[c])
    BY DEF ResultsInv, SessionsInv, ResultsTypeOK
  <2>2. CASE l \in session[c].fresh
    <3>1. PICK r \in RowId : row'[r] = FreshRow(l)
      BY <2>2, CommitWrites
    <3> QED
      BY <3>1 DEF FreshRow
  <2>3. CASE l \notin session[c].fresh
    <3>1. PICK r \in DOMAIN session[c].new : IsFor(session[c], r, l)
      BY <2>1, <2>3, CommitWrites DEF SessionOK, Flushed
    <3>2. session[c].old[r] = row[r] /\ r \in RowId /\ row[r] \in StoredRow
      <4>1. session[c].old \in Loads /\ DOMAIN session[c].new = DOMAIN session[c].old
        BY <2>1 DEF SessionOK, Sessions
      <4>2. session[c].old[r] = row[r]
        BY <3>1, <4>1 DEF Results!Undisturbed
      <4> QED
        BY <3>1, <4>1, <4>2, LoadIs
    <3>3. row'[r] = session[c].new[r]
      <4>1. CASE r \in Changed(session[c])
        BY <3>2, <4>1, CommitWrites, WrittenIs
      <4>2. CASE r \notin Changed(session[c])
        <5>1. r \in Results!Stored /\ session[c].new[r] = row[r]
          BY <3>1, <3>2, <4>2 DEF Changed, Results!Stored, StoredRow, ResultsAssumption
        <5> QED
          BY <4>2, <5>1, CommitWrites
      <4> QED
        BY <4>1, <4>2
    <3> QED
      BY <3>1, <3>2, <3>3 DEF IsFor
  <2> QED
    BY <2>2, <2>3
<1>2. ResultsInv => [SeenListed]_(Results!vars)
  BY <1>1
<1> HIDE DEF SeenListed
<1>3. Results!Spec => [][SeenListed]_(Results!vars)
  BY <1>2, ResultsInvariant, PTL DEF Results!Spec
<1> QED
  BY <1>3 DEF SeenIsListed, Results!SeenIsListed, SeenListed

\* For any threshold: a crawl that commits undisturbed deactivates a job only
\* after so many crawls without it, or because of a counter that is known not
\* to count them.
THEOREM DeactivationsEarned == ASSUME ResultsAssumption PROVE Results!Spec => DeactivationIsEarned
<1> DEFINE Earned == \A c \in Crawl, r \in RowId :
             Results!Commit(c) /\ Results!Undisturbed(c) /\ row[r].active /\ ~row'[r].active =>
               r \in miscounted \/ missed[r] + 1 >= Threshold
<1>1. ResultsInv => Earned
  <2> SUFFICES ASSUME ResultsInv, NEW c \in Crawl, NEW r \in RowId, Results!Commit(c),
                      Results!Undisturbed(c), row[r].active, ~row'[r].active, r \notin miscounted
               PROVE  missed[r] + 1 >= Threshold
    OBVIOUS
  <2>1. /\ SessionsInv /\ session[c] \in Sessions /\ SessionOK(session[c])
        /\ missed[r] \in Nat /\ row[r] \in AnyRow /\ row[r].miss <= missed[r]
    BY DEF ResultsInv, SessionsInv, ResultsTypeOK, Counted
  <2>2. r \in Changed(session[c])
    <3>1. row'[r] # row[r]
      OBVIOUS
    <3>2. ~\E l \in session[c].fresh : row'[r] = FreshRow(l)
      <4> SUFFICES ASSUME NEW l, row'[r] = FreshRow(l) PROVE FALSE
        OBVIOUS
      <4>1. row'[r].active = TRUE
        BY FreshIs
      <4> QED
        BY <4>1
    <3> QED
      BY <3>1, <3>2, CommitWrites
  <2>3. session[c].old[r] = row[r] /\ CountedOnce(session[c], r)
    BY <2>1, <2>2 DEF Changed, Results!Undisturbed, SessionOK
  <2>4. row'[r] = session[c].new[r]
    <3>1. /\ session[c].old[r] \in StoredRow /\ session[c].new[r] \in StoredRow
          /\ row'[r] = Results!Written(c, r) /\ row[r] \in StoredRow
      BY <2>2, <2>3, CommitWrites
    <3> QED
      BY <2>3, <3>1, WrittenIs
  <2>5. row[r].miss + 1 >= Threshold
    BY <2>3, <2>4 DEF CountedOnce
  <2> QED
    BY <2>1, <2>5 DEF AnyRow, ResultsAssumption
<1>2. ResultsInv => [Earned]_(Results!vars)
  BY <1>1
<1> HIDE DEF Earned
<1>3. Results!Spec => [][Earned]_(Results!vars)
  BY <1>2, ResultsInvariant, PTL DEF Results!Spec
<1> QED
  BY <1>3 DEF DeactivationIsEarned, Results!DeactivationIsEarned, Earned

---------------------------------------------------------------------------
(* JobDetails.  What is to be requested again was requested once, in the   *)
(* order of the main pass, and has not been repeated.                      *)

\* DETAIL_WAF_BLOCK_LIMIT is 1: the first block ends the main pass on 51job.
DetailsAssumption == Detail \in Nat /\ WafLimit \in Nat /\ WafLimit <= 1

Counts == [cookie : Nat, waf : Nat, timeout : Nat, cooldown : Nat]

DetailsTypeOK ==
  /\ pass \in {"main", "retry", "done"}
  /\ at \in Nat \ {0}
  /\ again \in Seq(Nat)
  /\ count \in Counts
  /\ first \in [Details!Job -> {"none"} \cup Details!Outcome]

\* The jobs to be requested again, with the index of the next one, the first
\* outcomes and what has been repeated.
AgainOK ==
  /\ \A n \in 1..Len(again) :
       /\ again[n] \in Details!Job /\ again[n] < at
       /\ first[again[n]] \in {"retry", "cookie_retry"}
       /\ \A i \in repeated : i < again[n]
  /\ \A m, n \in 1..Len(again) : m < n => again[m] < again[n]

\* The main pass has not reached the end nor a reason to stop.
MainOK ==
  /\ repeated = {} /\ bailed = "no"
  /\ crawled = "51job" => \A i \in Details!Job : first[i] # "waf_block"

DetailsInv ==
  /\ DetailsTypeOK
  /\ \A i \in Details!Job : i >= at => first[i] = "none"
  /\ repeated \subseteq Details!Job
  /\ AgainOK
  /\ pass = "main" => MainOK

LEMMA DetailsInitInv == Details!Init => DetailsInv
  BY DEF Details!Init, Details!Zero, Details!Job, DetailsInv, DetailsTypeOK, AgainOK, MainOK, Counts

\* The counters, and that the first block on 51job ends the main pass.
LEMMA TallyIs ==
  ASSUME DetailsAssumption, count \in Counts, NEW o \in Details!Outcome
  PROVE  /\ Details!Tally(o) \in Counts
         /\ Details!Bail(o) = "no" => ~(o = "waf_block" /\ crawled = "51job")
<1>1. CASE o \in {"success", "unavailable"}
  BY <1>1 DEF Details!Tally, Counts
<1>2. CASE o = "timeout"
  <2>1. Details!Tally(o) = [count EXCEPT !.cookie = @ + 1, !.timeout = @ + 1]
    BY <1>2 DEF Details!Tally
  <2>2. [count EXCEPT !.cookie = @ + 1] \in Counts
    BY DEF Counts
  <2>3. ASSUME NEW k \in Counts PROVE [k EXCEPT !.timeout = @ + 1] \in Counts
    BY DEF Counts
  <2> QED
    BY <1>2, <2>1, <2>2, <2>3
<1>3. CASE o = "cookie_retry"
  <2>1. Details!Tally(o) = [count EXCEPT !.cookie = @ + 1, !.waf = 0]
    BY <1>3 DEF Details!Tally
  <2>2. [count EXCEPT !.cookie = @ + 1] \in Counts
    BY DEF Counts
  <2>3. ASSUME NEW k \in Counts PROVE [k EXCEPT !.waf = 0] \in Counts
    BY DEF Counts
  <2> QED
    BY <1>3, <2>1, <2>2, <2>3
<1>4. CASE o = "retry"
  BY <1>4 DEF Details!Tally, Counts
<1>5. CASE o = "waf_block"
  <2>1. Details!Tally(o) = [count EXCEPT !.waf = count.waf + 1]
    BY <1>5 DEF Details!Tally, Counts
  <2>2. Details!Tally(o) \in Counts /\ Details!Tally(o).waf = count.waf + 1 /\ count.waf \in Nat
    BY <2>1 DEF Counts
  <2>3. Details!Tally(o).waf >= WafLimit
    BY <2>2 DEF DetailsAssumption
  <2>4. crawled = "51job" => Details!Bail(o) = "waf"
    BY <1>5, <2>3 DEF Details!Bail
  <2> QED
    BY <2>2, <2>4
<1> QED
  BY <1>1, <1>2, <1>3, <1>4, <1>5 DEF Details!Outcome

LEMMA MainPassKeeps ==
  ASSUME DetailsAssumption, DetailsInv, NEW o \in Details!Outcome, Details!MainPass(o)
  PROVE  DetailsInv'
<1>1. /\ pass = "main" /\ at \in Details!Job /\ at \in Nat /\ first[at] = "none" /\ MainOK
      /\ again \in Seq(Nat) /\ count \in Counts
      /\ first \in [Details!Job -> {"none"} \cup Details!Outcome]
  <2>1. pass = "main" /\ at <= Detail /\ at \in 1..Detail
    BY DEF Details!MainPass, DetailsInv, DetailsTypeOK
  <2> QED
    BY <2>1 DEF Details!MainPass, DetailsInv, DetailsTypeOK, Details!Job
<1>2. /\ first' = [first EXCEPT ![at] = o] /\ at' = at + 1
      /\ again' = IF o \in {"cookie_retry", "retry"} THEN Append(again, at) ELSE again
      /\ bailed' = Details!Bail(o) /\ UNCHANGED <<crawled, repeated>>
      /\ pass' = IF Details!Bail(o) # "no" \/ at = Detail THEN "retry" ELSE "main"
  BY DEF Details!MainPass
<1>3. count' \in Counts
  <2>1. Details!Tally(o) \in Counts
    BY <1>1, TallyIs
  <2>2. count' \in {[Details!Tally(o) EXCEPT !.cookie = 0, !.cooldown = @ + 1], Details!Tally(o)}
    BY DEF Details!MainPass
  <2>3. ASSUME NEW k \in Counts PROVE [k EXCEPT !.cookie = 0] \in Counts /\ [k EXCEPT !.cooldown = @ + 1] \in Counts
    BY DEF Counts
  <2> QED
    BY <2>1, <2>2, <2>3
<1>4. DetailsTypeOK'
  BY <1>1, <1>2, <1>3 DEF DetailsTypeOK
<1>5. \A i \in Details!Job : i >= at' => first'[i] = "none"
  BY <1>1, <1>2 DEF DetailsInv, Details!Job
<1>6. \A i \in Details!Job \ {at} : first'[i] = first[i]
  BY <1>1, <1>2
<1>7. AgainOK'
  <2>1. CASE again' = again
    <3>1. \A n \in 1..Len(again) : again[n] < at' /\ first'[again[n]] = first[again[n]]
      BY <1>1, <1>2, <1>6 DEF DetailsInv, AgainOK, Details!Job
    <3> QED
      BY <1>2, <2>1, <3>1 DEF DetailsInv, AgainOK
  <2>2. CASE again' = Append(again, at) /\ o \in {"cookie_retry", "retry"}
    <3>1. /\ Len(again') = Len(again) + 1 /\ Len(again) \in Nat /\ again'[Len(again) + 1] = at
          /\ \A n \in 1..Len(again) : again'[n] = again[n]
      BY <1>1, <2>2
    <3>2. \A n \in 1..Len(again) : again[n] < at' /\ again[n] < at /\ first'[again[n]] = first[again[n]]
      BY <1>1, <1>2, <1>6 DEF DetailsInv, AgainOK, Details!Job
    <3>3. first'[at] = o /\ at < at' /\ repeated' = {}
      BY <1>1, <1>2 DEF MainOK
    <3>4. \A n \in 1..Len(again') :
            /\ again'[n] \in Details!Job /\ again'[n] < at'
            /\ first'[again'[n]] \in {"retry", "cookie_retry"}
            /\ \A i \in repeated' : i < again'[n]
      <4> SUFFICES ASSUME NEW n \in 1..Len(again')
                   PROVE  /\ again'[n] \in Details!Job /\ again'[n] < at'
                          /\ first'[again'[n]] \in {"retry", "cookie_retry"}
        BY <3>3
      <4>1. CASE n = Len(again) + 1
        BY <1>1, <2>2, <3>1, <3>3, <4>1
      <4>2. CASE n \in 1..Len(again)
        BY <3>1, <3>2, <4>2 DEF DetailsInv, AgainOK
      <4> QED
        BY <3>1, <4>1, <4>2
    <3>5. \A m, n \in 1..Len(again') : m < n => again'[m] < again'[n]
      <4> SUFFICES ASSUME NEW m \in 1..Len(again'), NEW n \in 1..Len(again'), m < n
                   PROVE  again'[m] < again'[n]
        OBVIOUS
      <4>1. CASE n = Len(again) + 1
        BY <3>1, <3>2, <4>1
      <4>2. CASE n \in 1..Len(again)
        BY <3>1, <4>2 DEF DetailsInv, AgainOK
      <4> QED
        BY <3>1, <4>1, <4>2
    <3> QED
      BY <3>4, <3>5 DEF AgainOK
  <2> QED
    BY <1>2, <2>1, <2>2
<1>8. pass' = "main" => MainOK'
  <2> SUFFICES ASSUME Details!Bail(o) = "no", pass' = "main" PROVE MainOK'
    BY <1>2
  <2>1. crawled = "51job" => o # "waf_block"
    BY <1>1, TallyIs
  <2> QED
    BY <1>1, <1>2, <1>6, <2>1 DEF MainOK
<1> QED
  BY <1>2, <1>4, <1>5, <1>7, <1>8 DEF DetailsInv

LEMMA RetryPassKeeps ==
  ASSUME DetailsInv, NEW o \in Details!Outcome, Details!RetryPass(o)
  PROVE  DetailsInv'
<1>1. /\ pass = "retry" /\ again \in Seq(Nat) /\ again # <<>>
      /\ again' = Tail(again) /\ repeated' = repeated \cup {Head(again)}
      /\ UNCHANGED <<crawled, pass, at, count, first, bailed>>
  BY DEF Details!RetryPass, DetailsInv, DetailsTypeOK
<1>2. /\ Len(again) \in Nat \ {0} /\ again' \in Seq(Nat) /\ Len(again') = Len(again) - 1
      /\ Head(again) = again[1] /\ \A n \in 1..Len(again') : again'[n] = again[n + 1]
  BY <1>1
<1>3. DetailsTypeOK'
  BY <1>1, <1>2 DEF DetailsInv, DetailsTypeOK
<1>4. \A n \in 1..Len(again') : n + 1 \in 1..Len(again) /\ 1 \in 1..Len(again) /\ 1 < n + 1
  BY <1>2
<1>5. \A n \in 1..Len(again') :
        /\ again'[n] \in Details!Job /\ again'[n] < at'
        /\ first'[again'[n]] \in {"retry", "cookie_retry"}
        /\ \A i \in repeated' : i < again'[n]
  BY <1>1, <1>2, <1>4 DEF DetailsInv, AgainOK
<1>6. \A m, n \in 1..Len(again') : m < n => again'[m] < again'[n]
  <2> SUFFICES ASSUME NEW m \in 1..Len(again'), NEW n \in 1..Len(again'), m < n
               PROVE  again[m + 1] < again[n + 1]
    BY <1>2
  <2>1. m + 1 \in 1..Len(again) /\ n + 1 \in 1..Len(again) /\ m + 1 < n + 1
    BY <1>2
  <2> QED
    BY <2>1 DEF DetailsInv, AgainOK
<1>7. repeated' \subseteq Details!Job
  <2>1. again[1] \in Details!Job
    BY <1>2 DEF DetailsInv, AgainOK
  <2> QED
    BY <1>1, <1>2, <2>1 DEF DetailsInv
<1> QED
  BY <1>1, <1>3, <1>5, <1>6, <1>7 DEF DetailsInv, AgainOK

LEMMA DetailsStepInv ==
  DetailsAssumption /\ DetailsInv /\ [Details!Next]_(Details!vars) => DetailsInv'
<1> SUFFICES ASSUME DetailsAssumption, DetailsInv, [Details!Next]_(Details!vars) PROVE DetailsInv'
  OBVIOUS
<1>1. CASE Details!Leave
  BY <1>1 DEF Details!Leave, DetailsInv, DetailsTypeOK, AgainOK, MainOK
<1>2. CASE UNCHANGED Details!vars
  BY <1>2 DEF Details!vars, DetailsInv, DetailsTypeOK, AgainOK, MainOK
<1> QED
  BY <1>1, <1>2, MainPassKeeps, RetryPassKeeps DEF Details!Next

\* For any number of jobs and any limits but that of WAF blocks: a job is
\* requested once more only if that is worth it, never a third time, and
\* nothing new is requested after the main pass has bailed out.
THEOREM RequestsJustified == ASSUME DetailsAssumption PROVE Details!Spec => RequestsAreJustified
<1> DEFINE Justified == \A i \in Details!Job :
       /\ first'[i] # first[i] =>
            /\ first[i] = "none" /\ bailed = "no"
            /\ crawled = "51job" => \A j \in Details!Job : first[j] # "waf_block"
       /\ i \in repeated' \ repeated => first[i] \in {"retry", "cookie_retry"}
       /\ i \in repeated /\ again # <<>> => i # Head(again)
<1>1. DetailsInv /\ [Details!Next]_(Details!vars) => [Justified]_(Details!vars)
  <2> SUFFICES ASSUME DetailsInv, Details!Next, NEW i \in Details!Job
               PROVE  /\ first'[i] # first[i] =>
                           /\ first[i] = "none" /\ bailed = "no"
                           /\ crawled = "51job" => \A j \in Details!Job : first[j] # "waf_block"
                      /\ i \in repeated' \ repeated => first[i] \in {"retry", "cookie_retry"}
                      /\ i \in repeated /\ again # <<>> => i # Head(again)
    OBVIOUS
  <2>1. again # <<>> =>
          /\ again \in Seq(Nat) /\ Head(again) = again[1] /\ 1 \in 1..Len(again)
          /\ first[again[1]] \in {"retry", "cookie_retry"} /\ again[1] \in Nat
          /\ \A k \in repeated : k < again[1]
    <3> SUFFICES ASSUME again # <<>>
                 PROVE  /\ again \in Seq(Nat) /\ Head(again) = again[1] /\ 1 \in 1..Len(again)
                        /\ first[again[1]] \in {"retry", "cookie_retry"} /\ again[1] \in Nat
                        /\ \A k \in repeated : k < again[1]
      OBVIOUS
    <3>1. again \in Seq(Nat) /\ Head(again) = again[1] /\ 1 \in 1..Len(again)
      BY DEF DetailsInv, DetailsTypeOK
    <3> QED
      BY <3>1 DEF DetailsInv, AgainOK
  <2>2. i \in repeated /\ again # <<>> => i # Head(again)
    BY <2>1
  <2>3. i \in repeated' \ repeated => first[i] \in {"retry", "cookie_retry"}
    BY <2>1 DEF Details!Next, Details!MainPass, Details!RetryPass, Details!Leave
  <2>4. ASSUME first'[i] # first[i] PROVE i = at /\ pass = "main" /\ first[at] = "none"
    <3>1. PICK o \in Details!Outcome : Details!MainPass(o)
      BY <2>4 DEF Details!Next, Details!RetryPass, Details!Leave
    <3>2. i = at
      BY <2>4, <3>1 DEF Details!MainPass, DetailsInv, DetailsTypeOK
    <3> QED
      BY <3>1, <3>2 DEF Details!MainPass, DetailsInv, DetailsTypeOK, Details!Job
  <2> QED
    BY <2>2, <2>3, <2>4 DEF DetailsInv, MainOK
<1> HIDE DEF Justified
<1>2. DetailsInv /\ [Details!Next]_(Details!vars) => DetailsInv'
  BY DetailsStepInv
<1>3. Details!Spec => [][Justified]_(Details!vars)
  BY <1>1, <1>2, DetailsInitInv, PTL DEF Details!Spec
<1> QED
  BY <1>3 DEF RequestsAreJustified, Details!RequestsAreJustified, Justified

---------------------------------------------------------------------------
(* PlatformSearch.  As long as nothing is withdrawn, a listed job can only  *)
(* move to a later page.                                                    *)

SearchAssumption == PageSize \in Nat /\ MaxJobs \in Nat

\* What has been listed all the while and is on a page before the next one has
\* been found.
Behind ==
  \A i \in 1..Len(listed) :
    i <= (sheet - 1) * PageSize /\ listed[i] \in kept => listed[i] \in found

Still ==
  /\ listed \in Seq(Listed)
  /\ kept \subseteq Search!Range(listed)
  /\ where \notin {"start", "done"} => Behind

SearchInv ==
  /\ sheet \in Nat \ {0}
  /\ where = "start" => sheet = 1
  /\ gap = "none" => Still
  /\ Search!NothingOverlooked

\* The places of a page.
LEMMA OnPage ==
  ASSUME SearchAssumption, listed \in Seq(Listed), NEW n \in Nat \ {0},
         NEW i \in 1..Len(listed), i > (n - 1) * PageSize, i <= n * PageSize
  PROVE  listed[i] \in Search!Range(Search!Page(n))
<1> DEFINE from == (n - 1) * PageSize
           to == Search!Least(n * PageSize, Len(listed))
           k == i - from
<1>1. from \in Nat /\ n * PageSize \in Nat
  BY DEF SearchAssumption
<1>2. to \in Nat /\ to <= Len(listed) /\ i <= to /\ i > from /\ from + 1 \in Nat \ {0}
  BY <1>1 DEF Search!Least
<1>3. Search!Page(n) = SubSeq(listed, from + 1, to)
  BY DEF Search!Page
<1> HIDE DEF from, to
<1>4. k \in 1..(to - from)
  BY <1>1, <1>2
<1>5. SubSeq(listed, from + 1, to) = [m \in 1..(to - from) |-> listed[from + m]]
  BY <1>1, <1>2
<1>6. from + k = i
  BY <1>1, <1>2
<1>7. k \in DOMAIN Search!Page(n) /\ Search!Page(n)[k] = listed[i]
  BY <1>3, <1>4, <1>5, <1>6
<1> HIDE DEF k
<1> QED
  BY <1>7 DEF Search!Range

\* After the next page nothing is missing of the pages so far.
LEMMA PageFinds ==
  ASSUME SearchAssumption, sheet \in Nat \ {0}, Still, where \notin {"start", "done"},
         NEW jobs_, found \cup Search!Range(Search!Page(sheet)) \subseteq jobs_,
         NEW i \in 1..Len(listed), i <= sheet * PageSize, listed[i] \in kept
  PROVE  listed[i] \in jobs_
<1>1. (sheet - 1) * PageSize \in Nat
  BY DEF SearchAssumption
<1>2. CASE i <= (sheet - 1) * PageSize
  BY <1>2 DEF Still, Behind
<1>3. CASE i > (sheet - 1) * PageSize
  BY <1>3, OnPage DEF Still
<1> QED
  BY <1>1, <1>2, <1>3

\* If it is the last one, nothing is missing at all.
LEMMA LastPageFinds ==
  ASSUME SearchAssumption, sheet \in Nat \ {0}, Still, where \notin {"start", "done"},
         NEW jobs_, found \cup Search!Range(Search!Page(sheet)) \subseteq jobs_,
         ~Search!More(sheet)
  PROVE  kept \subseteq jobs_
<1> SUFFICES ASSUME NEW l \in kept PROVE l \in jobs_
  OBVIOUS
<1>1. PICK i \in 1..Len(listed) : listed[i] = l
  BY DEF Still, Search!Range
<1>2. Len(listed) \in Nat /\ sheet * PageSize \in Nat
  BY DEF Still, SearchAssumption
<1>3. i <= sheet * PageSize
  BY <1>2 DEF Search!More
<1> QED
  BY <1>1, <1>3, PageFinds

\* A page that is not the last one.
LEMMA NextPage ==
  ASSUME SearchAssumption, sheet \in Nat \ {0}, Still, where \notin {"start", "done"},
         found \cup Search!Range(Search!Page(sheet)) \subseteq found',
         sheet' = sheet + 1, UNCHANGED <<listed, kept>>
  PROVE  Still'
<1>1. sheet' - 1 = sheet
  OBVIOUS
<1>2. Behind'
  BY <1>1, PageFinds DEF Behind
<1> QED
  BY <1>2 DEF Still

LEMMA SearchInitInv == ASSUME SearchAssumption PROVE Search!Init => SearchInv
<1> SUFFICES ASSUME Search!Init PROVE SearchInv
  OBVIOUS
<1>1. listed \in Seq(Listed)
  <2>1. PICK n \in Nat : listed \in [1..n -> Listed]
    <3>1. PICK n \in 0..Search!Cardinality(Listed) : listed \in [1..n -> Listed]
      BY DEF Search!Init
    <3>2. CASE n \in Nat
      BY <3>1, <3>2
    <3> QED
      BY <3>1, <3>2
  <2> QED
    BY <2>1
<1> QED
  BY <1>1 DEF Search!Init, SearchInv, Still, Search!NothingOverlooked, Search!NoAnswer

\* The site posts a job before the others.
LEMMA PostKeeps ==
  ASSUME SearchAssumption, SearchInv, NEW j \in Listed, Search!Post(j)
  PROVE  SearchInv'
<1>1. /\ where \notin {"start", "done"} /\ j \notin Search!Range(listed)
      /\ listed' = <<j>> \o listed
      /\ UNCHANGED <<where, sheet, found, kept, gap>>
  BY DEF Search!Post
<1>2. ASSUME gap = "none" PROVE Still'
  <2>1. Still /\ listed \in Seq(Listed)
    BY <1>2 DEF SearchInv, Still
  <2>2. /\ listed' \in Seq(Listed) /\ Len(listed') = Len(listed) + 1
        /\ listed'[1] = j
        /\ \A i \in 1..Len(listed) : listed'[i + 1] = listed[i]
    BY <1>1, <2>1
  <2>3. Search!Range(listed) \subseteq Search!Range(listed')
    <3> SUFFICES ASSUME NEW i \in 1..Len(listed) PROVE listed[i] \in Search!Range(listed')
      BY <2>1 DEF Search!Range
    <3>1. i + 1 \in DOMAIN listed' /\ listed'[i + 1] = listed[i]
      BY <2>1, <2>2
    <3> QED
      BY <3>1 DEF Search!Range
  <2>4. j \notin kept
    BY <1>1, <2>1 DEF Still
  <2>5. Behind'
    <3> SUFFICES ASSUME NEW i \in 1..Len(listed'), i <= (sheet - 1) * PageSize, listed'[i] \in kept
                 PROVE  listed'[i] \in found
      BY <1>1 DEF Behind
    <3>1. i # 1 /\ i - 1 \in 1..Len(listed) /\ listed'[i] = listed[i - 1]
      BY <2>1, <2>2, <2>4
    <3>2. i - 1 <= (sheet - 1) * PageSize
      <4>1. (sheet - 1) * PageSize \in Nat
        BY DEF SearchInv, SearchAssumption
      <4> QED
        BY <4>1
    <3> QED
      BY <1>1, <2>1, <3>1, <3>2 DEF Still, Behind
  <2> QED
    BY <1>1, <2>1, <2>2, <2>3, <2>5 DEF Still
<1> QED
  BY <1>1, <1>2 DEF SearchInv, Search!NothingOverlooked

\* The pages of boss and 51job.
LEMMA PageKeeps ==
  ASSUME SearchAssumption, SearchInv, Search!BossPage \/ Search!Job51Page
  PROVE  SearchInv'
<1>1. /\ where \notin {"start", "done"} /\ UNCHANGED <<listed, kept>>
      /\ \/ where' = "done" /\ UNCHANGED sheet /\ answer'.jobs = found'
         \/ where' \in {"page", "again"} /\ sheet' = sheet + 1
      /\ found \subseteq found'
  <2>1. CASE Search!BossPage
    BY <2>1 DEF Search!BossPage, Search!Reply
  <2>2. CASE Search!Job51Page
    BY <2>2 DEF Search!Job51Page, Search!Reply
  <2> QED
    BY <2>1, <2>2
<1>2. sheet \in Nat \ {0} /\ (gap = "none" => Still)
  BY DEF SearchInv
\* Unless something is cut off, the whole page is added.
<1>3. ASSUME gap' = "none"
      PROVE  /\ gap = "none" /\ Search!Range(Search!Page(sheet)) \subseteq found'
             /\ where' = "done" => ~Search!More(sheet)
  <2>1. CASE Search!BossPage
    <3>1. PICK new \in SUBSET (Search!Range(Search!Page(sheet)) \ found) :
            /\ Search!Taken(sheet, new) /\ found' = found \cup new
            /\ \/ /\ Search!Cardinality(found \cup new) >= MaxJobs \/ where' = "done"
                  /\ gap' = IF gap = "none" /\ (Search!More(sheet) \/ ~(Search!Range(Search!Page(sheet)) \subseteq found \cup new))
                            THEN "limit" ELSE gap
               \/ /\ ~(Search!Cardinality(found \cup new) >= MaxJobs) /\ where' = "page"
                  /\ gap' = gap
      BY <2>1 DEF Search!BossPage, Search!Reply
    <3>2. CASE ~(Search!Cardinality(found \cup new) >= MaxJobs) /\ where' = "page" /\ gap' = gap
      BY <1>3, <3>1, <3>2 DEF Search!Taken, SearchAssumption
    <3> QED
      BY <1>3, <3>1, <3>2
  <2>2. CASE Search!Job51Page
    BY <1>3, <2>2 DEF Search!Job51Page, Search!Reply
  <2> QED
    BY <2>1, <2>2
<1>4. CASE where' = "done"
  <2>1. UNCHANGED sheet /\ answer'.jobs = found'
    BY <1>1, <1>4
  <2>2. gap' = "none" => Still' /\ kept' \subseteq answer'.jobs
    BY <1>1, <1>2, <1>3, <1>4, <2>1, LastPageFinds DEF Still
  <2> QED
    BY <1>2, <1>4, <2>1, <2>2 DEF SearchInv, Search!NothingOverlooked
<1>5. CASE where' \in {"page", "again"} /\ sheet' = sheet + 1
  <2>1. gap' = "none" => Still'
    BY <1>1, <1>2, <1>3, <1>5, NextPage
  <2> QED
    BY <1>2, <1>5, <2>1 DEF SearchInv, Search!NothingOverlooked
<1> QED
  BY <1>1, <1>4, <1>5

\* The only page of liepin.
LEMMA LiepinPageKeeps ==
  ASSUME SearchAssumption, SearchInv, Search!LiepinPage
  PROVE  SearchInv'
<1>1. /\ where = "page" /\ where' = "done" /\ UNCHANGED <<listed, kept, sheet>>
      /\ found' = Search!Range(Search!Page(1))
      /\ answer'.success => answer'.jobs = found'
      /\ gap' = "none" => gap = "none" /\ ~Search!More(1)
  BY DEF Search!LiepinPage, Search!Reply
<1>2. sheet \in Nat \ {0} /\ (gap = "none" => Still)
  BY DEF SearchInv
<1>3. ASSUME gap' = "none" PROVE kept \subseteq found'
  <2> SUFFICES ASSUME NEW l \in kept PROVE l \in found'
    OBVIOUS
  <2>1. PICK i \in 1..Len(listed) : listed[i] = l
    BY <1>1, <1>2, <1>3 DEF Still, Search!Range
  <2>2. i > (1 - 1) * PageSize /\ i <= 1 * PageSize
    BY <1>1, <1>2, <1>3 DEF Still, Search!More, SearchAssumption
  <2> QED
    BY <1>1, <1>2, <1>3, <2>1, <2>2, OnPage DEF Still
<1>4. gap' = "none" => Still'
  BY <1>1, <1>2 DEF Still
<1> QED
  BY <1>1, <1>2, <1>3, <1>4 DEF SearchInv, Search!NothingOverlooked

\* What ends in an error.
LEMMA FailureKeeps ==
  ASSUME SearchInv,
         Search!Raise \/ Search!BossFails \/ Search!Job51Blocked \/ Search!LiepinFails
  PROVE  SearchInv'
<1>1. /\ where' = "done" /\ ~answer'.success
      /\ UNCHANGED <<listed, kept, sheet, found, gap>>
  BY DEF Search!Raise, Search!BossFails, Search!Job51Blocked, Search!LiepinFails, Search!Reply
<1> QED
  BY <1>1 DEF SearchInv, Still, Search!NothingOverlooked

LEMMA SearchStepInv ==
  ASSUME SearchAssumption, SearchInv, [Search!Next]_(Search!vars)
  PROVE  SearchInv'
<1>1. CASE \E j \in Listed : Search!Post(j)
  BY <1>1, PostKeeps
<1>2. CASE \E j \in Listed : Search!Withdraw(j)
  <2>1. gap' # "none" /\ where \notin {"start", "done"} /\ UNCHANGED <<where, sheet>>
    BY <1>2 DEF Search!Withdraw
  <2> QED
    BY <2>1 DEF SearchInv, Search!NothingOverlooked
<1>3. CASE Search!Start
  <2>1. /\ where = "start" /\ where' = "page" /\ kept' = Search!Range(listed)
        /\ UNCHANGED <<listed, sheet, found, gap>>
    BY <1>3 DEF Search!Start
  <2>2. sheet = 1 /\ (sheet' - 1) * PageSize = 0
    BY <2>1 DEF SearchInv, SearchAssumption
  <2>3. gap' = "none" => Still'
    BY <2>1, <2>2 DEF SearchInv, Still, Behind
  <2> QED
    BY <2>1, <2>2, <2>3 DEF SearchInv, Search!NothingOverlooked
<1>4. CASE Search!BossRefresh
  <2>1. /\ where = "page" /\ where' = "again"
        /\ UNCHANGED <<listed, sheet, found, gap, kept>>
    BY <1>4 DEF Search!BossRefresh
  <2> QED
    BY <2>1 DEF SearchInv, Still, Behind, Search!NothingOverlooked
<1>5. CASE UNCHANGED Search!vars
  BY <1>5 DEF Search!vars, SearchInv, Still, Behind, Search!NothingOverlooked, Search!More
<1> HIDE DEF SearchInv
<1> QED
  BY <1>1, <1>2, <1>3, <1>4, <1>5, PageKeeps, LiepinPageKeeps, FailureKeeps DEF Search!Next

\* For any number of pages, jobs and shifts of the list: a search that answers
\* with success has found every job that was listed all the while, unless a
\* limit cut the list off or jobs were withdrawn.
THEOREM SearchesFindAll == ASSUME SearchAssumption PROVE Search!Spec => []NothingOverlooked
<1>1. SearchInv => NothingOverlooked
  BY DEF SearchInv, NothingOverlooked
<1> QED
  BY <1>1, SearchInitInv, SearchStepInv, PTL DEF Search!Spec
=============================================================================
