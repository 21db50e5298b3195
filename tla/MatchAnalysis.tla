--------------------------- MODULE MatchAnalysis ---------------------------
(***************************************************************************)
(* Resume-job match analysis (match_service.py) for one resume: requests   *)
(* and crawls enqueue durable tasks for the jobs whose analysis is missing *)
(* or older than the job, workers ask the LLM about each job, store each   *)
(* answer in a transaction of its own and announce the good ones at the    *)
(* end, while crawls edit the jobs and users delete jobs and resume.       *)
(*                                                                         *)
(* Times are values of one clock that ticks whenever somebody takes one.   *)
(***************************************************************************)
EXTENDS Naturals, FiniteSets

CONSTANTS
  Job,       \* rows of the jobs table
  Task,      \* analysis tasks for the resume
  MaxEdits   \* bound on the edits of jobs

VARIABLES
  now,       \* the clock
  edits,     \* edits so far
  job,       \* job[j]: text (a version), complete (the required fields), updated
  editing,   \* editing[j]: last_updated_at of an edit not committed, or 0
  resume,    \* the resume exists
  result,    \* result[j]: the row of jobs_match_results, or NoResult
  task,      \* task[t]: the row of crawl_tasks
  untold,    \* untold[t]: the total that the enqueuer has not stored yet, or 0
  run,       \* run[t]: the coroutine that executes t
  announced  \* announced[t]: the jobs in t's notification

jobs == <<now, edits, job, editing>>
vars == <<jobs, resume, result, task, untold, run, announced>>

NoResult == [text |-> 0, at |-> 0, good |-> FALSE, by |-> "nobody"]
Deleted == [text |-> 0, complete |-> FALSE, updated |-> 0]
NoTask == [status |-> "absent", jobs |-> {}, total |-> 0, success |-> 0, errors |-> 0]

\* todo: jobs to ask about, or whose answer is to be stored; text: the texts
\* sent; began: when the open transaction began, or 0; good: notify_jobs.
Idle == [stage |-> "idle", todo |-> {}, text |-> [j \in Job |-> 0], began |-> 0,
         total |-> 0, success |-> 0, errors |-> 0, good |-> {}]

Init ==
  /\ now = 1 /\ edits = 0
  /\ job \in [Job -> {Deleted} \cup [text : {1}, complete : BOOLEAN, updated : {1}]]
  /\ editing = [j \in Job |-> 0]
  /\ resume = TRUE
  /\ result = [j \in Job |-> NoResult]
  /\ task = [t \in Task |-> NoTask]
  /\ untold = [t \in Task |-> 0]
  /\ run = [t \in Task |-> Idle]
  /\ announced = [t \in Task |-> {}]

Exists(j) == job[j] # Deleted

\* _get_jobs_needing_analysis
NeedsAnalysis(j) == Exists(j) /\ (result[j] = NoResult \/ job[j].updated > result[j].at)

---------------------------------------------------------------------------
(* Enqueueing                                                              *)

\* The first commit of the enqueuer: the task can be claimed from here on.
Enqueue(t, candidates) ==
  LET need == {j \in candidates : NeedsAnalysis(j)}
  IN /\ task[t] = NoTask /\ resume /\ need # {}
     /\ task' = [task EXCEPT ![t] = [NoTask EXCEPT !.status = "pending", !.jobs = need]]
     /\ untold' = [untold EXCEPT ![t] = Cardinality(need)]
     /\ UNCHANGED <<jobs, resume, result, run, announced>>

\* A user names jobs, or none, which means all
RequestAnalysis(t) == \E candidates \in SUBSET Job : Enqueue(t, candidates)

\* A crawl, at the end of process_job_results, names the jobs it has added
AnalyzeNew(t) ==
  \E new \in SUBSET {j \in Job : Exists(j) /\ result[j] = NoResult} : Enqueue(t, new)

\* The second commit of the enqueuer: total alone, by primary key.
StoreTotal(t) ==
  /\ untold[t] # 0
  /\ task' = [task EXCEPT ![t].total = untold[t]]
  /\ untold' = [untold EXCEPT ![t] = 0]
  /\ UNCHANGED <<jobs, resume, result, run, announced>>

---------------------------------------------------------------------------
(* Executing                                                               *)

\* What the progress callback writes.
Persisted(t, status, r) ==
  [task[t] EXCEPT !.status = status, !.total = r.total,
                  !.success = r.success, !.errors = r.errors]

End(t, status, r) ==
  /\ task' = [task EXCEPT ![t] = Persisted(t, status, r)]
  /\ run' = [run EXCEPT ![t] = Idle]

Claim(t) ==
  /\ task[t].status = "pending"
  /\ task' = [task EXCEPT ![t].status = "running"]
  /\ run' = [run EXCEPT ![t].stage = "claimed"]
  /\ UNCHANGED <<jobs, resume, result, untold, announced>>

\* resume_not_found, or all_up_to_date.
NothingToDo(t) ==
  /\ run[t].stage = "claimed"
  /\ \/ ~resume /\ End(t, "failed", run[t])
     \/ resume /\ (\A j \in task[t].jobs : ~NeedsAnalysis(j)) /\ End(t, "completed", run[t])
  /\ UNCHANGED <<jobs, resume, result, untold, announced>>

\* Resume and jobs are read in one transaction; a job without the required
\* fields counts as an error.
Load(t) ==
  LET need == {j \in task[t].jobs : NeedsAnalysis(j)}
      valid == {j \in need : job[j].complete}
      loaded == [run[t] EXCEPT !.stage = "storing", !.todo = valid,
                   !.text = [j \in Job |-> IF j \in valid THEN job[j].text ELSE 0],
                   !.began = now + 1, !.total = Cardinality(need),
                   !.errors = Cardinality(need \ valid)]
  IN /\ run[t].stage = "claimed" /\ resume /\ need # {}
     /\ now' = now + 1
     /\ run' = [run EXCEPT ![t] = loaded]
     /\ task' = [task EXCEPT ![t] = Persisted(t, "running", [loaded EXCEPT !.errors = 0])]
     /\ UNCHANGED <<edits, job, editing, resume, result, untold, announced>>

\* Seeded error: an exception is skipped without being counted.
NoAnswerUncounted(t, j) ==
  /\ run[t].stage = "storing" /\ j \in run[t].todo
  /\ run' = [run EXCEPT ![t].todo = @ \ {j}]
  /\ UNCHANGED <<jobs, resume, result, task, untold, announced>>

\* asyncio.gather has returned an exception for this job.
NoAnswer(t, j) ==
  /\ run[t].stage = "storing" /\ j \in run[t].todo
  /\ run' = [run EXCEPT ![t].todo = @ \ {j}, ![t].errors = @ + 1]
  /\ UNCHANGED <<jobs, resume, result, task, untold, announced>>

\* upsert_match_result and its commit.  An INSERT takes the time of the
\* statement, the UPDATE of a conflict the time its transaction began.
Store(t, j, good) ==
  /\ run[t].stage = "storing" /\ j \in run[t].todo
  /\ resume /\ Exists(j)
  /\ LET inserts == result[j] = NoResult \/ run[t].began = 0
     IN /\ now' = IF inserts THEN now + 1 ELSE now
        /\ result' = [result EXCEPT ![j] =
             [text |-> run[t].text[j], at |-> IF inserts THEN now + 1 ELSE run[t].began,
              good |-> good, by |-> t]]
  /\ run' = [run EXCEPT ![t].todo = @ \ {j}, ![t].success = @ + 1, ![t].began = 0,
                        ![t].good = IF good THEN @ \cup {j} ELSE @]
  /\ UNCHANGED <<edits, job, editing, resume, task, untold, announced>>

\* The foreign key of the upsert fails on a job or resume deleted since Load;
\* the executor marks the task and the other answers are lost.
StoreFails(t, j) ==
  /\ run[t].stage = "storing" /\ j \in run[t].todo
  /\ ~(resume /\ Exists(j))
  /\ End(t, "failed", run[t])
  /\ UNCHANGED <<jobs, resume, result, untold, announced>>

\* One message for the good results; a failed delivery is only logged.
Announce(t) ==
  /\ run[t].stage = "storing" /\ run[t].todo = {}
  /\ announced' = [announced EXCEPT ![t] = run[t].good]
  /\ run' = [run EXCEPT ![t].stage = "announced"]
  /\ task' = [task EXCEPT ![t] = Persisted(t, "running", run[t])]
  /\ UNCHANGED <<jobs, resume, result, untold>>

\* Seeded error: the result is stored before the message is sent.
FinishBeforeMessage(t) ==
  /\ run[t].stage = "storing" /\ run[t].todo = {}
  /\ End(t, IF run[t].success = 0 THEN "failed" ELSE "completed", run[t])
  /\ UNCHANGED <<jobs, resume, result, untold, announced>>

Finish(t) ==
  /\ run[t].stage = "announced"
  /\ LET failed == run[t].success = 0 /\ run[t].errors > 0
     IN End(t, IF failed THEN "failed" ELSE "completed", run[t])
  /\ UNCHANGED <<jobs, resume, result, untold, announced>>

\* The worker dies; recover_stale_running_tasks fails the task later.
Die(t) ==
  /\ run[t].stage # "idle"
  /\ run' = [run EXCEPT ![t] = Idle]
  /\ task' = [task EXCEPT ![t].status = "failed"]
  /\ UNCHANGED <<jobs, resume, result, untold, announced>>

---------------------------------------------------------------------------
(* Jobs and resume                                                         *)

\* A crawl takes last_updated_at when it changes the object ...
BeginEdit(j) ==
  /\ Exists(j) /\ editing[j] = 0 /\ edits < MaxEdits
  /\ edits' = edits + 1
  /\ now' = now + 1
  /\ editing' = [editing EXCEPT ![j] = now + 1]
  /\ UNCHANGED <<job, resume, result, task, untold, run, announced>>

\* Seeded error: a changed text leaves last_updated_at alone.
CommitTextOnly(j) ==
  /\ Exists(j) /\ editing[j] # 0
  /\ \E complete \in BOOLEAN :
       job' = [job EXCEPT ![j].text = @ + 1, ![j].complete = complete]
  /\ editing' = [editing EXCEPT ![j] = 0]
  /\ UNCHANGED <<now, edits, resume, result, task, untold, run, announced>>

\* ... and commits after its notification.
CommitEdit(j) ==
  /\ Exists(j) /\ editing[j] # 0
  /\ \E complete \in BOOLEAN :
       job' = [job EXCEPT ![j] = [text |-> @.text + 1, complete |-> complete,
                                  updated |-> editing[j]]]
  /\ editing' = [editing EXCEPT ![j] = 0]
  /\ UNCHANGED <<now, edits, resume, result, task, untold, run, announced>>

\* With its config; the results go with it, and an edit in flight fails.
DeleteJob(j) ==
  /\ Exists(j)
  /\ job' = [job EXCEPT ![j] = Deleted]
  /\ editing' = [editing EXCEPT ![j] = 0]
  /\ result' = [result EXCEPT ![j] = NoResult]
  /\ UNCHANGED <<now, edits, resume, task, untold, run, announced>>

DeleteResume ==
  /\ resume
  /\ resume' = FALSE
  /\ result' = [j \in Job |-> NoResult]
  /\ UNCHANGED <<jobs, task, untold, run, announced>>

Next ==
  \/ \E t \in Task :
       \/ RequestAnalysis(t) \/ AnalyzeNew(t) \/ StoreTotal(t)
       \/ Claim(t) \/ NothingToDo(t) \/ Load(t)
       \/ \E j \in Job :
            \/ NoAnswer(t, j)
            \/ \E good \in BOOLEAN : Store(t, j, good)
            \/ StoreFails(t, j)
       \/ Announce(t) \/ Finish(t) \/ Die(t)
  \/ \E j \in Job : BeginEdit(j) \/ CommitEdit(j) \/ DeleteJob(j)
  \/ DeleteResume

Spec == Init /\ [][Next]_vars

---------------------------------------------------------------------------
(* Properties                                                              *)

\* A result that is not renewed although the job has another text by now.
Outdated(j) == Exists(j) /\ ~NeedsAnalysis(j) /\ result[j].text # job[j].text

\* How a result can be outdated and pass for up to date: it was stored after
\* an edit that its task had not seen, or an edit was committed that took its
\* time before the result took its own.  There is no other way.
OutdatedOnlyByRace ==
  [][\A j \in Job : Outdated(j)' /\ ~Outdated(j) =>
       \/ \E t \in Task : j \in run[t].todo /\ run[t].text[j] # job[j].text
       \/ editing[j] # 0 /\ editing[j] <= result[j].at]_vars

\* A completed analysis accounts for every job that needed one when it began;
\* the only other total it may show is the enqueuer's, stored late.
CompletedAddsUp ==
  \A t \in Task : task[t].status = "completed" =>
    task[t].total \in {task[t].success + task[t].errors, Cardinality(task[t].jobs)}

\* A good result that nobody was told of belongs to a task that is still
\* running or that failed; it is not analysed, and so not announced, again.
GoodIsAnnounced ==
  \A j \in Job : result[j].good =>
    LET t == result[j].by
    IN j \in announced[t] \/ task[t].status \in {"running", "failed"}
=============================================================================
