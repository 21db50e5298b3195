----------------------------- MODULE Scheduling -----------------------------
(***************************************************************************)
(* The cron schedules: a column of the job configs and of the product      *)
(* platform crons, and an APScheduler job per row in the memory of the API *)
(* process (core/scheduler.py, the schedulers of both domains, and the     *)
(* handlers that keep the two together).  A handler commits the row, reads *)
(* it back and then syncs the job, as three steps that other requests come *)
(* between; only a restart derives every job from the rows.                *)
(***************************************************************************)
EXTENDS Naturals

CONSTANTS
  Request,       \* requests under way at a time
  JobConfig,     \* ids of job search configs
  PlatformCron,  \* (user, platform) pairs of product crons
  Expr,          \* cron expressions, all valid (the schemas check them)
  Zone,          \* time zones
  DefaultZone,   \* Asia/Shanghai
  MaxChanges,    \* bound on the requests accepted
  None

Entity == JobConfig \cup PlatformCron
Cron == [expr : Expr \cup {None}, zone : Zone]
Gone == [expr |-> None, zone |-> None]   \* no such row
Off == Gone                              \* no such scheduler job

VARIABLES
  row,       \* Entity -> the cron columns, or Gone
  used,      \* ids of job configs that were given out, which never come back
  job,       \* Entity -> the scheduler's job, or Off
  request,   \* Request -> the handler under way, or Idle
  changes,
  excused    \* history variable: entities whose requests overlapped, failed
             \* or left the expression out, since the last restart

vars == <<row, used, job, request, changes, excused>>

Idle == [op |-> "idle", on |-> None, at |-> "idle", seen |-> Gone, write |-> Gone, sync |-> FALSE]

Init ==
  /\ row \in [Entity -> {Gone} \cup {c \in Cron : c.zone = DefaultZone}]
  /\ used = {e \in JobConfig : row[e] # Gone}
  /\ job = [e \in Entity |-> IF row[e].expr = None THEN Off ELSE row[e]]
  /\ request = [r \in Request |-> Idle]
  /\ changes = 0
  /\ excused = {}

Busy(e) == \E r \in Request : request[r].on = e

Accept(r, req) ==
  /\ request[r] = Idle /\ changes < MaxChanges
  /\ request' = [request EXCEPT ![r] = req]
  /\ changes' = changes + 1
  /\ excused' = IF Busy(req.on) THEN excused \cup {req.on} ELSE excused

Step(r, at) == request' = [request EXCEPT ![r].at = at]

Leave(r) == request' = [request EXCEPT ![r] = Idle]

Fail(r) ==
  /\ Leave(r)
  /\ excused' = excused \cup {request[r].on}

----------------------------------------------------------------------------
(* Handlers.                                                               *)

\* create_config
CreateConfig(r, e, cron) ==
  /\ e \in JobConfig \ used
  /\ Accept(r, [Idle EXCEPT !.op = "create", !.on = e, !.at = "commit", !.write = cron,
                            !.sync = cron.expr # None])
  /\ used' = used \cup {e}
  /\ UNCHANGED <<row, job>>

\* create_product_cron_config: whether the platform has one shows at commit
CreateProductCron(r, e, cron) ==
  /\ e \in PlatformCron
  /\ Accept(r, [Idle EXCEPT !.op = "create", !.on = e, !.at = "commit", !.write = cron,
                            !.sync = cron.expr # None])
  /\ UNCHANGED <<row, used, job>>

\* An update sets the fields that it was given on the row that it loaded
Update(r, e, fields, cron, sync) ==
  LET given(f) == IF f \in fields THEN cron[f] ELSE row[e][f] IN
  /\ row[e] # Gone
  /\ Accept(r, [Idle EXCEPT !.op = "update", !.on = e, !.at = "commit", !.seen = row[e],
                            !.write = [f \in {"expr", "zone"} |-> given(f)], !.sync = sync])
  /\ UNCHANGED <<row, used, job>>

\* update_config: any of the fields; it syncs only when given the expression
UpdateConfig(r, e, fields, cron) ==
  e \in JobConfig /\ Update(r, e, fields, cron, "expr" \in fields)

\* update_config_cron and update_product_cron_config: both fields
UpdateConfigCron(r, e, cron) ==
  e \in JobConfig /\ Update(r, e, {"expr", "zone"}, cron, TRUE)

UpdateProductCron(r, e, cron) ==
  e \in PlatformCron /\ Update(r, e, {"expr", "zone"}, cron, TRUE)

Delete(r, e, first) ==
  /\ row[e] # Gone
  /\ Accept(r, [Idle EXCEPT !.op = "delete", !.on = e, !.seen = row[e], !.at = first,
                            !.sync = TRUE])
  /\ UNCHANGED <<row, used, job>>

\* delete_config deletes the row first, delete_product_cron_config the job
DeleteConfig(r, e) == e \in JobConfig /\ Delete(r, e, "commit")

DeleteProductCron(r, e) == e \in PlatformCron /\ Delete(r, e, "sync")

\* sqlalchemy writes the columns that differ from what was loaded
Merged(req) ==
  [f \in {"expr", "zone"} |-> IF req.write[f] # req.seen[f] THEN req.write[f] ELSE row[req.on][f]]

\* The commit of the row.  The insert of a second cron for a platform fails
\* (409), and so does the update of a row that is gone.
Commit(r) ==
  LET req == request[r] IN
  /\ req.at = "commit"
  /\ \/ /\ req.op = "create" /\ row[req.on] = Gone
        /\ row' = [row EXCEPT ![req.on] = req.write]
        /\ Step(r, "refresh") /\ UNCHANGED excused
     \/ /\ req.op = "create" /\ row[req.on] # Gone
        /\ Leave(r) /\ UNCHANGED <<row, excused>>
     \/ /\ req.op = "update" /\ row[req.on] # Gone
        /\ row' = [row EXCEPT ![req.on] = Merged(req)]
        /\ Step(r, "refresh") /\ UNCHANGED excused
     \/ /\ req.op = "update" /\ row[req.on] = Gone /\ req.write # req.seen
        /\ Fail(r) /\ UNCHANGED row
     \/ /\ req.op = "update" /\ row[req.on] = Gone /\ req.write = req.seen
        /\ Step(r, "refresh") /\ UNCHANGED <<row, excused>>
     \/ /\ req.op = "delete"
        /\ row' = [row EXCEPT ![req.on] = Gone]
        /\ UNCHANGED excused
        /\ IF req.on \in JobConfig THEN Step(r, "sync") ELSE Leave(r)
  /\ UNCHANGED <<used, job, changes>>

\* A commit that fails in the database: 500, nothing else happens
CommitFails(r) ==
  /\ request[r].at = "commit"
  /\ Fail(r)
  /\ UNCHANGED <<row, used, job, changes>>

\* db.refresh: the handler goes on with the row as it is now
Refresh(r) ==
  LET req == request[r] IN
  /\ req.at = "refresh"
  /\ IF row[req.on] = Gone THEN Fail(r)
     ELSE /\ request' = [request EXCEPT ![r].at = "sync", ![r].seen = row[req.on]]
          /\ UNCHANGED excused
  /\ UNCHANGED <<row, used, job, changes>>

\* Seeded error: an expression that was cleared leaves the job registered.
SyncedAddingOnly(req) == IF req.seen.expr # None THEN req.seen ELSE job[req.on]

\* add_job replaces the job, or removes it for an empty expression
Synced(req) ==
  IF req.op = "delete" \/ req.seen.expr = None THEN Off ELSE req.seen

\* The handler syncs the scheduler and answers.  The deletion of a product
\* cron still has its row to delete.
Sync(r) ==
  LET req == request[r] IN
  /\ req.at = "sync"
  /\ job' = IF req.sync THEN [job EXCEPT ![req.on] = Synced(req)] ELSE job
  /\ excused' = IF req.op = "update" /\ ~req.sync /\ req.seen # job[req.on]
                THEN excused \cup {req.on} ELSE excused
  /\ IF req.op = "delete" /\ req.on \in PlatformCron THEN Step(r, "commit") ELSE Leave(r)
  /\ UNCHANGED <<row, used, changes>>

\* The API restarts: its requests are gone, and sync_all registers every row
\* that has an expression
Restart ==
  /\ request' = [r \in Request |-> Idle]
  /\ job' = [e \in Entity |-> IF row[e].expr = None THEN Off ELSE row[e]]
  /\ excused' = {}
  /\ UNCHANGED <<row, used, changes>>

Next ==
  \/ \E r \in Request :
       \/ \E e \in Entity :
            \/ DeleteConfig(r, e) \/ DeleteProductCron(r, e)
            \/ \E cron \in Cron :
                 \/ CreateConfig(r, e, cron) \/ CreateProductCron(r, e, cron)
                 \/ UpdateConfigCron(r, e, cron) \/ UpdateProductCron(r, e, cron)
                 \/ \E fields \in SUBSET {"expr", "zone"} : UpdateConfig(r, e, fields, cron)
       \/ Commit(r) \/ CommitFails(r) \/ Refresh(r) \/ Sync(r)
  \/ Restart

Spec == Init /\ [][Next]_vars

----------------------------------------------------------------------------
(* When no request is under way, a row's schedule is the scheduler's: the  *)
(* job exists exactly when the row has an expression, with that expression *)
(* and time zone.  Excused are rows of which, since the last restart, two  *)
(* requests overlapped or one failed halfway, and configs whose time zone  *)
(* was changed without the expression, which update_config does not sync.  *)
SchedulesInSync ==
  \A e \in Entity \ excused :
    ~Busy(e) => job[e] = IF row[e].expr = None THEN Off ELSE row[e]
=============================================================================
