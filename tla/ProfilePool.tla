---------------------------- MODULE ProfilePool ----------------------------
(***************************************************************************)
(* Browser profiles: crawls lease a profile for the time they use its      *)
(* directory (profile_pool.py), operators manage profiles through the API  *)
(* (profile_service.py, profile_runtime_service.py), and maintenance frees *)
(* expired leases (recover_stale_profile_leases).                          *)
(*                                                                         *)
(* acquire and release lock the row (FOR UPDATE) and are one step each.    *)
(* Everybody else reads the row without a lock and writes, at commit, the  *)
(* columns that changed: a request begins (Begin) and commits later, after *)
(* a browser run in the case of a test or a login.                         *)
(***************************************************************************)
EXTENDS Naturals, FiniteSets

CONSTANTS
  Profile,     \* profile keys
  NoProfile,
  Task,        \* crawl tasks; the task id is lease_owner and lease_task_id
  NoTask,      \* lease_owner IS NULL
  Request,     \* the operator requests that may be in flight at once
  Maintainer,  \* processes that run recover_stale_profile_leases
  Ops,         \* the operations that operators use
  Outlasting,  \* a crawl may take longer than its lease (nothing renews it)
  Crashes      \* processes may die, and a release may fail

AllOps == {"enable", "disable", "requireLogin", "releaseStale", "import", "test",
           "openLogin", "rename", "delete"}

ASSUME NoTaskAssumption == NoTask \notin Task
ASSUME NoProfileAssumption == NoProfile \notin Profile
ASSUME OpsAssumption == Ops \subseteq AllOps
ASSUME ModeAssumption == Outlasting \in BOOLEAN /\ Crashes \in BOOLEAN

VARIABLES
  row,       \* row[p]: the crawl_profiles row of p
  uses,      \* uses[t]: the profile that t's crawl is using
  ended,     \* the tasks that have used a profile and are done with it
  robbed,    \* history: the tasks whose lease ran out under their crawl, or
             \* whose profile's row somebody else has freed, renamed or deleted
  request,   \* request[a]: the request in flight, with the row it has loaded
  login,     \* the profiles with an open login session (_sessions)
  selected,  \* selected[m]: the rows m has loaded and not yet committed
  seen       \* seen[m][p]: those rows as m loaded them

crawls == <<uses, ended, robbed>>
maintenance == <<selected, seen>>
vars == <<row, crawls, request, login, maintenance>>

\* cooling_down, a third blocking status, is assigned nowhere.
Blocking == {"login_required", "disabled"}

Row == [status : {"absent", "available", "leased"} \cup Blocking,
        owner  : Task \cup {NoTask},
        lease  : {"none", "valid", "expired"}]

AbsentRow == [status |-> "absent", owner |-> NoTask, lease |-> "none"]
FreeRow == [status |-> "available", owner |-> NoTask, lease |-> "none"]
LeasedRow(t) == [status |-> "leased", owner |-> t, lease |-> "valid"]

\* gone: the loaded row has been deleted since, so that a statement with its
\* primary key finds nothing.
NoRequest == [op |-> "none"]
LiveRequest == [op : AllOps, on : Profile, old : Row, gone : BOOLEAN]

TypeOK ==
  /\ row \in [Profile -> Row]
  /\ uses \in [Task -> Profile \cup {NoProfile}]
  /\ ended \in SUBSET Task
  /\ robbed \in SUBSET Task
  /\ request \in [Request -> LiveRequest \cup {NoRequest}]
  /\ login \in SUBSET Profile
  /\ selected \in [Maintainer -> SUBSET Profile]
  /\ seen \in [Maintainer -> [Profile -> Row]]

Init ==
  /\ row = [p \in Profile |-> AbsentRow]
  /\ uses = [t \in Task |-> NoProfile]
  /\ ended = {}
  /\ robbed = {}
  /\ request = [a \in Request |-> NoRequest]
  /\ login = {}
  /\ selected = [m \in Maintainer |-> {}]
  /\ seen = [m \in Maintainer |-> [p \in Profile |-> AbsentRow]]

---------------------------------------------------------------------------
(* Crawls: DatabaseProfilePool.lease                                       *)

\* What acquire asks of the row, which it creates if there is none.
Leasable(r) == r.status \notin Blocking /\ r.lease # "valid"

Acquire(t, p) ==
  /\ uses[t] = NoProfile /\ t \notin ended
  /\ Leasable(row[p])
  /\ row' = [row EXCEPT ![p] = LeasedRow(t)]
  /\ uses' = [uses EXCEPT ![t] = p]
  /\ UNCHANGED <<ended, robbed, request, login, maintenance>>

\* The coroutine is cancelled, or its process dies, after the commit of
\* acquire and before the crawl.
AcquireLost(t, p) ==
  /\ Crashes
  /\ uses[t] = NoProfile /\ t \notin ended
  /\ Leasable(row[p])
  /\ row' = [row EXCEPT ![p] = LeasedRow(t)]
  /\ ended' = ended \cup {t}
  /\ UNCHANGED <<uses, robbed, request, login, maintenance>>

\* Seeded error: the status is reset even if an operator has blocked the row.
ReleasedAvailable(r) == FreeRow

\* A status that an operator has set meanwhile is kept.
Released(r) ==
  [status |-> IF r.status \in Blocking THEN r.status ELSE "available",
   owner |-> NoTask, lease |-> "none"]

EndUse(t) ==
  /\ uses' = [uses EXCEPT ![t] = NoProfile]
  /\ ended' = ended \cup {t}
  /\ UNCHANGED robbed

\* Seeded error: the release does not ask whose lease it is.
ReleaseAnyway(t) ==
  /\ uses[t] # NoProfile
  /\ row' = [row EXCEPT ![uses[t]] = Released(row[uses[t]])]
  /\ EndUse(t)
  /\ UNCHANGED <<request, login, maintenance>>

\* The row is another task's by now, or nobody's, if the lease has expired.
Release(t) ==
  /\ uses[t] # NoProfile
  /\ LET p == uses[t] IN
       row' = IF row[p].owner = t THEN [row EXCEPT ![p] = Released(row[p])] ELSE row
  /\ EndUse(t)
  /\ UNCHANGED <<request, login, maintenance>>

\* The worker dies, or its release fails: the lease stays.
CrawlDies(t) ==
  /\ Crashes
  /\ uses[t] # NoProfile
  /\ EndUse(t)
  /\ UNCHANGED <<row, request, login, maintenance>>

Users(p) == {t \in Task : uses[t] = p}

Rob(S) ==
  /\ robbed' = robbed \cup S
  /\ UNCHANGED <<uses, ended>>

LeaseExpires(p) ==
  /\ row[p].lease = "valid"
  /\ ~Outlasting => row[p].owner \notin Users(p)
  /\ row' = [row EXCEPT ![p].lease = "expired"]
  /\ Rob(Users(p) \cap {row[p].owner})
  /\ UNCHANGED <<request, login, maintenance>>

---------------------------------------------------------------------------
(* Maintenance: recover_stale_profile_leases                               *)

Written(loaded, assigned, current) == IF assigned # loaded THEN assigned ELSE current

\* The UPDATE at commit: only columns assigned another value than loaded.
Flush(loaded, assigned, current) ==
  [c \in DOMAIN current |-> Written(loaded[c], assigned[c], current[c])]

RecoverLoad(m) ==
  LET stale == {p \in Profile : row[p].lease = "expired"} IN
  /\ selected[m] = {}
  /\ stale # {}
  /\ selected' = [selected EXCEPT ![m] = stale]
  /\ seen' = [seen EXCEPT ![m] =
                [p \in Profile |-> IF p \in stale THEN row[p] ELSE AbsentRow]]
  /\ UNCHANGED <<row, crawls, request, login>>

ForgetSelection(m) ==
  /\ selected' = [selected EXCEPT ![m] = {}]
  /\ seen' = [seen EXCEPT ![m] = [p \in Profile |-> AbsentRow]]

RecoverCommit(m) ==
  /\ selected[m] # {}
  /\ row' = [p \in Profile |->
               IF p \in selected[m] THEN Flush(seen[m][p], FreeRow, row[p]) ELSE row[p]]
  /\ Rob(UNION {Users(p) : p \in selected[m]})
  /\ ForgetSelection(m)
  /\ UNCHANGED <<request, login>>

\* The process dies in between, or a selected row has been deleted.
RecoverFails(m) ==
  /\ Crashes
  /\ selected[m] # {}
  /\ ForgetSelection(m)
  /\ UNCHANGED <<row, crawls, request, login>>

---------------------------------------------------------------------------
(* Operators                                                               *)

\* ensure_profile, for create_profile; also the new row of copy_profile.
Create(p) ==
  /\ row[p].status = "absent"
  /\ row' = [row EXCEPT ![p] = FreeRow]
  /\ UNCHANGED <<crawls, request, login, maintenance>>

\* Seeded error: the lock is not waited for.
UnlockedAlways(p) == TRUE

\* assert_profile_not_leased, or the same test in the function itself.
RefusedIfLeased == AllOps \ {"disable", "requireLogin"}
RefusedIfLoggedIn == {"import", "test", "openLogin", "rename", "delete"}

\* The operations under the API process's lock of the profile (_profile_lock).
Runtime == {"import", "test", "openLogin"}
Unlocked(p) ==
  \A a \in Request : request[a].op \in Runtime => request[a].on # p

\* get_profile and the checks.
Begin(a, op, p) ==
  /\ request[a] = NoRequest
  /\ row[p].status # "absent"
  /\ op \in RefusedIfLeased => row[p].lease # "valid"
  /\ op \in RefusedIfLoggedIn => p \notin login
  /\ op \in Runtime => Unlocked(p)
  /\ request' = [request EXCEPT ![a] = [op |-> op, on |-> p, old |-> row[p], gone |-> FALSE]]
  /\ UNCHANGED <<row, crawls, login, maintenance>>

End(a) == request' = [request EXCEPT ![a] = NoRequest]

\* Seeded error: releasing a stale lease leaves the name of its last owner.
AssignedKeepingOwner(op, r) ==
  IF op = "releaseStale" THEN {[FreeRow EXCEPT !.owner = r.owner]} ELSE {}

\* What the operation assigns to the row it has loaded.
Assigned(op, r) ==
  CASE op \in {"enable", "releaseStale"} -> {FreeRow}
    [] op = "disable"      -> {[r EXCEPT !.status = "disabled"]}
    [] op = "requireLogin" -> {[r EXCEPT !.status = "login_required"]}
    [] op = "import"       -> {[r EXCEPT !.status = "available"]}
    [] op = "test"         -> {[r EXCEPT !.status = s] : s \in {"available"} \cup Blocking}
    [] OTHER               -> {}

\* Operations that write the lease columns: the loaded row had a stale lease.
Frees(a) == request[a].op \in {"enable", "releaseStale"} /\ request[a].old.lease # "none"

\* update_profile, release_stale_profile, import_profile_backup, test_profile.
Update(a) ==
  /\ request[a] # NoRequest
  /\ ~request[a].gone
  /\ LET p == request[a].on IN
       \E r \in Assigned(request[a].op, request[a].old) :
         row' = [row EXCEPT ![p] = Flush(request[a].old, r, row[p])]
  /\ Rob(IF Frees(a) THEN Users(request[a].on) ELSE {})
  /\ End(a)
  /\ UNCHANGED <<login, maintenance>>

\* The login browser is up.
OpenLogin(a) ==
  /\ request[a].op = "openLogin"
  /\ login' = login \cup {request[a].on}
  /\ End(a)
  /\ UNCHANGED <<row, crawls, maintenance>>

CloseLogin(p) ==
  /\ p \in login
  /\ Unlocked(p)
  /\ login' = login \ {p}
  /\ UNCHANGED <<row, crawls, request, maintenance>>

\* The row with p's primary key is deleted: who has loaded it will not find it
\* again, and a maintenance batch that updates it fails.
Vanish(a, p) ==
  /\ request' = [b \in Request |->
       IF b = a THEN NoRequest
       ELSE IF request[b] # NoRequest /\ request[b].on = p
         THEN [request[b] EXCEPT !.gone = TRUE] ELSE request[b]]
  /\ selected' = [m \in Maintainer |-> IF p \in selected[m] THEN {} ELSE selected[m]]
  /\ seen' = [m \in Maintainer |-> IF p \in selected[m]
                THEN [q \in Profile |-> AbsentRow] ELSE seen[m]]

\* The new row has the lease columns of the old one as it was loaded; the old
\* one is deleted, if it is still there.
Rename(a, q) ==
  /\ request[a].op = "rename"
  /\ row[q].status = "absent"
  /\ LET p == request[a].on
         renamed == [row EXCEPT ![q] = request[a].old] IN
       IF request[a].gone
         THEN row' = renamed /\ End(a) /\ UNCHANGED <<crawls, maintenance>>
         ELSE row' = [renamed EXCEPT ![p] = AbsentRow] /\ Vanish(a, p) /\ Rob(Users(p))
  /\ UNCHANGED login

Delete(a) ==
  /\ request[a].op = "delete"
  /\ ~request[a].gone
  /\ row' = [row EXCEPT ![request[a].on] = AbsentRow]
  /\ Vanish(a, request[a].on)
  /\ Rob(Users(request[a].on))
  /\ UNCHANGED login

\* An error (also: the loaded row is gone), or the end of the API process.
Abandon(a) ==
  /\ request[a] # NoRequest
  /\ End(a)
  /\ UNCHANGED <<row, crawls, login, maintenance>>

ApiRestart ==
  /\ Crashes
  /\ request' = [a \in Request |-> NoRequest]
  /\ login' = {}
  /\ UNCHANGED <<row, crawls, maintenance>>

---------------------------------------------------------------------------
Crawl(t) ==
  \/ \E p \in Profile : Acquire(t, p) \/ AcquireLost(t, p)
  \/ Release(t)
  \/ CrawlDies(t)

Operate(a) ==
  \/ \E op \in Ops, p \in Profile : Begin(a, op, p)
  \/ Update(a)
  \/ OpenLogin(a)
  \/ \E q \in Profile : Rename(a, q)
  \/ Delete(a)
  \/ Abandon(a)

Next ==
  \/ \E t \in Task : Crawl(t)
  \/ \E a \in Request : Operate(a)
  \/ \E p \in Profile : LeaseExpires(p) \/ Create(p) \/ CloseLogin(p)
  \/ \E m \in Maintainer : RecoverLoad(m) \/ RecoverCommit(m) \/ RecoverFails(m)
  \/ ApiRestart

Spec == Init /\ [][Next]_vars

---------------------------------------------------------------------------
(* Properties whatever the timing                                          *)

\* lease_owner and lease_until are set and cleared together, although
\* recovery, rename and the unlocked updates write rows loaded earlier.
LeaseNamesOwner ==
  \A p \in Profile : row[p].owner = NoTask <=> row[p].lease = "none"

\* The tests, imports and logins of one profile exclude each other and an
\* open login session.
RuntimeExclusive ==
  \A a \in Request : request[a].op \in Runtime =>
    /\ request[a].on \notin login
    /\ \A b \in Request \ {a} :
         request[b].op \in Runtime => request[b].on # request[a].on

\* A crawl holds a lease of the profile it uses from its beginning to its end,
\* unless that lease has run out or an operator or a recovery has acted on a row
\* loaded without it or while it was stale.  Nothing else takes it away: no
\* other crawl's acquire, and not the late release of a robbed crawl, whose
\* profile is the next one's by then.
CrawlHoldsLease ==
  \A t \in Task \ robbed : uses[t] # NoProfile =>
    row[uses[t]].owner = t /\ row[uses[t]].lease = "valid"

(* What the repository claims of crawls, without that exception             *)

\* A profile directory is used by one crawl at a time.
OneCrawlPerProfile ==
  \A t, u \in Task : uses[t] # NoProfile /\ uses[t] = uses[u] => t = u

(* A property as long as operators do not enable, release, rename or delete *)
(* a profile, and nothing is recovered                                      *)

\* A profile that an operator or a test has blocked is unblocked by nobody
\* else: not by the release of a crawl that was still using it.
OnlyOperatorsUnblock ==
  [][\A p \in Profile :
       row[p].status \in Blocking /\ row'[p].status \notin Blocking =>
         \E a \in Request :
           request[a].op \in {"import", "test"} /\ request'[a] = NoRequest]_vars
=============================================================================
