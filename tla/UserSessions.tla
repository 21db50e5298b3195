---------------------------- MODULE UserSessions ----------------------------
(***************************************************************************)
(* The login sessions of one account: the endpoints of auth/router.py that *)
(* create, rotate and delete rows of users_sessions, the administrator's   *)
(* updates that revoke them (admin/service.py), get_current_user, which    *)
(* every protected endpoint runs first (security.py).  A login starts here *)
(* with a right password; the gate before it is LoginLockout.              *)
(*                                                                         *)
(* PostgreSQL runs these transactions at READ COMMITTED: a plain SELECT    *)
(* sees the committed rows, a statement that locks or writes a row waits   *)
(* for the transaction that holds it and then looks at the row again, and  *)
(* a cycle of waiting transactions ends with one of them aborted.  A row   *)
(* changes here when its transaction commits; until then the locks tell    *)
(* who is about to change it.                                              *)
(*                                                                         *)
(* A client may present any token or session id it was ever given: it may  *)
(* have lost an answer, have several tabs, or answers may reach it late.   *)
(***************************************************************************)
EXTENDS Naturals, FiniteSets

CONSTANTS
  Request,    \* the requests that may be in flight at once
  NoRequest,  \* nobody holds this lock
  MaxLogins,  \* bound on the sessions ever created
  MaxTokens   \* bound on the refresh tokens ever issued

ASSUME NoRequestAssumption == NoRequest \notin Request
ASSUME BoundsAssumption == MaxLogins \in Nat /\ MaxTokens \in Nat

Sid == 1..MaxLogins      \* users_sessions.id
Token == Nat \ {0}       \* refresh tokens, numbered as they are issued

VARIABLES
  row,       \* row[s]: the users_sessions row with id s, as last committed
  logins,    \* sessions created so far; the last one has this id
  tokens,    \* refresh tokens issued so far
  account,   \* whether the user's deleted_at is set
  userLock,  \* the request that holds the row lock on users
  rowLock,   \* rowLock[s]: the request that holds the row lock on session s
  req        \* req[r]: what request r is, and how far it has got

rows == <<row, logins, tokens>>
locks == <<userLock, rowLock>>
vars == <<rows, account, locks, req>>

\* hash: the token whose hash is stored; age: the session is active, has been
\* idle for too long, or is past refresh_expires_at.
Row == [hash : Token, age : {"active", "idle", "over"}]
NoRow == [hash |-> 0, age |-> "over"]
live == {s \in Sid : row[s] # NoRow}

\* demote: an administrator changes the role or clears is_active.
Authenticated == {"access", "logout", "password", "revokeOne", "revokeOthers"}
Admin == {"demote", "delete"}
Ops == {"login", "refresh"} \cup Authenticated \cup Admin

\* sid: the session of the bearer token, or the one found for the refresh
\* token; tok: the refresh token presented; aim: the session id in the URL or
\* body; todo: the rows that a DELETE has selected and not reached yet.
Stages == {"check", "touch", "lookup", "owner", "user", "rows", "delete", "rotate"}
LiveRequest == [op : Ops, at : Stages, sid : Sid \cup {0}, tok : Token \cup {0},
                aim : Sid \cup {0}, todo : SUBSET Sid]
Free == [op |-> "none"]
Entry(op) == CASE op = "refresh" -> "lookup"
               [] op \in Authenticated -> "check"
               [] OTHER -> "user"
Arriving(op, s, t, a) ==
  [op |-> op, at |-> Entry(op), sid |-> s, tok |-> t, aim |-> a, todo |-> {}]

TypeOK ==
  /\ row \in [Sid -> Row \cup {NoRow}]
  /\ logins \in Nat /\ tokens \in Nat
  /\ account \in {"active", "deleted"}
  /\ userLock \in Request \cup {NoRequest}
  /\ rowLock \in [Sid -> Request \cup {NoRequest}]
  /\ req \in [Request -> LiveRequest \cup {Free}]

Init ==
  /\ row = [s \in Sid |-> NoRow]
  /\ logins = 0 /\ tokens = 0
  /\ account = "active"
  /\ userLock = NoRequest
  /\ rowLock = [s \in Sid |-> NoRequest]
  /\ req = [r \in Request |-> Free]

-----------------------------------------------------------------------------
(* What the steps share.                                                   *)

At(r, at) == req[r] # Free /\ req[r].at = at

\* The transaction ends: its locks go.
Release(r) ==
  /\ userLock' = IF userLock = r THEN NoRequest ELSE userLock
  /\ rowLock' = [s \in Sid |-> IF rowLock[s] = r THEN NoRequest ELSE rowLock[s]]

Answer(r) == req' = [req EXCEPT ![r] = Free] /\ Release(r)
Proceed(r, at) == req' = [req EXCEPT ![r].at = at]
Available(s, r) == rowLock[s] \in {NoRequest, r}

\* last_active_at := now, which does not move refresh_expires_at.
Used(age) == IF age = "idle" THEN "active" ELSE age

\* active_session_filters with the hash of the presented token.
Matching(r) == {s \in live : row[s].hash = req[r].tok /\ row[s].age = "active"}

\* A request that may issue tokens or a session; a bound of the model.
Mints == {"login", "refresh", "password"}
Minting(ops) == Cardinality({r \in Request : req[r] # Free /\ req[r].op \in ops})

\* The session ids that clients may have; 0 stands for none.
Given == {0} \cup {s \in Sid : s <= logins}

Arrive(r) ==
  /\ req[r] = Free
  /\ \E op \in Ops, s \in Given, t \in 0..tokens, a \in Given :
       /\ op \in Mints => tokens + Minting(Mints) < MaxTokens
       /\ op = "login" => logins + Minting({"login"}) < MaxLogins
       /\ op \in Admin \cup {"login"} => account = "active"
       /\ (op \in Authenticated) = (s # 0)
       /\ op \in {"refresh", "password"} => t # 0
       /\ t # 0 => op \in {"refresh", "password", "revokeOne"}
       /\ (op \in {"revokeOne", "revokeOthers"}) = (a # 0)
       /\ req' = [req EXCEPT ![r] = Arriving(op, s, t, a)]
  /\ UNCHANGED <<rows, account, locks>>

-----------------------------------------------------------------------------
(* get_current_user: one SELECT over user and session, then an UPDATE of   *)
(* last_active_at in a transaction of its own.                             *)

Check(r) ==
  /\ At(r, "check")
  /\ IF account = "active" /\ req[r].sid \in live /\ row[req[r].sid].age = "active"
       THEN Proceed(r, "touch") /\ UNCHANGED locks
       ELSE Answer(r)
  /\ UNCHANGED <<rows, account>>

\* The UPDATE may find no row: the request goes on all the same.
Touch(r) ==
  /\ At(r, "touch")
  /\ LET s == req[r].sid IN
       /\ s \in live => Available(s, r)
       /\ row' = IF s \in live THEN [row EXCEPT ![s].age = Used(@)] ELSE row
  /\ CASE req[r].op = "access" -> Answer(r)
       [] req[r].op \in {"password", "revokeOne"} -> Proceed(r, "lookup") /\ UNCHANGED locks
       [] OTHER -> Proceed(r, "rows") /\ UNCHANGED locks
  /\ UNCHANGED <<logins, tokens, account>>

-----------------------------------------------------------------------------
(* get_session_by_refresh_token: SELECT ... FOR UPDATE.                    *)

\* password also rejects a session that is not the bearer's; revokeOne only
\* wants to know whether it deletes the current session.
NotFound(r) ==
  /\ At(r, "lookup")
  /\ Matching(r) = {}
  /\ IF req[r].op = "revokeOne" THEN Proceed(r, "rows") /\ UNCHANGED locks ELSE Answer(r)
  /\ UNCHANGED <<rows, account>>

\* password: the old password is wrong.
WrongOldPassword(r) ==
  /\ At(r, "lookup") /\ req[r].op = "password"
  /\ Answer(r)
  /\ UNCHANGED <<rows, account>>

\* Seeded error: a plain SELECT, without FOR UPDATE.
FoundUnlocked(r) ==
  /\ At(r, "lookup")
  /\ \E s \in Matching(r) :
       CASE req[r].op = "refresh" -> req' = [req EXCEPT ![r].sid = s, ![r].at = "owner"]
         [] req[r].op = "password" -> Proceed(r, "user")
         [] OTHER -> Proceed(r, "rows")
  /\ UNCHANGED <<rows, account, locks>>

\* Seeded error: a revocation, too, updates the user row after the session.
FoundThenUser(r) ==
  /\ At(r, "lookup")
  /\ \E s \in Matching(r) :
       /\ Available(s, r)
       /\ rowLock' = [rowLock EXCEPT ![s] = r]
       /\ IF req[r].op = "refresh"
            THEN req' = [req EXCEPT ![r].sid = s, ![r].at = "owner"]
            ELSE Proceed(r, "user")
  /\ UNCHANGED <<rows, account, userLock>>

Found(r) ==
  /\ At(r, "lookup")
  /\ \E s \in Matching(r) :
       /\ Available(s, r)
       /\ IF req[r].op = "password" /\ s # req[r].sid
            THEN Answer(r)
            ELSE /\ rowLock' = [rowLock EXCEPT ![s] = r]
                 /\ CASE req[r].op = "refresh" ->
                           req' = [req EXCEPT ![r].sid = s, ![r].at = "owner"]
                      [] req[r].op = "password" -> Proceed(r, "user")
                      [] OTHER -> Proceed(r, "rows")
                 /\ UNCHANGED userLock
  /\ UNCHANGED <<rows, account>>

\* Seeded error: the transaction of a rejected refresh is not ended.
OwnerLeavingOpen(r) ==
  /\ At(r, "owner")
  /\ IF account = "deleted" THEN req' = [req EXCEPT ![r] = Free] ELSE Proceed(r, "rotate")
  /\ UNCHANGED <<rows, account, locks>>

\* refresh: the owner must not be deleted; that SELECT locks nothing.
Owner(r) ==
  /\ At(r, "owner")
  /\ IF account = "deleted" THEN Answer(r) ELSE Proceed(r, "rotate") /\ UNCHANGED locks
  /\ UNCHANGED <<rows, account>>

\* rotate_session_refresh_token
Rotated(s) == [hash |-> tokens + 1, age |-> Used(row[s].age)]

Rotate(r) ==
  /\ At(r, "rotate")
  /\ row' = [row EXCEPT ![req[r].sid] = Rotated(req[r].sid)]
  /\ tokens' = tokens + 1
  /\ Answer(r)
  /\ UNCHANGED <<logins, account>>

-----------------------------------------------------------------------------
(* The requests that delete rows: login, password change, logout,          *)
(* revocation and the administrator's updates.                             *)

\* Seeded error: replace_user_session without the FOR UPDATE on the user.
LockUserNot(r) ==
  /\ At(r, "user")
  /\ Proceed(r, "rows")
  /\ UNCHANGED <<rows, account, locks>>

\* login: SELECT ... FOR UPDATE.  password, demote, delete: the UPDATE of the
\* user row, which autoflush sends before the SELECT of the sessions.
LockUser(r) ==
  /\ At(r, "user")
  /\ userLock \in {NoRequest, r}
  /\ userLock' = r
  /\ Proceed(r, "rows")
  /\ UNCHANGED <<rows, account, rowLock>>

Selected(r) ==
  CASE req[r].op = "password" -> live \ {req[r].sid}
    [] req[r].op = "logout" -> live \cap {req[r].sid}
    [] req[r].op = "revokeOne" -> live \cap {req[r].aim}
    [] req[r].op = "revokeOthers" -> live \ {req[r].aim}
    [] OTHER -> live

SelectRows(r) ==
  /\ At(r, "rows")
  /\ req' = [req EXCEPT ![r].todo = Selected(r), ![r].at = "delete"]
  /\ UNCHANGED <<rows, account, locks>>

\* The DELETE reaches a row; one that is gone by then is skipped.
LockRow(r) ==
  /\ At(r, "delete")
  /\ \E s \in req[r].todo :
       /\ s \in live => Available(s, r)
       /\ rowLock' = IF s \in live THEN [rowLock EXCEPT ![s] = r] ELSE rowLock
       /\ req' = [req EXCEPT ![r].todo = @ \ {s}]
  /\ UNCHANGED <<rows, account, userLock>>

Held(r) == {s \in live : rowLock[s] = r}
DeletesDone(r) == At(r, "delete") /\ req[r].todo = {}

\* The rows that remain when those of S have been deleted.
Without(S) == [s \in Sid |-> IF s \in S THEN NoRow ELSE row[s]]

CommitLogin(r) ==
  /\ DeletesDone(r) /\ req[r].op = "login"
  /\ row' = [Without(Held(r)) EXCEPT ![logins + 1] = [hash |-> tokens + 1, age |-> "active"]]
  /\ logins' = logins + 1
  /\ tokens' = tokens + 1
  /\ Answer(r)
  /\ UNCHANGED account

CommitPassword(r) ==
  /\ DeletesDone(r) /\ req[r].op = "password"
  /\ LET s == req[r].sid IN
       row' = [Without(Held(r) \ {s}) EXCEPT ![s] = Rotated(s)]
  /\ tokens' = tokens + 1
  /\ Answer(r)
  /\ UNCHANGED <<logins, account>>

\* revokeOne may hold the current session as well, which stays.
CommitDelete(r) ==
  /\ DeletesDone(r) /\ req[r].op \notin {"login", "password"}
  /\ row' = Without(IF req[r].op = "revokeOne" THEN Held(r) \cap {req[r].aim} ELSE Held(r))
  /\ account' = IF req[r].op = "delete" THEN "deleted" ELSE account
  /\ Answer(r)
  /\ UNCHANGED <<logins, tokens>>

\* update_user with is_active true.
Restore ==
  /\ account = "deleted"
  /\ userLock = NoRequest
  /\ account' = "active"
  /\ UNCHANGED <<rows, locks, req>>

-----------------------------------------------------------------------------
(* The environment: time, the lock manager, processes that die.            *)

GrowOld(s) ==
  /\ s \in live
  /\ \E age \in {"idle", "over"} :
       /\ row[s].age # "over" /\ row[s].age # age
       /\ row' = [row EXCEPT ![s].age = age]
  /\ UNCHANGED <<logins, tokens, account, locks, req>>

Others(r, held) == held \ {NoRequest, r}

\* The holders of the locks that keep r from its next step.
WaitsFor(r) ==
  CASE At(r, "user") -> Others(r, {userLock})
    [] At(r, "touch") -> Others(r, {rowLock[s] : s \in live \cap {req[r].sid}})
    [] At(r, "lookup") -> Others(r, {rowLock[s] : s \in Matching(r)})
    [] At(r, "delete") -> IF \E s \in req[r].todo : s \notin live \/ Available(s, r)
                            THEN {} ELSE Others(r, {rowLock[s] : s \in req[r].todo})
    [] OTHER -> {}

WaitCycles ==
  {C \in SUBSET Request :
     C # {} /\ \A r \in C : /\ WaitsFor(r) \cap C # {}
                            /\ \E q \in C : r \in WaitsFor(q)}

\* PostgreSQL's deadlock detector aborts one transaction of a cycle.
Abort(r) ==
  /\ \E C \in WaitCycles : r \in C
  /\ Answer(r)
  /\ UNCHANGED <<rows, account>>

\* The server process dies: its transaction is rolled back.
Die(r) ==
  /\ req[r] # Free
  /\ Answer(r)
  /\ UNCHANGED <<rows, account>>

Acquire(r) == Touch(r) \/ Found(r) \/ LockUser(r) \/ LockRow(r)
Run(r) == \/ Check(r) \/ NotFound(r) \/ WrongOldPassword(r) \/ Owner(r) \/ Rotate(r)
          \/ SelectRows(r) \/ CommitLogin(r) \/ CommitPassword(r) \/ CommitDelete(r) \/ Abort(r)

Next ==
  \/ \E r \in Request : Arrive(r) \/ Acquire(r) \/ Run(r) \/ Die(r)
  \/ \E s \in Sid : GrowOld(s)
  \/ Restore

\* PostgreSQL grants a lock in the order of the requests for it, so that a
\* request whose lock is free again and again gets it.
Fairness == \A r \in Request : WF_vars(Run(r)) /\ SF_vars(Acquire(r))

Spec == Init /\ [][Next]_vars /\ Fairness

-----------------------------------------------------------------------------
(* Properties.                                                             *)

\* An account has at most one session, that of the login which committed last:
\* doc/explanation-auth-rbac.md:88.  Logins, password changes, revocations and
\* refreshes of the account overlap at will.
LastLoginWins == live \subseteq {logins}

\* A refresh token is exchanged once: a rotation replaces the hash of the very
\* token that its request presented, however many requests present it at once
\* (the FOR UPDATE of get_session_by_refresh_token, sessions.py:178-183).
RotationIsCompareAndSwap ==
  [][\A s \in live \cap live' :
       row'[s].hash # row[s].hash =>
         \E r \in Request : /\ req[r] # Free /\ req'[r] = Free
                            /\ req[r].tok = row[s].hash]_vars

\* Only a password change takes the session row before the user row; every
\* deadlock of these endpoints involves one (router.py:614 and 633 against
\* sessions.py:147-148).
DeadlocksInvolvePasswordChange ==
  \A C \in WaitCycles : \E r \in C : req[r].op = "password"

\* Every request is answered: no lock outlives its transaction, and a deadlock
\* is broken.
EveryRequestAnswered == \A r \in Request : req[r] # Free ~> req[r] = Free
=============================================================================
