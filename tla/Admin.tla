------------------------------- MODULE Admin --------------------------------
(***************************************************************************)
(* User administration (domains/admin): users are created, edited, deleted *)
(* softly and restored, roles get permissions and users resource grants.   *)
(* A request reads who asks, then the rows it decides on, then commits, in *)
(* one session whose reads take no locks; requests run side by side.       *)
(***************************************************************************)
EXTENDS Naturals, FiniteSets

CONSTANTS
  Request,   \* requests under way at a time
  User,      \* user ids
  Resource,  \* (type, id, permission) triples of resource grants
  MaxEdits   \* bound on the requests accepted

Role == {"user", "admin", "super_admin"}
Permission == {"user:manage", "user:delete", "rbac:manage"}

VARIABLES
  user,     \* User -> role, is_active, deleted_at
  can,      \* Role -> the permissions of the role
  grants,   \* the ResourcePermission rows
  request,  \* Request -> what it does and what it has read
  edits

vars == <<user, can, grants, request, edits>>

NoUser == [role |-> "none", active |-> FALSE, deleted |-> FALSE]
Idle == [op |-> "idle", at |-> "idle", actor |-> "none", on |-> {}, seen |-> NoUser,
         count |-> 0, write |-> NoUser, grant |-> {}]

Init ==
  /\ user \in [User -> {NoUser} \cup {[role |-> r, active |-> TRUE, deleted |-> FALSE] : r \in Role}]
  /\ \E u \in User : user[u].role = "super_admin"
  /\ can = [r \in Role |-> CASE r = "user" -> {}
                             [] r = "admin" -> {"user:manage", "user:delete"}
                             [] r = "super_admin" -> Permission]
  /\ grants = {}
  /\ request = [r \in Request |-> Idle]
  /\ edits = 0

Exists(u) == user[u] # NoUser

\* count_active_super_admins
SuperAdmins == {u \in User : user[u].role = "super_admin" /\ user[u].active /\ ~user[u].deleted}

----------------------------------------------------------------------------
(* Who asks: get_current_user and require_permission.                      *)

Accept(r, a, permission, req) ==
  /\ request[r] = Idle /\ edits < MaxEdits
  /\ Exists(a) /\ ~user[a].deleted
  /\ permission \in can[user[a].role]
  /\ request' = [request EXCEPT ![r] = [req EXCEPT !.actor = user[a].role, !.at = "load"]]
  /\ edits' = edits + 1
  /\ UNCHANGED <<user, can, grants>>

Leave(r) == request' = [request EXCEPT ![r] = Idle]

AskCreate(r, a, u, role) ==
  /\ ~Exists(u)
  /\ user[a].role = "admin" => role # "super_admin"
  /\ Accept(r, a, "user:manage",
            [Idle EXCEPT !.op = "create", !.on = {u},
                         !.write = [role |-> role, active |-> TRUE, deleted |-> FALSE]])

\* AdminUserUpdate with a role, without is_active; an admin never edits the
\* own role
AskRole(r, a, u, role) ==
  /\ user[a].role = "admin" => a # u
  /\ Accept(r, a, "user:manage",
            [Idle EXCEPT !.op = "role", !.on = {u}, !.write = [NoUser EXCEPT !.role = role]])

\* AdminUserUpdate with is_active, and DELETE, which the own account refuses
AskActive(r, a, u, op) ==
  /\ op = "delete" => a # u
  /\ Accept(r, a, IF op = "delete" THEN "user:delete" ELSE "user:manage",
            [Idle EXCEPT !.op = op, !.on = {u}])

AskGrant(r, a, op, u, granted) ==
  Accept(r, a, "user:manage", [Idle EXCEPT !.op = op, !.on = {u}, !.grant = granted])

----------------------------------------------------------------------------
(* update_user, delete_user: the target is read and the role boundary      *)
(* checked, then the super admins are counted, then the rows are written.  *)

Target(r) == CHOOSE u \in request[r].on : TRUE

Found(req, row) == row # NoUser /\ (req.op = "restore" \/ ~row.deleted)

WithinBoundary(req, row) ==
  req.actor = "admin" => row.role # "super_admin" /\ req.write.role # "super_admin"

Removes(req) == req.op \in {"disable", "delete"}

Load(r) ==
  LET req == request[r]
      row == user[Target(r)]
  IN /\ req.at = "load" /\ req.op \in {"role", "disable", "delete", "restore"}
     /\ IF Found(req, row) /\ WithinBoundary(req, row)
        THEN request' = [request EXCEPT ![r].seen = row,
               ![r].at = IF Removes(req) /\ row.role = "super_admin" THEN "count" ELSE "commit"]
        ELSE Leave(r)
     /\ UNCHANGED <<user, can, grants, edits>>

\* Seeded error: the last super admin passes as one of two.
NotLastOffByOne(n) == n > 0

NotLast(n) == n > 1

\* _ensure_not_last_super_admin
Count(r) ==
  LET n == Cardinality(SuperAdmins) IN
  /\ request[r].at = "count"
  /\ IF NotLast(n)
     THEN request' = [request EXCEPT ![r].at = "commit", ![r].count = n]
     ELSE Leave(r)
  /\ UNCHANGED <<user, can, grants, edits>>

\* The columns that differ from what was read
Written(req, row) ==
  CASE req.op = "role" /\ req.write.role # req.seen.role -> [row EXCEPT !.role = req.write.role]
    [] req.op = "disable" -> [row EXCEPT !.active = IF req.seen.active THEN FALSE ELSE @]
    [] req.op = "delete" -> [row EXCEPT !.active = IF req.seen.active THEN FALSE ELSE @, !.deleted = TRUE]
    [] req.op = "restore" -> [row EXCEPT !.active = IF req.seen.active THEN @ ELSE TRUE,
                                         !.deleted = IF req.seen.deleted THEN FALSE ELSE @]
    [] OTHER -> row

\* The commit of the user; the sessions of a user that is removed or whose
\* role changes go with it
Commit(r) ==
  /\ request[r].at = "commit"
  /\ user' = [user EXCEPT ![Target(r)] = Written(request[r], @)]
  /\ Leave(r)
  /\ UNCHANGED <<can, grants, edits>>

\* A name or an address is taken, or the commit fails otherwise
CommitFails(r) ==
  /\ request[r].at = "commit"
  /\ Leave(r)
  /\ UNCHANGED <<user, can, grants, edits>>

\* create_user, when no user has the name and the address
Create(r) ==
  /\ request[r].op = "create"
  /\ user' = IF Exists(Target(r)) THEN user ELSE [user EXCEPT ![Target(r)] = request[r].write]
  /\ Leave(r)
  /\ UNCHANGED <<can, grants, edits>>

----------------------------------------------------------------------------
(* Roles and resource grants.                                              *)

\* update_role_permissions replaces the set
SetRole(a, role, permissions) ==
  /\ edits < MaxEdits
  /\ Exists(a) /\ ~user[a].deleted /\ "rbac:manage" \in can[user[a].role]
  /\ can' = [can EXCEPT ![role] = permissions]
  /\ edits' = edits + 1
  /\ UNCHANGED <<user, grants, request>>

\* grant_resource_permissions: the subject must exist, and one row that is
\* there already refuses all of them
Grant(r) ==
  LET u == Target(r)
      new == {u} \X request[r].grant
  IN /\ request[r].op = "grant" /\ request[r].at = "load"
     /\ grants' = IF Found(request[r], user[u]) /\ new \cap grants = {} THEN grants \cup new ELSE grants
     /\ Leave(r)
     /\ UNCHANGED <<user, can, edits>>

\* revoke_resource_permission and update_resource_permission, by row: the
\* first of grant is replaced by the others
Regrant(r) ==
  LET u == Target(r) IN
  /\ request[r].op = "regrant" /\ request[r].at = "load"
  /\ \E old \in {u} \X Resource :
       grants' = CASE old \notin grants -> grants
                   [] request[r].grant = {} -> grants \ {old}
                   [] ({u} \X request[r].grant) \cap (grants \ {old}) # {} -> grants
                   [] OTHER -> (grants \ {old}) \cup ({u} \X request[r].grant)
  /\ Leave(r)
  /\ UNCHANGED <<user, can, edits>>

Next ==
  \/ \E r \in Request :
       \/ \E a \in User, u \in User :
            \/ \E role \in Role : AskCreate(r, a, u, role) \/ AskRole(r, a, u, role)
            \/ \E op \in {"disable", "restore", "delete"} : AskActive(r, a, u, op)
            \/ \E granted \in SUBSET Resource :
                 \/ granted # {} /\ AskGrant(r, a, "grant", u, granted)
                 \/ Cardinality(granted) <= 1 /\ AskGrant(r, a, "regrant", u, granted)
       \/ Load(r) \/ Count(r) \/ Commit(r) \/ CommitFails(r) \/ Create(r) \/ Grant(r) \/ Regrant(r)
  \/ \E a \in User, role \in Role, permissions \in {{}, Permission} : SetRole(a, role, permissions)

Spec == Init /\ [][Next]_vars

----------------------------------------------------------------------------
(* The last active super admin is removed only by a role change, which the *)
(* code does not check, or by a deletion or deactivation whose reads were  *)
(* overtaken by another request's commit.                                  *)
LastSuperAdminStays ==
  [][SuperAdmins # {} /\ SuperAdmins' = {} =>
       \E r \in Request :
         /\ request[r].at = "commit" /\ request'[r] = Idle
         /\ \/ request[r].op = "role"
            \/ request[r].seen # user[Target(r)]
            \/ request[r].count # Cardinality(SuperAdmins)]_vars
=============================================================================
