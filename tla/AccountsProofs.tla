--------------------------- MODULE AccountsProofs ---------------------------
(***************************************************************************)
(* Proofs about LoginLockout, WeChatLogin and Admin, the latter two as the *)
(* instances WeChat and Users of MCAccounts, whose sets and bounds are     *)
(* constants: for any number of requests, users and QR codes.              *)
(***************************************************************************)
EXTENDS MCAccounts, FiniteSetTheorems, TLAPS

---------------------------------------------------------------------------
(* LoginLockout                                                            *)

IInv == TypeOK /\ LockoutHasExpiry

\* A request that has passed the gate may still count one failure.
Verifying == {r \in Request : at[r] = "verify"}
Room ==
  /\ TypeOK
  /\ name = "registered" =>
       attempts + Cardinality(Verifying) <= MaxAttempts - 1 + Cardinality(Request)

\* For any number of concurrent logins, no counter is left without an expiry
\* by the interleaving of INCR, EXPIRE and DEL alone.
THEOREM LockoutHasExpiryHolds == Spec => []LockoutHasExpiry
<1>1. Init => IInv
  BY DEF Init, IInv, TypeOK, LockoutHasExpiry
<1>2. IInv /\ [Next]_vars => IInv'
  <2> SUFFICES ASSUME IInv, [Next]_vars PROVE IInv'
    OBVIOUS
  <2> USE DEF IInv, TypeOK, LockoutHasExpiry, Move
  <2>1. ASSUME NEW r \in Request, UnknownName(r) \/ WrongPassword(r)
        PROVE  IInv'
    BY <2>1 DEF UnknownName, WrongPassword, RecordFailedLogin
  <2>2. ASSUME NEW r \in Request, Gate(r)
        PROVE  IInv'
    BY <2>2 DEF Gate
  <2>3. ASSUME NEW r \in Request, RightPassword(r)
        PROVE  IInv'
    BY <2>3 DEF RightPassword
  <2>4. ASSUME NEW r \in Request, SetExpiry(r)
        PROVE  IInv'
    BY <2>4 DEF SetExpiry
  <2>5. ASSUME NEW r \in Request, Die(r)
        PROVE  IInv'
    BY <2>5 DEF Die
  <2>6. CASE KeyExpires
    BY <2>6 DEF KeyExpires
  <2>7. CASE UNCHANGED vars
    BY <2>7 DEF vars
  <2> QED
    BY <2>1, <2>2, <2>3, <2>4, <2>5, <2>6, <2>7 DEF Next
<1>3. IInv => LockoutHasExpiry
  BY DEF IInv
<1> QED
  BY <1>1, <1>2, <1>3, PTL DEF Spec

\* The sets of requests of a step that takes r past the gate, or back.
LEMMA VerifyingChanges ==
  ASSUME TypeOK, NEW r \in Request, NEW place \in {"free", "verify", "expire"}, Move(r, place)
  PROVE  /\ Cardinality(Verifying) \in Nat
         /\ Cardinality(Verifying') \in Nat
         /\ Cardinality(Verifying') <= Cardinality(Request)
         /\ at[r] = "verify" /\ place # "verify"
              => Cardinality(Verifying') = Cardinality(Verifying) - 1
         /\ at[r] # "verify" /\ place # "verify" => Verifying' = Verifying
<1>1. IsFiniteSet(Verifying) /\ IsFiniteSet(Verifying')
  BY RequestAssumption, FS_Subset DEF Verifying
<1>2. Cardinality(Verifying) \in Nat /\ Cardinality(Verifying') \in Nat
  BY <1>1, FS_CardinalityType
<1>3. Cardinality(Verifying') <= Cardinality(Request)
  BY RequestAssumption, FS_Subset DEF Verifying
<1>4. ASSUME at[r] = "verify", place # "verify"
      PROVE  Cardinality(Verifying') = Cardinality(Verifying) - 1
  <2>1. Verifying' = Verifying \ {r} /\ r \in Verifying
    BY <1>4 DEF Verifying, Move, TypeOK
  <2> QED
    BY <1>1, <2>1, FS_RemoveElement
<1>5. ASSUME at[r] # "verify", place # "verify"
      PROVE  Verifying' = Verifying
  BY <1>5 DEF Verifying, Move, TypeOK
<1> QED
  BY <1>2, <1>3, <1>4, <1>5

\* At most one failure beyond the limit for every other request in flight, for
\* any number of requests.
THEOREM AttemptsBoundedHolds == Spec => []AttemptsBounded
<1>1. Init => Room
  <2> SUFFICES ASSUME Init PROVE Room
    OBVIOUS
  <2>1. Verifying = {}
    BY DEF Init, Verifying
  <2> QED
    BY <2>1, FS_EmptySet, FS_CardinalityType, RequestAssumption, MaxAttemptsAssumption
       DEF Init, Room, TypeOK
<1>2. Room /\ [Next]_vars => Room'
  <2> SUFFICES ASSUME Room, [Next]_vars PROVE Room'
    OBVIOUS
  <2>0. Cardinality(Request) \in Nat /\ MaxAttempts \in Nat /\ MaxAttempts > 0
    BY RequestAssumption, FS_CardinalityType, MaxAttemptsAssumption
  <2> USE DEF Room, TypeOK
  <2>1. ASSUME NEW r \in Request, UnknownName(r)
        PROVE  Room'
    BY <2>1 DEF UnknownName, RecordFailedLogin, Move
  <2>2. ASSUME NEW r \in Request, Gate(r)
        PROVE  Room'
    <3>1. Cardinality(Verifying') \in Nat /\ Cardinality(Verifying') <= Cardinality(Request)
      BY <2>2, VerifyingChanges DEF Gate
    <3> QED
      BY <2>0, <2>2, <3>1 DEF Gate, Move
  <2>3. ASSUME NEW r \in Request, WrongPassword(r)
        PROVE  Room'
    <3>1. /\ Cardinality(Verifying) \in Nat
          /\ Cardinality(Verifying') = Cardinality(Verifying) - 1
      BY <2>3, VerifyingChanges DEF WrongPassword, RecordFailedLogin
    <3> QED
      BY <2>0, <2>3, <3>1 DEF WrongPassword, RecordFailedLogin, Move
  <2>4. ASSUME NEW r \in Request, RightPassword(r)
        PROVE  Room'
    <3>1. Cardinality(Verifying') \in Nat /\ Cardinality(Verifying') <= Cardinality(Request)
      BY <2>4, VerifyingChanges DEF RightPassword
    <3> QED
      BY <2>0, <2>4, <3>1 DEF RightPassword, Move
  <2>5. ASSUME NEW r \in Request, SetExpiry(r)
        PROVE  Room'
    <3>1. Verifying' = Verifying
      BY <2>5, VerifyingChanges DEF SetExpiry
    <3> QED
      BY <2>5, <3>1 DEF SetExpiry, Move
  <2>6. ASSUME NEW r \in Request, Die(r)
        PROVE  Room'
    <3>1. /\ Cardinality(Verifying) \in Nat
          /\ Cardinality(Verifying') \in Nat
          /\ Cardinality(Verifying') <= Cardinality(Verifying)
      BY <2>6, VerifyingChanges DEF Die
    <3> QED
      BY <2>0, <2>6, <3>1 DEF Die, Move
  <2>7. CASE KeyExpires
    <3>1. Verifying' = Verifying
      BY <2>7 DEF KeyExpires, Verifying
    <3>2. Cardinality(Verifying) \in Nat /\ Cardinality(Verifying) <= Cardinality(Request)
      BY RequestAssumption, FS_Subset, FS_CardinalityType DEF Verifying
    <3> QED
      BY <2>0, <2>7, <3>1, <3>2 DEF KeyExpires
  <2>8. CASE UNCHANGED vars
    <3>1. Verifying' = Verifying
      BY <2>8 DEF vars, Verifying
    <3> QED
      BY <2>8, <3>1 DEF vars
  <2> QED
    BY <2>1, <2>2, <2>3, <2>4, <2>5, <2>6, <2>7, <2>8 DEF Next
<1>3. Room => AttemptsBounded
  <2>1. Cardinality(Verifying) \in Nat /\ Cardinality(Request) \in Nat
    BY RequestAssumption, FS_Subset, FS_CardinalityType DEF Verifying
  <2> QED
    BY <2>1, MaxAttemptsAssumption DEF Room, TypeOK, AttemptsBounded
<1> QED
  BY <1>1, <1>2, <1>3, PTL DEF Spec

---------------------------------------------------------------------------
(* WeChatLogin                                                             *)

\* What a store or a call may hold of a code.
CodeEntry == {None} \cup [openid : Openid \cup {None}, status : {"none", "error", "unbound", "success"}]

WeChatTypeOK ==
  /\ states \subseteq Scan
  /\ redis \in [Scan -> CodeEntry]
  /\ local \in [Scan -> CodeEntry]
  /\ callback \in [Scan -> [at : {"none", "lookup", "save", "done", "lost"},
                           openid : Openid \cup {None},
                           status : {"none", "error", "unbound", "success"}]]
  /\ call \in [Exchange -> [at : {"none", "consume", "delete", "entry"},
                            code : Scan \cup {None}, entry : CodeEntry]]
  /\ \A e \in Exchange : call[e].at # "none" => call[e].code \in Scan
  /\ answered \in [Scan -> Nat]

\* A state is good for one callback.
StateOnce == \A s \in states : callback[s] = WeChat!NoCallback

Carries(e, s) == call[e].at = "entry" /\ call[e].code = s /\ call[e].entry # None

\* Nothing is left of a code but the answer it gave.
UsedUp(s) ==
  /\ redis[s] = None /\ local[s] = None
  /\ \A e \in Exchange : ~Carries(e, s)

\* Before its callback is done nobody can have a code.  Then it is in one
\* place at most: in Redis, in the process, with one call, or answered.
OnePlace(s) ==
  /\ callback[s].at # "done" => UsedUp(s) /\ answered[s] = 0
  /\ answered[s] > 0 => UsedUp(s) /\ answered[s] = 1
  /\ redis[s] # None => local[s] = None /\ \A e \in Exchange : ~Carries(e, s)
  /\ local[s] # None => \A e \in Exchange : ~Carries(e, s)
  /\ \A e, f \in Exchange : Carries(e, s) /\ Carries(f, s) => e = f

\* With GETDEL, which leaves nothing behind in Redis.
WeChatInv ==
  /\ WeChatTypeOK /\ StateOnce
  /\ getdel => /\ \A e \in Exchange : call[e].at # "delete"
               /\ \A s \in Scan \ twice : OnePlace(s)

LEMMA WeChatInitInv == WeChat!Init => WeChatInv
  BY DEF WeChat!Init, WeChat!NoCallback, WeChat!NoCall, WeChatInv, WeChatTypeOK, CodeEntry,
         StateOnce, Carries, UsedUp, OnePlace

LEMMA WeChatStepInv == WeChatInv /\ [WeChat!Next]_(WeChat!vars) => WeChatInv'
<1> SUFFICES ASSUME WeChatInv, [WeChat!Next]_(WeChat!vars) PROVE WeChatInv'
  OBVIOUS
<1> USE DEF WeChatInv, WeChatTypeOK, CodeEntry, StateOnce, Carries, UsedUp, OnePlace,
            WeChat!NoCallback, WeChat!NoCall, WeChat!stores, WeChat!accounts, WeChat!Goto
<1>1. ASSUME NEW s \in Scan, WeChat!Show(s) PROVE WeChatInv'
  BY <1>1 DEF WeChat!Show
<1>2. ASSUME NEW s \in Scan, NEW o \in Openid \cup {None}, WeChat!Callback(s, o) PROVE WeChatInv'
  BY <1>2 DEF WeChat!Callback
<1>3. ASSUME NEW s \in Scan, WeChat!Lookup(s) PROVE WeChatInv'
  <2>1. callback[s].at = "lookup" /\ UNCHANGED <<getdel, states, redis, local, call, answered, twice>>
    BY <1>3 DEF WeChat!Lookup
  <2> DEFINE Found(place, verdict) ==
               callback' = [callback EXCEPT ![s] =
                              [at |-> place, openid |-> callback[s].openid, status |-> verdict]]
  <2>2. \/ Found("done", "unbound") \/ Found("done", "success")
        \/ Found("save", "unbound") \/ Found("save", "success")
    <3> DEFINE disabled == \E u \in WeChat!UserOf(callback[s].openid) : active[u] = "disabled"
               unknown == WeChat!UserOf(callback[s].openid) = {}
               moved == [callback EXCEPT ![s].at = IF disabled THEN "done" ELSE "save"]
    <3>1. callback' = [moved EXCEPT ![s].status = IF unknown THEN "unbound" ELSE "success"]
      BY <1>3 DEF WeChat!Lookup
    <3>2. moved \in {[callback EXCEPT ![s].at = "done"], [callback EXCEPT ![s].at = "save"]}
      OBVIOUS
    <3> HIDE DEF disabled, unknown, moved
    <3>3. callback' \in {[moved EXCEPT ![s].status = "unbound"], [moved EXCEPT ![s].status = "success"]}
      BY <3>1
    <3> QED
      BY <3>2, <3>3
  <2>3. CASE Found("done", "unbound")
    BY <2>1, <2>3
  <2>4. CASE Found("done", "success")
    BY <2>1, <2>4
  <2>5. CASE Found("save", "unbound")
    BY <2>1, <2>5
  <2>6. CASE Found("save", "success")
    BY <2>1, <2>6
  <2> QED
    BY <2>2, <2>3, <2>4, <2>5, <2>6
<1>4. ASSUME NEW s \in Scan, WeChat!Save(s) PROVE WeChatInv'
  BY <1>4 DEF WeChat!Save, WeChat!Entry
<1>5. ASSUME NEW e \in Exchange, NEW s \in Scan, WeChat!Ask(e, s) PROVE WeChatInv'
  BY <1>5 DEF WeChat!Ask
<1>6. ASSUME NEW e \in Exchange, WeChat!Consume(e) PROVE WeChatInv'
  <2> DEFINE s == call[e].code
             To(place, entry) ==
               call' = [call EXCEPT ![e] = [at |-> place, code |-> s, entry |-> entry]]
             FromRedis ==
               /\ To("entry", redis[s])
               /\ redis' = [redis EXCEPT ![s] = None] /\ UNCHANGED local
             ReadOnly ==
               ~getdel /\ To("delete", redis[s]) /\ UNCHANGED <<redis, local>>
             FromProcess ==
               /\ To("entry", local[s])
               /\ local' = [local EXCEPT ![s] = None]
               /\ redis' = redis \/ redis' = [redis EXCEPT ![s] = None]
  <2>1. s \in Scan
    BY <1>6 DEF WeChat!Consume
  <2>2. /\ UNCHANGED <<getdel, states, callback, answered, twice>>
        /\ FromRedis \/ ReadOnly \/ FromProcess
    BY <1>6 DEF WeChat!Consume, WeChat!Fallback
  <2> HIDE DEF s
  <2>3. CASE FromRedis
    BY <2>1, <2>2, <2>3
  <2>4. CASE ReadOnly
    BY <2>1, <2>2, <2>4
  <2>5. CASE FromProcess
    BY <2>1, <2>2, <2>5
  <2> QED
    BY <2>2, <2>3, <2>4, <2>5
<1>7. ASSUME NEW e \in Exchange, WeChat!ConsumeDelete(e) PROVE WeChatInv'
  <2> DEFINE s == call[e].code
  <2>1. s \in Scan
    BY <1>7 DEF WeChat!ConsumeDelete
  <2>2. /\ UNCHANGED <<getdel, states, callback, answered, twice>>
        /\ ~getdel
        /\ \E entry \in {call[e].entry, local[s]} :
             call' = [call EXCEPT ![e] = [at |-> "entry", code |-> s, entry |-> entry]]
        /\ redis' = redis \/ redis' = [redis EXCEPT ![s] = None]
        /\ local' = local \/ local' = [local EXCEPT ![s] = None]
    BY <1>7 DEF WeChat!ConsumeDelete, WeChat!Fallback
  <2> HIDE DEF s
  <2> QED
    BY <2>1, <2>2
<1>8. ASSUME NEW e \in Exchange, WeChat!Answer(e) PROVE WeChatInv'
  BY <1>8 DEF WeChat!Answer
<1>9. ASSUME NEW u \in User, NEW o \in Openid, WeChat!Bind(o, u) \/ WeChat!Register(o, u)
      PROVE  WeChatInv'
  BY <1>9 DEF WeChat!Bind, WeChat!Register
<1>10. ASSUME NEW u \in User, NEW status \in {"active", "disabled", "deleted"},
              WeChat!Administer(u, status)
       PROVE  WeChatInv'
  BY <1>10 DEF WeChat!Administer
<1>11. CASE WeChat!Expire
  BY <1>11 DEF WeChat!Expire
<1>12. CASE WeChat!Restart
  BY <1>12 DEF WeChat!Restart
<1>13. CASE UNCHANGED WeChat!vars
  BY <1>13 DEF WeChat!vars
<1> HIDE DEF WeChatInv, WeChatTypeOK, CodeEntry, StateOnce, Carries, UsedUp, OnePlace
<1> QED
  BY <1>1, <1>2, <1>3, <1>4, <1>5, <1>6, <1>7, <1>8, <1>9, <1>10, <1>11, <1>12, <1>13
     DEF WeChat!Next

\* However calls overlap and Redis fails, a one-time code is answered once,
\* for any number of codes and calls, as long as Redis knows GETDEL and the
\* save of the code was not carried out and reported as failed.
THEOREM CodesAreAnsweredOnce == WeChat!Spec => []CodeAnsweredOnce
<1>1. WeChatInv => CodeAnsweredOnce
  BY DEF WeChatInv, WeChatTypeOK, OnePlace, CodeAnsweredOnce, WeChat!CodeAnsweredOnce
<1> QED
  BY <1>1, WeChatInitInv, WeChatStepInv, PTL DEF WeChat!Spec

---------------------------------------------------------------------------
(* Admin                                                                   *)

Account == [role : Users!Role \cup {"none"}, active : BOOLEAN, deleted : BOOLEAN]

\* update_user, delete_user and restore_user.
Edits == {"role", "disable", "delete", "restore"}

Counted == {Cardinality(S) : S \in SUBSET User}

Asked == [op : Edits \cup {"idle", "create", "grant", "regrant"},
          at : {"idle", "load", "count", "commit"}, actor : Users!Role \cup {"none"},
          on : SUBSET User, seen : Account, count : Counted, write : Account,
          grant : SUBSET Resource]

\* A removal that is about to be committed has counted, if it removes a
\* super_admin, another one besides.
UsersInv ==
  /\ user \in [User -> Account]
  /\ request \in [Exchange -> Asked]
  /\ \A r \in Exchange : request[r].op # "idle" => \E u \in User : request[r].on = {u}
  /\ \A r \in Exchange : request[r].at \in {"count", "commit"} => request[r].op \in Edits
  /\ \A r \in Exchange :
       /\ request[r].at = "commit" /\ Users!Removes(request[r])
       /\ request[r].seen.role = "super_admin"
       => request[r].count > 1

\* The instance has a copy of the library's operator.
LEMMA SameCardinality == \A S : Users!Cardinality(S) = Cardinality(S)
  BY DEF Users!Cardinality, Cardinality

LEMMA ZeroCounted == 0 \in Counted
  BY FS_EmptySet DEF Counted

LEMMA IdleAsked == Users!Idle \in Asked
  BY ZeroCounted DEF Asked, Account, Edits, Users!Idle, Users!NoUser, Users!Role

LEMMA UsersInitInv == Users!Init => UsersInv
<1> SUFFICES ASSUME Users!Init PROVE UsersInv
  OBVIOUS
<1>1. user \in [User -> Account]
  <2>1. \A role \in Users!Role : [role |-> role, active |-> TRUE, deleted |-> FALSE] \in Account
    BY DEF Account
  <2>2. Users!NoUser \in Account
    BY DEF Account, Users!NoUser
  <2> QED
    BY <2>1, <2>2 DEF Users!Init
<1>2. request = [r \in Exchange |-> Users!Idle]
  BY DEF Users!Init
<1> QED
  BY <1>1, <1>2, IdleAsked DEF UsersInv, Users!Idle

\* The columns that a commit writes.
LEMMA WrittenType ==
  ASSUME NEW req \in Asked, NEW old \in Account
  PROVE  Users!Written(req, old) \in Account
<1> USE DEF Asked, Account
<1>1. CASE req.op = "role"
  BY <1>1 DEF Users!Written
<1>2. CASE req.op = "disable"
  BY <1>2 DEF Users!Written
<1>3. CASE req.op = "delete"
  BY <1>3 DEF Users!Written
<1>4. CASE req.op = "restore"
  <2>1. CASE req.seen.active /\ req.seen.deleted
    BY <1>4, <2>1 DEF Users!Written
  <2>2. CASE ~req.seen.active /\ req.seen.deleted
    BY <1>4, <2>2 DEF Users!Written
  <2>3. CASE req.seen.active /\ ~req.seen.deleted
    BY <1>4, <2>3 DEF Users!Written
  <2>4. CASE ~req.seen.active /\ ~req.seen.deleted
    BY <1>4, <2>4 DEF Users!Written
  <2> QED
    BY <2>1, <2>2, <2>3, <2>4
<1>5. CASE req.op \notin Edits
  BY <1>5 DEF Users!Written, Edits
<1> QED
  BY <1>1, <1>2, <1>3, <1>4, <1>5 DEF Edits

\* Restoring a user that nobody has touched since, and that is in use, changes
\* nothing.
LEMMA RestoreKeeps ==
  ASSUME NEW req \in Asked, req.op = "restore", req.seen.active, ~req.seen.deleted
  PROVE  Users!Written(req, req.seen) = req.seen
  BY DEF Users!Written, Asked, Account

LEMMA UsersStepInv == UsersInv /\ [Users!Next]_(Users!vars) => UsersInv'
<1> SUFFICES ASSUME UsersInv, [Users!Next]_(Users!vars) PROVE UsersInv'
  OBVIOUS
\* What a request becomes when it is accepted, or left.
<1>0. ASSUME NEW r \in Exchange, NEW req \in Asked, request' = [request EXCEPT ![r] = req],
             user' \in [User -> Account],
             req.op # "idle" => \E u \in User : req.on = {u},
             req.at \in {"count", "commit"} => req.op \in Edits,
             req.at = "commit" /\ Users!Removes(req) /\ req.seen.role = "super_admin" => req.count > 1
      PROVE  UsersInv'
  BY <1>0 DEF UsersInv
<1>1. ASSUME NEW r \in Exchange, Users!Leave(r), user' \in [User -> Account] PROVE UsersInv'
  <2>1. request' = [request EXCEPT ![r] = Users!Idle]
    BY <1>1 DEF Users!Leave
  <2> QED
    BY <1>0, <1>1, <2>1, IdleAsked DEF Users!Idle
<1>2. ASSUME NEW r \in Exchange, NEW a \in User, NEW permission, NEW req \in Asked,
             Users!Accept(r, a, permission, req), \E u \in User : req.on = {u}
      PROVE  UsersInv'
  <2> DEFINE asked == [req EXCEPT !.actor = user[a].role, !.at = "load"]
  <2>1. asked \in Asked /\ asked.at = "load" /\ asked.on = req.on
    BY <1>2 DEF Asked, Account, UsersInv
  <2>2. request' = [request EXCEPT ![r] = asked] /\ user' = user
    BY <1>2 DEF Users!Accept
  <2> HIDE DEF asked
  <2> QED
    BY <1>0, <1>2, <2>1, <2>2 DEF UsersInv
<1>3. ASSUME NEW r \in Exchange, NEW a \in User, NEW u \in User, NEW role \in Users!Role,
             Users!AskCreate(r, a, u, role) \/ Users!AskRole(r, a, u, role)
      PROVE  UsersInv'
  <2> DEFINE create == [Users!Idle EXCEPT !.op = "create", !.on = {u},
                          !.write = [role |-> role, active |-> TRUE, deleted |-> FALSE]]
             change == [Users!Idle EXCEPT !.op = "role", !.on = {u},
                          !.write = [Users!NoUser EXCEPT !.role = role]]
  <2>1. create \in Asked /\ create.on = {u} /\ change \in Asked /\ change.on = {u}
    BY IdleAsked DEF Asked, Account, Edits, Users!Idle, Users!NoUser
  <2>2. \E permission : \/ Users!Accept(r, a, permission, create)
                        \/ Users!Accept(r, a, permission, change)
    BY <1>3 DEF Users!AskCreate, Users!AskRole
  <2> HIDE DEF create, change
  <2> QED
    BY <1>2, <2>1, <2>2
<1>4. ASSUME NEW r \in Exchange, NEW a \in User, NEW u \in User,
             NEW op \in {"disable", "restore", "delete"}, Users!AskActive(r, a, u, op)
      PROVE  UsersInv'
  <2> DEFINE req == [Users!Idle EXCEPT !.op = op, !.on = {u}]
  <2>1. req \in Asked /\ req.on = {u}
    BY IdleAsked DEF Asked, Account, Edits, Users!Idle, Users!NoUser
  <2>2. \E permission : Users!Accept(r, a, permission, req)
    BY <1>4 DEF Users!AskActive
  <2> HIDE DEF req
  <2> QED
    BY <1>2, <2>1, <2>2
<1>5. ASSUME NEW r \in Exchange, NEW a \in User, NEW u \in User, NEW op \in {"grant", "regrant"},
             NEW granted \in SUBSET Resource, Users!AskGrant(r, a, op, u, granted)
      PROVE  UsersInv'
  <2> DEFINE req == [Users!Idle EXCEPT !.op = op, !.on = {u}, !.grant = granted]
  <2>1. req \in Asked /\ req.on = {u}
    BY IdleAsked DEF Asked, Account, Edits, Users!Idle, Users!NoUser
  <2>2. Users!Accept(r, a, "user:manage", req)
    BY <1>5 DEF Users!AskGrant
  <2> HIDE DEF req
  <2> QED
    BY <1>2, <2>1, <2>2
<1>6. ASSUME NEW r \in Exchange, Users!Load(r) PROVE UsersInv'
  <2> DEFINE loaded == [request[r] EXCEPT !.seen = user[Users!Target(r)]]
             last == Users!Removes(request[r]) /\ user[Users!Target(r)].role = "super_admin"
             place == IF last THEN "count" ELSE "commit"
  <2>1. user' \in [User -> Account] /\ request[r].op \in Edits /\ request[r] \in Asked
    BY <1>6 DEF Users!Load, UsersInv, Edits
  <2>2. \/ Users!Leave(r)
        \/ request' = [request EXCEPT ![r].seen = user[Users!Target(r)], ![r].at = place]
    BY <1>6 DEF Users!Load
  <2>3. CASE Users!Leave(r)
    BY <1>1, <2>1, <2>3
  <2>4. CASE request' = [request EXCEPT ![r].seen = user[Users!Target(r)], ![r].at = place]
    <3>1. PICK u \in User : request[r].on = {u}
      BY <2>1 DEF UsersInv, Edits
    <3>2. Users!Target(r) = u
      BY <3>1 DEF Users!Target
    <3>3. loaded \in Asked /\ loaded.on = {u} /\ loaded.op = request[r].op
      BY <2>1, <3>1, <3>2 DEF Asked, UsersInv
    <3>4. loaded.seen = user[Users!Target(r)]
      BY <2>1 DEF Asked
    <3>5. request' = [request EXCEPT ![r] = [loaded EXCEPT !.at = place]]
      BY <2>4 DEF UsersInv
    <3> HIDE DEF loaded
    <3>6. CASE last
      <4>1. request' = [request EXCEPT ![r] = [loaded EXCEPT !.at = "count"]]
        BY <3>5, <3>6
      <4>2. [loaded EXCEPT !.at = "count"] \in Asked
        BY <3>3 DEF Asked
      <4> QED
        BY <1>0, <2>1, <3>1, <3>3, <4>1, <4>2 DEF Asked
    <3>7. CASE ~last
      <4>1. request' = [request EXCEPT ![r] = [loaded EXCEPT !.at = "commit"]]
        BY <3>5, <3>7
      <4>2. [loaded EXCEPT !.at = "commit"] \in Asked
        BY <3>3 DEF Asked
      <4> QED
        BY <1>0, <2>1, <3>1, <3>3, <3>4, <3>7, <4>1, <4>2 DEF Asked, Users!Removes
    <3> QED
      BY <3>6, <3>7
  <2> QED
    BY <2>2, <2>3, <2>4
<1>7. ASSUME NEW r \in Exchange, Users!Count(r) PROVE UsersInv'
  <2> DEFINE n == Cardinality(Users!SuperAdmins)
             counted == [request[r] EXCEPT !.at = "commit", !.count = n]
  <2>1. user' \in [User -> Account] /\ request[r].op \in Edits /\ request[r] \in Asked
    BY <1>7 DEF Users!Count, UsersInv, Edits
  <2>2. \/ Users!Leave(r)
        \/ n > 1 /\ request' = [request EXCEPT ![r] = counted]
    <3>1. \/ Users!Leave(r)
          \/ n > 1 /\ request' = [request EXCEPT ![r].at = "commit", ![r].count = n]
      BY <1>7, SameCardinality DEF Users!Count, Users!NotLast
    <3> HIDE DEF n
    <3>2. request' = [request EXCEPT ![r].at = "commit", ![r].count = n]
            => request' = [request EXCEPT ![r] = counted]
      BY DEF UsersInv
    <3> QED
      BY <3>1, <3>2
  <2>3. CASE Users!Leave(r)
    BY <1>1, <2>1, <2>3
  <2>4. CASE n > 1 /\ request' = [request EXCEPT ![r] = counted]
    <3>1. n \in Counted
      BY DEF Users!SuperAdmins, Counted
    <3> HIDE DEF n
    <3>2. /\ counted \in Asked /\ counted.on = request[r].on /\ counted.op = request[r].op
          /\ counted.count = n
      BY <2>1, <3>1 DEF Asked
    <3>3. \E u \in User : counted.on = {u}
      BY <2>1, <3>2 DEF UsersInv, Edits
    <3> HIDE DEF counted
    <3> QED
      BY <1>0, <2>1, <2>4, <3>2, <3>3
  <2> QED
    BY <2>2, <2>3, <2>4
<1>8. ASSUME NEW r \in Exchange, Users!Commit(r) PROVE UsersInv'
  <2>1. request[r] \in Asked /\ request[r].op \in Edits
    BY <1>8 DEF Users!Commit, UsersInv
  <2>2. Users!Target(r) \in User
    BY <2>1 DEF Users!Target, UsersInv, Edits
  <2>3. Users!Written(request[r], user[Users!Target(r)]) \in Account
    BY <2>1, <2>2, WrittenType DEF UsersInv
  <2>4. user' \in [User -> Account]
    BY <1>8, <2>3 DEF Users!Commit, UsersInv
  <2> QED
    BY <1>1, <1>8, <2>4 DEF Users!Commit
<1>9. ASSUME NEW r \in Exchange, Users!CommitFails(r) PROVE UsersInv'
  BY <1>1, <1>9 DEF Users!CommitFails, UsersInv
<1>10. ASSUME NEW r \in Exchange, Users!Create(r) PROVE UsersInv'
  <2>1. request[r].write \in Account
    BY DEF UsersInv, Asked
  <2>2. user' \in [User -> Account]
    BY <1>10, <2>1 DEF Users!Create, UsersInv
  <2> QED
    BY <1>1, <1>10, <2>2 DEF Users!Create
<1>11. ASSUME NEW r \in Exchange, Users!Grant(r) \/ Users!Regrant(r) PROVE UsersInv'
  BY <1>1, <1>11 DEF Users!Grant, Users!Regrant, UsersInv
<1>12. ASSUME NEW a \in User, NEW role \in Users!Role, NEW permissions,
              Users!SetRole(a, role, permissions)
       PROVE  UsersInv'
  BY <1>12 DEF Users!SetRole, UsersInv, Users!Removes
<1>13. CASE UNCHANGED Users!vars
  BY <1>13 DEF Users!vars, UsersInv, Users!Removes
<1> QED
  BY <1>3, <1>4, <1>5, <1>6, <1>7, <1>8, <1>9, <1>10, <1>11, <1>12, <1>13 DEF Users!Next

\* Only a commit that removes the one super_admin leaves none: by a change of
\* his role, or because the user or the number of super_admins has changed
\* since they were read.
LEMMA LastRemoval ==
  ASSUME UsersInv, Users!Next, Users!SuperAdmins # {}, Users!SuperAdmins' = {}
  PROVE  \E r \in Exchange :
           /\ request[r].at = "commit" /\ request'[r] = Users!Idle
           /\ \/ request[r].op = "role"
              \/ request[r].seen # user[Users!Target(r)]
              \/ request[r].count # Users!Cardinality(Users!SuperAdmins)
<1>1. PICK r \in Exchange : Users!Commit(r)
  <2>1. user' # user
    BY DEF Users!SuperAdmins
  <2>2. ASSUME NEW r \in Exchange, Users!Create(r) PROVE FALSE
    <3>1. \A u \in Users!SuperAdmins : u \in Users!SuperAdmins'
      BY <2>2 DEF Users!SuperAdmins, Users!Create, Users!Exists, Users!NoUser, UsersInv
    <3> QED
      BY <3>1
  <2>3. ASSUME NEW r \in Exchange, NEW a, NEW permission, NEW req, Users!Accept(r, a, permission, req)
        PROVE  user' = user
    BY <2>3 DEF Users!Accept
  <2>4. ASSUME NEW r \in Exchange, NEW a \in User, NEW u \in User,
               \/ \E role \in Users!Role : Users!AskCreate(r, a, u, role) \/ Users!AskRole(r, a, u, role)
               \/ \E op \in {"disable", "restore", "delete"} : Users!AskActive(r, a, u, op)
               \/ \E op, granted : Users!AskGrant(r, a, op, u, granted)
        PROVE  user' = user
    BY <2>3, <2>4 DEF Users!AskCreate, Users!AskRole, Users!AskActive, Users!AskGrant
  <2>5. ASSUME NEW r \in Exchange,
               \/ Users!Load(r) \/ Users!Count(r) \/ Users!CommitFails(r)
               \/ Users!Grant(r) \/ Users!Regrant(r)
        PROVE  user' = user
    BY <2>5 DEF Users!Load, Users!Count, Users!CommitFails, Users!Grant, Users!Regrant
  <2>6. ASSUME NEW a, NEW role, NEW permissions, Users!SetRole(a, role, permissions)
        PROVE  user' = user
    BY <2>6 DEF Users!SetRole
  <2> QED
    BY <2>1, <2>2, <2>4, <2>5, <2>6 DEF Users!Next
<1> DEFINE u == Users!Target(r)
           req == request[r]
<1>2. req \in Asked /\ req.op \in Edits /\ req.at = "commit" /\ request'[r] = Users!Idle
  BY <1>1 DEF Users!Commit, Users!Leave, UsersInv
<1>3. u \in User
  BY <1>2 DEF Users!Target, UsersInv, Edits
<1>4. user' = [user EXCEPT ![u] = Users!Written(req, user[u])]
  BY <1>1 DEF Users!Commit
<1>5. Users!SuperAdmins = {u}
  BY <1>3, <1>4 DEF Users!SuperAdmins, UsersInv
<1>6. Users!Cardinality(Users!SuperAdmins) = 1
  BY <1>5, FS_Singleton, SameCardinality
<1>7. ASSUME req.seen = user[u], req.count = 1 PROVE req.op = "role"
  <2>1. req.seen.role = "super_admin" /\ req.seen.active /\ ~req.seen.deleted
    BY <1>5, <1>7 DEF Users!SuperAdmins
  <2>2. ~Users!Removes(req)
    BY <1>2, <1>7, <2>1 DEF UsersInv
  <2>3. ASSUME req.op = "restore" PROVE FALSE
    <3>1. user'[u] = user[u]
      BY <1>2, <1>3, <1>4, <1>7, <2>1, <2>3, RestoreKeeps DEF UsersInv
    <3> QED
      BY <1>3, <1>5, <3>1 DEF Users!SuperAdmins
  <2> QED
    BY <1>2, <2>2, <2>3 DEF Edits, Users!Removes
<1> QED
  BY <1>2, <1>6, <1>7

\* The last super_admin goes only by a change of his role, which the code does
\* not check, or by a removal whose reads another commit has overtaken, for any
\* number of requests and users.
THEOREM SuperAdminStays == Users!Spec => LastSuperAdminStays
<1> DEFINE Excused ==
             \E r \in Exchange :
               /\ request[r].at = "commit" /\ request'[r] = Users!Idle
               /\ \/ request[r].op = "role"
                  \/ request[r].seen # user[Users!Target(r)]
                  \/ request[r].count # Users!Cardinality(Users!SuperAdmins)
<1>1. UsersInv /\ [Users!Next]_(Users!vars)
        => [Users!SuperAdmins # {} /\ Users!SuperAdmins' = {} => Excused]_(Users!vars)
  BY LastRemoval
<1> HIDE DEF Excused
<1>2. Users!Spec => [][Users!SuperAdmins # {} /\ Users!SuperAdmins' = {} => Excused]_(Users!vars)
  BY <1>1, UsersInitInv, UsersStepInv, PTL DEF Users!Spec
<1> QED
  BY <1>2 DEF Excused, LastSuperAdminStays, Users!LastSuperAdminStays
=============================================================================
