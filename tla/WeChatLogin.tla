---------------------------- MODULE WeChatLogin -----------------------------
(***************************************************************************)
(* WeChat login (domains/auth/wechat_router.py): a QR code carries a state *)
(* that is good for one callback, the callback leaves a one-time code in   *)
(* Redis, or in the memory of the process when Redis fails, and the client *)
(* exchanges the code for a session, or for a temporary token with which   *)
(* it binds an account or registers one.                                   *)
(***************************************************************************)
EXTENDS Naturals, FiniteSets

CONSTANTS
  Scan,      \* QR codes shown; the state of a scan also names its exchange code
  Openid,    \* WeChat identities
  User,      \* accounts
  Exchange,  \* calls of /exchange under way at a time
  MaxCalls,  \* bound on the calls of /exchange
  None

VARIABLES
  getdel,    \* whether Redis knows GETDEL
  states,    \* _state_cache
  redis,     \* Scan -> the entry under its code in Redis, or None
  local,     \* the same in the fallback store of the process
  callback,  \* Scan -> where its callback is, and the identity it found
  call,      \* Exchange -> where the call is, its code and the entry it read
  answered,  \* Scan -> how many calls had an answer from the code
  twice,     \* history variable: codes that a failing save left in both stores
  temp,      \* identities with a temporary token
  bound,     \* User -> its wechat_openid, or None
  active,    \* User -> "active", "disabled", "deleted" or "none"
  calls

vars == <<getdel, states, redis, local, callback, call, answered, twice, temp, bound, active, calls>>
stores == <<redis, local>>
accounts == <<bound, active>>

NoCallback == [at |-> "none", openid |-> None, status |-> "none"]
NoCall == [at |-> "none", code |-> None, entry |-> None]

Init ==
  /\ getdel \in BOOLEAN
  /\ states = {}
  /\ redis = [s \in Scan |-> None]
  /\ local = [s \in Scan |-> None]
  /\ callback = [s \in Scan |-> NoCallback]
  /\ call = [e \in Exchange |-> NoCall]
  /\ answered = [s \in Scan |-> 0]
  /\ twice = {}
  /\ temp = {}
  /\ \E u \in User, o \in Openid \cup {None} :
       /\ bound = [v \in User |-> IF v = u THEN o ELSE None]
       /\ active = [v \in User |-> IF v = u THEN "active" ELSE "none"]
  /\ calls = 0

\* get_active_user_by_wechat_openid
UserOf(o) == {u \in User : bound[u] = o /\ active[u] \in {"active", "disabled"}}

----------------------------------------------------------------------------
(* The QR code and the callback.                                           *)

\* get_wechat_qr_url
Show(s) ==
  /\ s \notin states /\ callback[s] = NoCallback
  /\ states' = states \cup {s}
  /\ UNCHANGED <<getdel, stores, callback, call, answered, twice, temp, accounts, calls>>

\* The state is taken out before WeChat is asked who scanned; a second
\* callback with it finds nothing, and neither does one after ten minutes
Callback(s, o) ==
  /\ s \in states
  /\ states' = states \ {s}
  /\ callback' = [callback EXCEPT ![s] =
       IF o = None THEN [at |-> "done", openid |-> None, status |-> "error"]
       ELSE [at |-> "lookup", openid |-> o, status |-> "none"]]
  /\ UNCHANGED <<getdel, stores, call, answered, twice, temp, accounts, calls>>

\* An account that is disabled ends the login, any other one decides on the
\* status of the entry
Lookup(s) ==
  LET found == UserOf(callback[s].openid) IN
  /\ callback[s].at = "lookup"
  /\ callback' = [callback EXCEPT
       ![s].at = IF \E u \in found : active[u] = "disabled" THEN "done" ELSE "save",
       ![s].status = IF found = {} THEN "unbound" ELSE "success"]
  /\ UNCHANGED <<getdel, states, stores, call, answered, twice, temp, accounts, calls>>

Entry(s) == [openid |-> callback[s].openid, status |-> callback[s].status]

\* RedisWeChatExchangeCodeStore.save: an error of Redis, which may have
\* carried the command out all the same, saves the entry in the process
Save(s) ==
  /\ callback[s].at = "save"
  /\ \/ redis' = [redis EXCEPT ![s] = Entry(s)] /\ UNCHANGED <<local, twice>>
     \/ local' = [local EXCEPT ![s] = Entry(s)] /\ UNCHANGED <<redis, twice>>
     \/ /\ redis' = [redis EXCEPT ![s] = Entry(s)]
        /\ local' = [local EXCEPT ![s] = Entry(s)]
        /\ twice' = twice \cup {s}
  /\ callback' = [callback EXCEPT ![s].at = "done"]
  /\ UNCHANGED <<getdel, states, call, answered, temp, accounts, calls>>

----------------------------------------------------------------------------
(* The exchange of the code.                                               *)

Ask(e, s) ==
  /\ call[e] = NoCall /\ calls < MaxCalls
  /\ callback[s].at = "done"
  /\ call' = [call EXCEPT ![e] = [at |-> "consume", code |-> s, entry |-> None]]
  /\ calls' = calls + 1
  /\ UNCHANGED <<getdel, states, stores, callback, answered, twice, temp, accounts>>

Goto(e, at, entry) == call' = [call EXCEPT ![e].at = at, ![e].entry = entry]

\* The fallback store answers when Redis fails or has no entry
Fallback(e) ==
  /\ local' = [local EXCEPT ![call[e].code] = None]
  /\ Goto(e, "entry", local[call[e].code])

\* Seeded error: a Redis that knows GETDEL is read with GET all the same.
ConsumeReading(e) ==
  /\ call[e].at = "consume"
  /\ \/ redis[call[e].code] # None /\ Goto(e, "delete", redis[call[e].code]) /\ UNCHANGED stores
     \/ redis[call[e].code] = None /\ Fallback(e) /\ UNCHANGED redis
  /\ UNCHANGED <<getdel, states, callback, answered, twice, temp, accounts, calls>>

\* consume: GETDEL, or GET when Redis does not know it; an error may come
\* after Redis has carried the command out
Consume(e) ==
  LET s == call[e].code IN
  /\ call[e].at = "consume"
  /\ \/ /\ getdel /\ redis[s] # None
        /\ redis' = [redis EXCEPT ![s] = None]
        /\ Goto(e, "entry", redis[s]) /\ UNCHANGED local
     \/ /\ ~getdel /\ redis[s] # None
        /\ Goto(e, "delete", redis[s]) /\ UNCHANGED stores
     \/ redis[s] = None /\ Fallback(e) /\ UNCHANGED redis
     \/ redis' \in {redis, IF getdel THEN [redis EXCEPT ![s] = None] ELSE redis} /\ Fallback(e)
  /\ UNCHANGED <<getdel, states, callback, answered, twice, temp, accounts, calls>>

\* The DEL after the GET; when it fails the fallback store is asked, which
\* rarely has the entry
ConsumeDelete(e) ==
  /\ call[e].at = "delete"
  /\ \/ redis' = [redis EXCEPT ![call[e].code] = None] /\ Goto(e, "entry", call[e].entry) /\ UNCHANGED local
     \/ redis' \in {redis, [redis EXCEPT ![call[e].code] = None]} /\ Fallback(e)
  /\ UNCHANGED <<getdel, states, callback, answered, twice, temp, accounts, calls>>

\* No entry: 400.  Unbound: the temporary token.  Success: a session of the
\* account that is bound to the identity now, or an error.
Answer(e) ==
  LET entry == call[e].entry IN
  /\ call[e].at = "entry"
  /\ IF entry = None THEN UNCHANGED <<answered, temp>>
     ELSE /\ answered' = [answered EXCEPT ![call[e].code] = @ + 1]
          /\ temp' = IF entry.status = "unbound" THEN temp \cup {entry.openid} ELSE temp
  /\ call' = [call EXCEPT ![e] = NoCall]
  /\ UNCHANGED <<getdel, states, stores, callback, twice, accounts, calls>>

----------------------------------------------------------------------------
(* Accounts.  The column is unique, over deleted accounts as well.         *)

Free(o, u) == \A v \in User \ {u} : active[v] = "none" \/ bound[v] # o

\* bind_wechat_account: with name and password of an account in use; an
\* identity that account had before is overwritten
Bind(o, u) ==
  /\ o \in temp /\ UserOf(o) = {} /\ Free(o, u)
  /\ active[u] = "active"
  /\ bound' = [bound EXCEPT ![u] = o]
  /\ UNCHANGED <<getdel, states, stores, callback, call, answered, twice, temp, active, calls>>

\* register_with_wechat
Register(o, u) ==
  /\ o \in temp /\ UserOf(o) = {} /\ Free(o, u)
  /\ active[u] = "none"
  /\ bound' = [bound EXCEPT ![u] = o]
  /\ active' = [active EXCEPT ![u] = "active"]
  /\ UNCHANGED <<getdel, states, stores, callback, call, answered, twice, temp, calls>>

\* An administrator, meanwhile
Administer(u, status) ==
  /\ active[u] # "none"
  /\ active' = [active EXCEPT ![u] = status]
  /\ UNCHANGED <<getdel, states, stores, callback, call, answered, twice, temp, bound, calls>>

\* Ten minutes have passed for a state, a code or a temporary token
Expire ==
  /\ \/ \E s \in states : states' = states \ {s} /\ UNCHANGED <<redis, local, temp>>
     \/ \E s \in Scan :
          /\ redis[s] # None \/ local[s] # None
          /\ callback[s].at = "done"
          /\ redis' = [redis EXCEPT ![s] = None]
          /\ local' = [local EXCEPT ![s] = None]
          /\ UNCHANGED <<states, temp>>
     \/ \E o \in temp : temp' = temp \ {o} /\ UNCHANGED <<states, redis, local>>
  /\ UNCHANGED <<getdel, callback, call, answered, twice, accounts, calls>>

\* A restart of the API loses what the process keeps and the calls under way
Restart ==
  /\ states' = {}
  /\ local' = [s \in Scan |-> None]
  /\ callback' = [s \in Scan |->
       IF callback[s].at \in {"lookup", "save"} THEN [NoCallback EXCEPT !.at = "lost"] ELSE callback[s]]
  /\ call' = [e \in Exchange |-> NoCall]
  /\ UNCHANGED <<getdel, redis, answered, twice, temp, accounts, calls>>

Next ==
  \/ \E s \in Scan :
       \/ Show(s) \/ Lookup(s) \/ Save(s)
       \/ \E o \in Openid \cup {None} : Callback(s, o)
  \/ \E e \in Exchange :
       \/ Consume(e) \/ ConsumeDelete(e) \/ Answer(e)
       \/ \E s \in Scan : Ask(e, s)
  \/ \E u \in User :
       \/ \E o \in Openid : Bind(o, u) \/ Register(o, u)
       \/ \E status \in {"active", "disabled", "deleted"} : Administer(u, status)
  \/ Expire \/ Restart

Spec == Init /\ [][Next]_vars

----------------------------------------------------------------------------
(* A one-time code is answered once, whichever store it is in and whatever *)
(* of Redis fails, except in two cases: Redis knows no GETDEL, so that two *)
(* calls may read the code before either deletes it; or the save was       *)
(* carried out and reported as failed, which leaves the code in both       *)
(* stores.                                                                 *)
CodeAnsweredOnce ==
  \A s \in Scan : answered[s] > 1 => ~getdel \/ s \in twice
=============================================================================
