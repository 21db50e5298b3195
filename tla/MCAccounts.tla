----------------------------- MODULE MCAccounts -----------------------------
(* Accounts, and what is remembered about them and about the workers, as    *)
(* small instances for TLC, of which one moves in a behaviour while the     *)
(* others stay as they are (focus):                                         *)
(*   "lockout"  the instance of LoginLockout that the cfg describes;        *)
(*   "wechat"   WeChatLogin with one scan, called from two windows;         *)
(*   "admin"    Admin with two requests on two users;                       *)
(*   "cache"    UserConfigCache with two processes and three readers;       *)
(*   "registry" WorkerRegistry with two workers.                            *)
EXTENDS LoginLockout, TLC

CONSTANTS
  Scan, Openid, User, Exchange, MaxCalls,  \* WeChatLogin; User and Exchange serve Admin, too
  Resource, MaxEdits,                      \* Admin
  u1, u2, r1, r2, r3,                      \* UserConfigCache and WorkerRegistry
  None

VARIABLES
  focus,
  getdel, states, redis, local, callback, call, answered, twice, temp, bound, active, calls,
  user, can, grants, request, edits,
  stored, cached, reader, holder, writer,
  row, pc, once, seen, stale, exits

wechatVars == <<getdel, states, redis, local, callback, call, answered, twice, temp, bound,
                active, calls>>
adminVars == <<user, can, grants, request, edits>>
cacheVars == <<stored, cached, reader, holder, writer>>
registryVars == <<row, pc, once, seen, stale, exits>>

WeChat == INSTANCE WeChatLogin

Users == INSTANCE Admin WITH Request <- Exchange

\* The API and a worker: two readers in one process, one in the other.
ProcessOf == (r1 :> "api") @@ (r2 :> "api") @@ (r3 :> "worker")

Cache == INSTANCE UserConfigCache
  WITH Reader <- {r1, r2, r3}, Writer <- {u1, u2}, MaxWrites <- 2

Registry == INSTANCE WorkerRegistry WITH Worker <- {u1, u2}, MaxExits <- 2

\* The one user of the initial state of what has not the focus
First == CHOOSE u \in User : TRUE

MCInit ==
  /\ focus \in {"lockout", "wechat", "admin", "cache", "registry"}
  /\ Init /\ WeChat!Init /\ Users!Init /\ Cache!Init /\ Registry!Init
  /\ focus # "lockout" => name = "unknown"
  /\ focus # "wechat" => getdel /\ bound[First] # None
  /\ focus # "admin" => user[First].role = "super_admin" /\ \A u \in User \ {First} : ~Users!Exists(u)
  /\ focus # "cache" => cached = None
  /\ focus # "registry" => \A w \in DOMAIN once : once[w]

MCNext ==
  /\ UNCHANGED focus
  /\ \/ /\ focus = "lockout" /\ Next
        /\ UNCHANGED <<wechatVars, adminVars, cacheVars, registryVars>>
     \/ /\ focus = "wechat" /\ WeChat!Next
        /\ UNCHANGED <<vars, adminVars, cacheVars, registryVars>>
     \/ /\ focus = "admin" /\ Users!Next
        /\ UNCHANGED <<vars, wechatVars, cacheVars, registryVars>>
     \/ /\ focus = "cache" /\ Cache!Next
        /\ UNCHANGED <<vars, wechatVars, adminVars, registryVars>>
     \/ /\ focus = "registry" /\ Registry!Next
        /\ UNCHANGED <<vars, wechatVars, adminVars, cacheVars>>

MCSpec ==
  /\ MCInit /\ [][MCNext]_<<focus, vars, wechatVars, adminVars, cacheVars, registryVars>>
  /\ focus = "lockout" => Fairness
  /\ focus = "cache" => Cache!Fairness
  /\ focus = "registry" => Registry!Fairness

\* The properties of the instances, which the modules explain.
CodeAnsweredOnce == WeChat!CodeAnsweredOnce
LastSuperAdminStays == Users!LastSuperAdminStays
ConfigSettles == Cache!ConfigSettles
RegistryCatchesUp == Registry!RegistryCatchesUp
=============================================================================
