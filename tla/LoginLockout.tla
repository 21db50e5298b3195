---------------------------- MODULE LoginLockout ----------------------------
(***************************************************************************)
(* The lockout of one login name: the Redis key login_attempts:<name>      *)
(* (login_lockout.py) and the part of the login endpoint that consults it  *)
(* (auth/router.py).  Every await is a place where other requests run; a   *)
(* Redis command is atomic, a sequence of them is not.                     *)
(***************************************************************************)
EXTENDS Integers, FiniteSets

CONSTANTS
  Request,      \* the login requests that may be in flight at once
  MaxAttempts,  \* MAX_LOGIN_ATTEMPTS
  MaxCount      \* bound on the counter of a name that nobody has registered

ASSUME RequestAssumption == IsFiniteSet(Request)
ASSUME MaxAttemptsAssumption == MaxAttempts \in Nat \ {0}

VARIABLES
  name,      \* whether the name is one of a user
  attempts,  \* the value of the key, 0 when there is no key
  expiry,    \* whether the key has an expiry
  lost,      \* the requests that ever died between their INCR and their EXPIRE
  at         \* at[r]: how far request r has got

vars == <<name, attempts, expiry, lost, at>>

TypeOK ==
  /\ name \in {"registered", "unknown"}
  /\ attempts \in Nat
  /\ expiry \in {"none", "set"}
  /\ lost \in SUBSET Request
  /\ at \in [Request -> {"free", "verify", "expire"}]

Init ==
  /\ name \in {"registered", "unknown"}
  /\ attempts = 0 /\ expiry = "none"
  /\ lost = {}
  /\ at = [r \in Request |-> "free"]

Move(r, place) == at' = [at EXCEPT ![r] = place]

\* Seeded error: the expiry comes with the failure that locks the name.
RecordFailureLate(r) ==
  /\ attempts' = attempts + 1
  /\ Move(r, IF attempts' = MaxAttempts THEN "expire" ELSE "free")

\* INCR, and on the first failure an EXPIRE to come.
RecordFailedLogin(r) ==
  /\ attempts' = attempts + 1
  /\ Move(r, IF attempts' = 1 THEN "expire" ELSE "free")

\* Nobody has the name: the failure counts, without a look at the counter.
UnknownName(r) ==
  /\ at[r] = "free"
  /\ name = "unknown"
  /\ attempts < MaxCount
  /\ RecordFailedLogin(r)
  /\ UNCHANGED <<name, expiry, lost>>

\* Seeded error: > instead of >= in is_account_locked.
GateTooLate(r) ==
  /\ at[r] = "free"
  /\ name = "registered"
  /\ attempts <= MaxAttempts
  /\ Move(r, "verify")
  /\ UNCHANGED <<name, attempts, expiry, lost>>

\* is_account_locked lets the request through; otherwise it is answered 429.
Gate(r) ==
  /\ at[r] = "free"
  /\ name = "registered"
  /\ attempts < MaxAttempts
  /\ Move(r, "verify")
  /\ UNCHANGED <<name, attempts, expiry, lost>>

WrongPassword(r) ==
  /\ at[r] = "verify"
  /\ RecordFailedLogin(r)
  /\ UNCHANGED <<name, expiry, lost>>

\* clear_login_attempts; the login goes on in UserSessions.
RightPassword(r) ==
  /\ at[r] = "verify"
  /\ attempts' = 0 /\ expiry' = "none"
  /\ Move(r, "free")
  /\ UNCHANGED <<name, lost>>

\* Seeded error: PERSIST in place of EXPIRE.
SetNoExpiry(r) ==
  /\ at[r] = "expire"
  /\ expiry' = "none"
  /\ Move(r, "free")
  /\ UNCHANGED <<name, attempts, lost>>

\* EXPIRE does nothing to a key that is gone by now.
SetExpiry(r) ==
  /\ at[r] = "expire"
  /\ expiry' = IF attempts > 0 THEN "set" ELSE "none"
  /\ Move(r, "free")
  /\ UNCHANGED <<name, attempts, lost>>

KeyExpires ==
  /\ expiry = "set"
  /\ attempts' = 0 /\ expiry' = "none"
  /\ UNCHANGED <<name, lost, at>>

\* The process dies, the user turns out to be deleted, or Redis fails the next
\* command.
Die(r) ==
  /\ at[r] # "free"
  /\ lost' = IF at[r] = "expire" THEN lost \cup {r} ELSE lost
  /\ Move(r, "free")
  /\ UNCHANGED <<name, attempts, expiry>>

Next ==
  \/ \E r \in Request : \/ UnknownName(r) \/ Gate(r) \/ WrongPassword(r)
                        \/ RightPassword(r) \/ SetExpiry(r) \/ Die(r)
  \/ KeyExpires

\* A handler that reached its EXPIRE sends it, and Redis drops a key in time;
\* nobody has to log in.
Fairness == WF_vars(KeyExpires) /\ \A r \in Request : WF_vars(SetExpiry(r))

Spec == Init /\ [][Next]_vars /\ Fairness

-----------------------------------------------------------------------------
(* Properties.                                                             *)

\* Requests that passed the gate together may each count a failure, nobody
\* after them: router.py:229-244.
AttemptsBounded ==
  name = "registered" => attempts <= MaxAttempts + Cardinality(Request) - 1

\* A counter without expiry is about to get one, unless a request died between
\* its two commands: login_lockout.py:35-37.
LockoutHasExpiry ==
  attempts > 0 /\ expiry = "none" => lost # {} \/ \E r \in Request : at[r] = "expire"

\* A locked name opens again, unless a request died there (the 15 min lockout
\* of router.py:217).
LockoutEnds == attempts >= MaxAttempts ~> attempts < MaxAttempts \/ lost # {}
=============================================================================
