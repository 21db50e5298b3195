-------------------------- MODULE UserConfigCache --------------------------
(***************************************************************************)
(* core/user_config_cache.py: the webhook of a user, kept in Redis for the *)
(* notifications of the workers, and the config endpoints that write it.   *)
(* A reader fills the cache with what it loaded some steps ago, a writer   *)
(* commits and then invalidates; Redis may fail for either.                *)
(***************************************************************************)
EXTENDS Naturals

CONSTANTS
  Reader,    \* coroutines that call get_cached_user_config
  ProcessOf, \* Reader -> the process it runs in, which has one _fetch_lock
  Writer,    \* requests to /config
  MaxWrites, \* bound on the changes of the webhook
  None

Config == 0..MaxWrites   \* the webhook after so many changes

VARIABLES
  stored,   \* users.feishu_webhook_url
  cached,   \* user:config:<id> in Redis, or None
  reader,   \* Reader -> where it is, and the configuration it loaded
  holder,   \* process -> the reader that has _fetch_lock, or None
  writer    \* Writer -> where it is

vars == <<stored, cached, reader, holder, writer>>

Process == {ProcessOf[r] : r \in Reader}
At(r) == reader[r].at
Away == [at |-> "away", config |-> None]   \* not asking, or answered by a hit

Init ==
  /\ stored = 0
  /\ cached \in {None, 0}
  /\ reader = [r \in Reader |-> Away]
  /\ holder = [p \in Process |-> None]
  /\ writer = [w \in Writer |-> "away"]

Goto(r, at) == reader' = [reader EXCEPT ![r].at = at]

\* The first look at the cache: a miss, or a read that fails, queues for the
\* lock of the process; a hit is the answer
Look(r) ==
  /\ At(r) = "away"
  /\ Goto(r, "waiting")
  /\ UNCHANGED <<stored, cached, holder, writer>>

Lock(r) ==
  /\ At(r) = "waiting" /\ holder[ProcessOf[r]] = None
  /\ holder' = [holder EXCEPT ![ProcessOf[r]] = r]
  /\ Goto(r, "locked")
  /\ UNCHANGED <<stored, cached, writer>>

Unlock(r) == holder' = [holder EXCEPT ![ProcessOf[r]] = None]

\* The second look, under the lock
Recheck(r) ==
  /\ At(r) = "locked"
  /\ \/ cached # None /\ reader' = [reader EXCEPT ![r] = Away] /\ Unlock(r)
     \/ Goto(r, "miss") /\ UNCHANGED holder     \* also when the read fails
  /\ UNCHANGED <<stored, cached, writer>>

\* _fetch_and_cache: the SELECT ...
Load(r) ==
  /\ At(r) = "miss"
  /\ reader' = [reader EXCEPT ![r] = [at |-> "loaded", config |-> stored]]
  /\ UNCHANGED <<stored, cached, holder, writer>>

\* ... and the SETEX, which may fail: the reader has its answer in any case
Fill(r) ==
  /\ At(r) = "loaded"
  /\ cached' \in {cached, reader[r].config}
  /\ reader' = [reader EXCEPT ![r] = Away]
  /\ Unlock(r)
  /\ UNCHANGED <<stored, writer>>

\* create_or_update_config and update_config_partial commit the change
Write(w) ==
  /\ writer[w] = "away" /\ stored < MaxWrites
  /\ stored' = stored + 1
  /\ writer' = [writer EXCEPT ![w] = "committed"]
  /\ UNCHANGED <<cached, reader, holder>>

\* invalidate_user_config_cache: a failure is logged, and a process that dies
\* here does not even try
Invalidate(w) ==
  /\ writer[w] = "committed"
  /\ cached' \in {cached, None}
  /\ writer' = [writer EXCEPT ![w] = "away"]
  /\ UNCHANGED <<stored, reader, holder>>

\* Seeded error: an entry that is set without a time to live stays.
ExpireNever == FALSE /\ UNCHANGED vars

\* CACHE_TTL_SECONDS have passed
Expire ==
  /\ cached # None
  /\ cached' = None
  /\ UNCHANGED <<stored, reader, holder, writer>>

Read(r) == Look(r) \/ Lock(r) \/ Recheck(r) \/ Load(r) \/ Fill(r)

Next ==
  \/ \E r \in Reader : Read(r)
  \/ \E w \in Writer : Write(w) \/ Invalidate(w)
  \/ Expire

\* Time passes, and a reader that has begun goes on: the SELECT and the
\* SETEX have time-outs.
Fairness ==
  /\ WF_vars(Expire)
  /\ \A r \in Reader : WF_vars(Recheck(r) \/ Load(r) \/ Fill(r))

Spec == Init /\ [][Next]_vars /\ Fairness

----------------------------------------------------------------------------
(* Once the user leaves the configuration alone, what the notifications    *)
(* use comes to agree with it and stays so, although a late fill or a lost *)
(* invalidation may keep an old webhook in use for a while.                *)
Stale == cached \notin {None, stored}

ConfigSettles == <>[](~Stale)
=============================================================================
