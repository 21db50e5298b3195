----------------------------- MODULE JobResults -----------------------------
(***************************************************************************)
(* What a crawl of one job search config does to the stored jobs           *)
(* (crawl_service.crawl_single_config and process_job_results): jobs that  *)
(* are missing too often become inactive, listings are matched with stored *)
(* rows by id and then by (title, company, salary), the others are         *)
(* inserted and announced, and one transaction commits all of it.          *)
(*                                                                         *)
(* Two crawls of a config are kept apart by the profile lease, until it    *)
(* expires, and the user may delete the config at any time: the            *)
(* transactions interleave at READ COMMITTED.  A session works with the    *)
(* attributes a row had when it first loaded it, its flushes lock the rows *)
(* they update, and its commit writes the columns it has changed.          *)
(***************************************************************************)
EXTENDS Naturals, FiniteSets, Functions

CONSTANTS
  Crawl,      \* crawls of the config that may be in flight at once
  Listing,    \* job ids of the platform
  NoListing,
  Offer,      \* Offer[l]: the (title, company, salary) of listing l
  Unpriced,   \* listings without a salary: they are not matched by offer
  RowId,      \* primary keys of the jobs table
  Threshold,  \* deactivation_threshold
  MaxCrawls   \* bound on the crawls of a behaviour

VARIABLES
  begun,      \* crawls begun so far
  exists,     \* the config has not been deleted
  row,        \* row[r]: the jobs row with primary key r
  session,    \* session[c]: the database session of crawl c
  announced,  \* announced[l]: how often l was in a notification, up to 2
  lost,       \* listings announced by a crawl that did not commit
  renamed,    \* listings whose row was given to another listing
  missed,     \* missed[r]: crawls in a row that did not see r's job
  miscounted  \* rows whose counter does not start from the last crawl that saw them

history == <<announced, lost, renamed, missed, miscounted>>
vars == <<begun, exists, row, session, history>>

Row == [listing : Listing \cup {NoListing}, active : BOOLEAN, miss : 0..MaxCrawls]
AbsentRow == [listing |-> NoListing, active |-> FALSE, miss |-> 0]

\* seen: the listings of the result; old, new: the rows loaded, as they were
\* and as the session has changed them; locked: rows whose update is flushed;
\* fresh: the listings to insert.
IdleSession == [stage |-> "idle", seen |-> {}, old |-> <<>>, new |-> <<>>,
                locked |-> {}, fresh |-> {}]

Stored == {r \in RowId : row[r].listing # NoListing}

TypeOK ==
  /\ begun \in 0..MaxCrawls
  /\ exists \in BOOLEAN
  /\ row \in [RowId -> Row]
  /\ \A c \in Crawl :
       /\ session[c].stage \in {"idle", "read", "matched", "flushed", "notified"}
       /\ session[c].seen \cup session[c].fresh \subseteq Listing
       /\ session[c].locked \subseteq DOMAIN session[c].new
       /\ DOMAIN session[c].new = DOMAIN session[c].old
  /\ announced \in [Listing -> 0..2]
  /\ missed \in [RowId -> 0..MaxCrawls]

Init ==
  /\ begun = 0
  /\ exists = TRUE
  /\ row = [r \in RowId |-> AbsentRow]
  /\ session = [c \in Crawl |-> IdleSession]
  /\ announced = [l \in Listing |-> 0]
  /\ lost = {} /\ renamed = {} /\ miscounted = {}
  /\ missed = [r \in RowId |-> 0]

---------------------------------------------------------------------------
(* The session of one crawl                                                *)

\* Seeded error: a job is deactivated one crawl too early.
CountedEarly(job, S) ==
  IF job.listing \in S
  THEN [job EXCEPT !.miss = 0]
  ELSE [job EXCEPT !.miss = @ + 1, !.active = job.miss + 2 < Threshold]

\* The grace period: a job that is still listed starts again from 0.
Counted(job, S) ==
  IF job.listing \in S
  THEN [job EXCEPT !.miss = 0]
  ELSE [job EXCEPT !.miss = @ + 1, !.active = job.miss + 1 < Threshold]

\* The active jobs, as loaded and as counted; an empty result counts nothing.
Active(S) == {r \in Stored : S # {} /\ row[r].active}
LoadedJobs(S) == [r \in Active(S) |-> row[r]]
CountedJobs(S) == [r \in Active(S) |-> Counted(row[r], S)]

\* The adapter has delivered S.  A result that it reports as an error does not
\* come here (it leaves a line in the crawl log).
Begin(c, S) ==
  /\ session[c].stage = "idle" /\ exists
  /\ begun < MaxCrawls /\ begun' = begun + 1
  /\ session' = [session EXCEPT ![c] =
       [stage |-> "read", seen |-> S, old |-> LoadedJobs(S), new |-> CountedJobs(S),
        locked |-> {}, fresh |-> {}]]
  /\ UNCHANGED <<exists, row, history>>

Dirty(c) == {r \in DOMAIN session[c].new : session[c].new[r] # session[c].old[r]}

\* The UPDATEs of a flush wait for rows that another session has locked, and
\* fail on rows that are gone.
Flushable(c) ==
  /\ Dirty(c) \subseteq Stored
  /\ \A d \in Crawl \ {c} : session[d].locked \cap Dirty(c) = {}

\* The session's object for row r: a SELECT does not refresh a loaded one.
Loaded(c, r) == IF r \in DOMAIN session[c].new THEN session[c].new[r] ELSE row[r]

\* The rows whose job_id is in the result (and whose object says so too).
FoundById(c) ==
  {r \in Stored : /\ row[r].listing \in session[c].seen
                  /\ Loaded(c, r).listing \in session[c].seen}

\* Listings that are to be looked up by offer.
Unfound(c) ==
  session[c].seen \ {Loaded(c, r).listing : r \in {q \in Stored : row[q].listing \in session[c].seen}}

SameOffer(c, l) ==
  {r \in Stored : l \notin Unpriced /\ Loaded(c, r).listing \notin Unpriced
                  /\ Offer[Loaded(c, r).listing] = Offer[l]}

Repeated(c) == {l \in Unfound(c) : SameOffer(c, l) # {}}

\* The rows of the session after the lookups, as they were and as they are to
\* be when the rows in given get the job ids it says.
OldRows(c, rows) ==
  [r \in rows |-> IF r \in DOMAIN session[c].old THEN session[c].old[r] ELSE row[r]]
NewRows(c, rows, given) ==
  [r \in rows |->
     [listing |-> IF r \in DOMAIN given THEN given[r] ELSE Loaded(c, r).listing,
      active |-> r \in FoundById(c) \cup DOMAIN given \/ Loaded(c, r).active,
      miss |-> Loaded(c, r).miss]]

\* The first flush, then both lookups.  Of several rows with one offer the
\* lookup keeps one, and of several listings with one offer the last one
\* gives the row its id.
Match(c) ==
  /\ session[c].stage = "read" /\ Flushable(c)
  /\ \E reused \in SUBSET Stored : \E given \in [reused -> Repeated(c)] :
       /\ \A r \in reused : r \in SameOffer(c, given[r])
       /\ \A l \in Repeated(c) : \E r \in reused :
            {q \in reused : Offer[given[q]] = Offer[l]} = {r}
       /\ LET rows == DOMAIN session[c].new \cup FoundById(c) \cup reused
          IN session' = [session EXCEPT ![c] =
               [stage |-> "matched", seen |-> session[c].seen,
                old |-> OldRows(c, rows), new |-> NewRows(c, rows, given),
                locked |-> Dirty(c), fresh |-> Unfound(c) \ Repeated(c)]]
  /\ UNCHANGED <<begun, exists, row, history>>

\* The rows that the session gives another job id, and the ids it gives.
Reused(c) == {r \in Dirty(c) : session[c].new[r].listing # session[c].old[r].listing}
Claimed(c) == session[c].fresh \cup {session[c].new[r].listing : r \in Reused(c)}

InTransaction(c) == session[c].stage \in {"flushed", "notified"}

\* The unique constraint on (search_config_id, job_id): an id in use is an
\* error, one in another's uncommitted flush is waited for.
IdsFree(c) ==
  /\ \A r \in Stored : row[r].listing \notin session[c].fresh
  /\ \A q \in Reused(c), r \in Stored : row[r].listing = session[c].new[q].listing => r = q
  /\ \A d \in Crawl \ {c} : InTransaction(d) => Claimed(d) \cap Claimed(c) = {}

\* Seeded error: jobs has no unique constraint.
FlushWithoutConstraint(c) ==
  /\ session[c].stage = "matched" /\ exists
  /\ Flushable(c)
  /\ session' = [session EXCEPT ![c].stage = "flushed", ![c].locked = Dirty(c)]
  /\ UNCHANGED <<begun, exists, row, history>>

\* The inserts lock the config row against deletion.
Flush(c) ==
  /\ session[c].stage = "matched" /\ exists
  /\ Flushable(c) /\ IdsFree(c)
  /\ session' = [session EXCEPT ![c].stage = "flushed", ![c].locked = Dirty(c)]
  /\ UNCHANGED <<begun, exists, row, history>>

\* Before the commit.  No webhook, or a failed delivery, leaves this out.
Notify(c) ==
  /\ session[c].stage = "flushed" /\ session[c].fresh # {}
  /\ session' = [session EXCEPT ![c].stage = "notified"]
  /\ announced' = [l \in Listing |->
       IF l \in session[c].fresh /\ announced[l] < 2 THEN announced[l] + 1 ELSE announced[l]]
  /\ UNCHANGED <<begun, exists, row, lost, renamed, missed, miscounted>>

\* Seeded error: a job that is seen again stays inactive.
WrittenExceptActive(c, r) ==
  LET new == session[c].new[r] IN [new EXCEPT !.active = row[r].active /\ new.active]

\* The UPDATE of r sets the columns that differ from what was loaded.
Written(c, r) ==
  LET old == session[c].old[r]
      new == session[c].new[r]
  IN [f \in DOMAIN row[r] |-> IF new[f] # old[f] THEN new[f] ELSE row[r][f]]

\* Ghosts: what the committed crawl did to each job's record.
Remember(c) ==
  /\ missed' = [r \in RowId |->
       IF session[c].seen = {} THEN missed[r]
       ELSE IF row'[r].listing \in session[c].seen \/ ~row'[r].active
       THEN 0 ELSE missed[r] + 1]
  /\ miscounted' = {r \in RowId :
       /\ row'[r].miss # 0
       /\ \/ row'[r].listing \in session[c].seen \/ r \in miscounted
          \/ r \in Dirty(c) /\ session[c].old[r] # row[r]}
  /\ renamed' = renamed \cup {row[r].listing : r \in {q \in Stored : row'[q].listing # row[q].listing}}

\* Jobs and crawl log; the log line needs the config.
Commit(c) ==
  /\ InTransaction(c) /\ exists
  /\ session' = [session EXCEPT ![c] = IdleSession]
  /\ LET s == session[c]
     IN \E place \in [s.fresh -> RowId \ Stored] :
          /\ IsInjective(place)
          /\ row' = [r \in RowId |->
               IF r \in Dirty(c) THEN Written(c, r)
               ELSE IF r \in Range(place)
               THEN [listing |-> AntiFunction(place)[r], active |-> TRUE, miss |-> 0]
               ELSE row[r]]
  /\ Remember(c)
  /\ UNCHANGED <<begun, exists, announced, lost>>

\* A conflict, a row or the config deleted meanwhile, a lost connection, the
\* death of the process: nothing of the transaction remains.
Abort(c) ==
  /\ session[c].stage # "idle"
  /\ session' = [session EXCEPT ![c] = IdleSession]
  /\ lost' = IF session[c].stage = "notified" THEN lost \cup session[c].fresh ELSE lost
  /\ UNCHANGED <<begun, exists, row, announced, renamed, missed, miscounted>>

\* DELETE /jobs/configs/{id}: the jobs go with the config.
DeleteConfig ==
  /\ exists
  /\ \A c \in Crawl : session[c].locked = {} /\ (InTransaction(c) => session[c].fresh = {})
  /\ exists' = FALSE
  /\ row' = [r \in RowId |-> AbsentRow]
  /\ UNCHANGED <<begun, session, history>>

Next ==
  \/ \E c \in Crawl :
       \/ \E S \in SUBSET Listing : Begin(c, S)
       \/ Match(c)
       \/ Flush(c)
       \/ Notify(c)
       \/ Commit(c)
       \/ Abort(c)
  \/ DeleteConfig

Spec == Init /\ [][Next]_vars

---------------------------------------------------------------------------
(* Properties                                                              *)

\* A job is announced as new once.  A second notification about it is sent
\* only if the crawl that sent the first never committed (the notification
\* goes out before the commit), or the job's row was given to another job id
\* with the same offer.
AnnouncedOnce ==
  \A l \in Listing : announced[l] = 2 => l \in lost \cup renamed

\* Nothing changed under the session: what it loaded is still what is stored.
Undisturbed(c) ==
  /\ \A r \in DOMAIN session[c].old : session[c].old[r] = row[r]

\* When a crawl commits and nobody else has changed the jobs it loaded, every
\* listing it saw is on an active row, under its own id or that of a listing
\* of the same offer.
SeenIsListed ==
  [][\A c \in Crawl : Commit(c) /\ Undisturbed(c) =>
       \A l \in session[c].seen : \E r \in RowId :
         /\ row'[r].active
         /\ row'[r].listing \in session[c].seen
         /\ row'[r].listing = l \/ Offer[row'[r].listing] = Offer[l]]_vars

\* A job becomes inactive only after Threshold crawls in a row without it,
\* unless its counter does not say how many there were: the crawl that saw it
\* last left it as it was (the job had been inactive, or was matched by offer
\* under a new id), or an overlapping crawl wrote the counter it had loaded
\* before, plus one, over the reset.
DeactivationIsEarned ==
  [][\A c \in Crawl, r \in RowId :
       Commit(c) /\ Undisturbed(c) /\ row[r].active /\ ~row'[r].active =>
         r \in miscounted \/ missed[r] + 1 >= Threshold]_vars
=============================================================================
