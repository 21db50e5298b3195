--------------------------- MODULE ServicesProofs ---------------------------
(***************************************************************************)
(* Proofs about SmartHome, Blog, Scheduling and PriceAlerts, as the        *)
(* instances Home, Posts, Crons and Products of MCServices, whose sets and *)
(* bounds are constants.                                                   *)
(***************************************************************************)
EXTENDS MCServices, FiniteSetTheorems, TLAPS

---------------------------------------------------------------------------
(* SmartHome.  What holds while the lock is free follows from what holds   *)
(* while it is taken: its holder is the one stream that waits for the old  *)
(* connection to end, and that connection has been cancelled.              *)


HomeStage == {"away", "joining", "open", "leaving", "switching", "stopping", "closed"}

HomeTypeOK ==
  /\ stream \in [Task -> HomeStage]
  /\ subscribers \subseteq Task
  /\ lock \in Task \cup {None}
  /\ connection \in Task \cup {None}
  /\ running \subseteq Task
  /\ cancelled \subseteq Task
  /\ abandoned \subseteq Task

\* A stream has its queue from its subscription on; what is left behind
\* belongs to streams that are closed.
HomeQueues ==
  /\ {s \in Task : stream[s] \in {"open", "leaving", "switching"}} = subscribers \ abandoned
  /\ \A s \in abandoned : stream[s] = "closed"

\* The lock is held across a wait by one stream, which is replacing the
\* connection for its own queue or closing it after the last one.
HomeLock ==
  /\ \A s \in Task : stream[s] \in {"switching", "stopping"} <=> lock = s
  /\ lock # None => connection \in cancelled /\ running \subseteq cancelled
  /\ lock # None /\ stream[lock] = "stopping" => subscribers = {}

\* A stream that has not subscribed, or not yet got its connection, has never
\* had one.
HomeFresh ==
  \A s \in Task :
    stream[s] \in {"away", "joining", "switching"} => s \notin running \cup cancelled \cup {connection}

HomeInv == HomeTypeOK /\ HomeQueues /\ HomeLock /\ HomeFresh /\ Home!StreamsAreServed

(* Before the first configuration nobody has a connection.                 *)
LEMMA HomeInitInv == ASSUME None \notin Task, Home!Init PROVE HomeInv
BY DEF Home!Init, HomeInv, HomeTypeOK, HomeStage, HomeQueues, HomeLock, HomeFresh, Home!StreamsAreServed

(* Every step of the streams and of the broker keeps the invariant.        *)
LEMMA HomeStepInv == ASSUME None \notin Task, HomeInv, [Home!Next]_(Home!vars) PROVE HomeInv'
<1> USE DEF HomeInv, HomeTypeOK, HomeStage, HomeQueues, HomeLock, HomeFresh, Home!StreamsAreServed, Home!broker, Home!Goto
<1>1. CASE Home!SaveConfig
  BY <1>1 DEF Home!SaveConfig
<1>2. CASE UNCHANGED Home!vars
  BY <1>2 DEF Home!vars
<1>3. ASSUME NEW s \in Task, Home!Connect(s) PROVE HomeInv'
  BY <1>3 DEF Home!Connect
<1>4. ASSUME NEW s \in Task, Home!Leave(s) PROVE HomeInv'
  BY <1>4 DEF Home!Leave
<1>5. ASSUME NEW s \in Task, Home!Disconnect(s) PROVE HomeInv'
  BY <1>5 DEF Home!Disconnect
<1>6. ASSUME NEW s \in Task, Home!Cancel(s) PROVE HomeInv'
  BY <1>6 DEF Home!Cancel
<1>7. ASSUME NEW s \in Task, Home!Subscribe(s) PROVE HomeInv'
  BY <1>7 DEF Home!Subscribe
<1>8. ASSUME NEW s \in Task, Home!Switch(s) PROVE HomeInv'
  BY <1>8 DEF Home!Switch, Home!Waited
<1>9. ASSUME NEW s \in Task, Home!Unsubscribe(s) PROVE HomeInv'
  BY <1>9 DEF Home!Unsubscribe
<1>10. ASSUME NEW s \in Task, Home!Stop(s) PROVE HomeInv'
  BY <1>10 DEF Home!Stop, Home!Waited
<1>11. ASSUME NEW s \in Task, Home!TaskEnds(s) PROVE HomeInv'
  BY <1>11 DEF Home!TaskEnds
<1>12. QED
  BY <1>1, <1>2, <1>3, <1>4, <1>5, <1>6, <1>7, <1>8, <1>9, <1>10, <1>11 DEF Home!Next

(* However streams come, leave, are cancelled and change the configuration *)
(* under each other: with the lock free, who is open has a queue, and one  *)
(* connection runs exactly while somebody subscribes.                      *)
THEOREM StreamsServed == ASSUME None \notin Task PROVE Home!Spec => []StreamsAreServed
<1>1. Home!Init => HomeInv
  BY HomeInitInv
<1>2. HomeInv /\ [Home!Next]_(Home!vars) => HomeInv'
  BY HomeStepInv
<1>3. HomeInv => StreamsAreServed
  BY DEF HomeInv, StreamsAreServed
<1>4. QED
  BY <1>1, <1>2, <1>3, PTL DEF Home!Spec

---------------------------------------------------------------------------
(* Blog                                                                    *)

PostStatus == {"none", "draft", "scheduled", "published", Unset}
Date == Posts!Time \cup {None}

\* The numbers that generate_unique_slug may choose.
LeastOf(free) == CHOOSE n \in free : \A m \in free : n <= m
SlugNumber == {1} \cup {LeastOf(free) : free \in SUBSET Int}

PostRow == [status : PostStatus, at : Date, slug : {None} \cup ((Profile \cup {Unset}) \X SlugNumber)]
PostData == [title : Profile \cup {Unset}, status : PostStatus, date : Date \cup {Unset},
             tag : Profile \cup {None}]

Editing == [op : {"idle", "create", "update", "delete"}, on : RacingProfile \cup {None},
            at : {"idle", "tag", "slug", "insert", "commit"}, data : PostData,
            inserted : BOOLEAN, seen : PostRow, write : PostRow]

BlogTypeOK ==
  /\ clock \in Posts!Time
  /\ post \in [RacingProfile -> PostRow]
  /\ editor \in [Request -> Editing]
  /\ \A e \in Request : editor[e].at # "idle" => editor[e].on \in RacingProfile

BlogInv == BlogTypeOK /\ Posts!NotBeforeItsTime

LEMMA PostValues == /\ Posts!NoPost \in PostRow
                    /\ Posts!Nothing \in PostData
  BY DEF PostRow, PostData, PostStatus, Date, Posts!NoPost, Posts!Nothing

LEMMA IdleEditing == Posts!Idle \in Editing /\ Posts!Idle.at = "idle"
  BY PostValues DEF Editing, Posts!Idle

LEMMA BlogInitInv == ASSUME MaxDays \in Nat PROVE Posts!Init => BlogInv
<1> SUFFICES ASSUME Posts!Init PROVE BlogInv
  OBVIOUS
<1> DEFINE Scheduled == [status : {"scheduled"}, at : Date, slug : {<<t, 1>> : t \in Profile}]
<1>1. post \in [RacingProfile -> {Posts!NoPost} \cup Scheduled]
  BY DEF Posts!Init, Date
<1>2. post \in [RacingProfile -> PostRow]
  <2>1. \A d \in Date, t \in Profile : [status |-> "scheduled", at |-> d, slug |-> <<t, 1>>] \in PostRow
    BY DEF PostRow, PostStatus, SlugNumber
  <2>2. \A x \in Scheduled : x \in PostRow
    BY <2>1
  <2> HIDE DEF Scheduled
  <2> QED
    BY <1>1, <2>2, PostValues
<1>3. \A p \in RacingProfile : post[p].status \in {"none", "scheduled"}
  BY <1>1 DEF Posts!NoPost
<1>4. clock \in Posts!Time /\ editor \in [Request -> {Posts!Idle}]
  BY DEF Posts!Init, Posts!Time
<1>5. Posts!NotBeforeItsTime
  <2>1. ASSUME NEW p \in RacingProfile, Posts!Visible(p) PROVE post[p].at <= clock
    BY <1>3, <2>1 DEF Posts!Visible
  <2>2. \A d \in Posts!Time : d <= clock => ~(d > clock)
    BY <1>4 DEF Posts!Time
  <2> QED
    BY <1>2, <2>1, <2>2 DEF Posts!NotBeforeItsTime, PostRow, Date
<1> QED
  BY <1>2, <1>4, <1>5, IdleEditing DEF BlogInv, BlogTypeOK

\* What a request assigns is a row.
LEMMA AssignedRow ==
  ASSUME BlogInv, NEW e \in Request
  PROVE  Posts!Assigned(editor[e]) \in PostRow
<1> DEFINE req == editor[e]
           date == Posts!Given(req.data.date, req.seen.at)
<1>1. req.data \in PostData /\ req.seen \in PostRow
  BY DEF BlogInv, BlogTypeOK, Editing
<1>2. date \in Date /\ clock \in Date
  BY <1>1 DEF Posts!Given, PostData, PostRow, Date, BlogInv, BlogTypeOK
<1>3. Posts!Given(req.data.status, req.seen.status) \in PostStatus
  BY <1>1 DEF Posts!Given, PostData, PostRow
<1>4. \A status : Posts!Dated(status, date) \in Date
  BY <1>2 DEF Posts!Dated
<1>5. ASSUME NEW title \in Profile \cup {Unset}, NEW own
      PROVE  Posts!FreeSlug(title, own) \in (Profile \cup {Unset}) \X SlugNumber
  <2> DEFINE free == {n \in 1..Posts!Cardinality(RacingProfile) + 1 :
                        \A p \in RacingProfile \ own : post[p].slug # <<title, n>>}
  <2>1. free \in SUBSET Int
    OBVIOUS
  <2>2. Posts!FreeSlug(title, own) = <<title, LeastOf(free)>>
    BY DEF Posts!FreeSlug, LeastOf
  <2> HIDE DEF free
  <2> QED
    BY <2>1, <2>2 DEF SlugNumber
<1> HIDE DEF date
<1>6. [status |-> Posts!Given(req.data.status, req.seen.status),
       at |-> IF req.data.status = Unset THEN date ELSE Posts!Dated(req.data.status, date),
       slug |-> IF req.data.title = Unset THEN req.seen.slug
                ELSE Posts!FreeSlug(req.data.title, {req.on})] \in PostRow
  <2>1. req.data.title \in Profile \cup {Unset}
    BY <1>1 DEF PostData
  <2>2. req.seen.slug \in {None} \cup ((Profile \cup {Unset}) \X SlugNumber)
    BY <1>1 DEF PostRow
  <2> QED
    BY <1>2, <1>3, <1>4, <1>5, <2>1, <2>2 DEF PostRow
<1> QED
  BY <1>6 DEF Posts!Assigned, date

\* What a commit writes, and that a published post was in the request or in
\* another commit since.
LEMMA MergedRow ==
  ASSUME BlogInv, NEW e \in Request, editor[e].on \in RacingProfile
  PROVE  /\ Posts!Merged(editor[e]) \in PostRow
         /\ Posts!Merged(editor[e]).status = "published" =>
              \/ editor[e].write.status = "published"
              \/ post[editor[e].on].status # editor[e].seen.status
<1> DEFINE req == editor[e]
           old == post[req.on]
           Column(f) == IF req.write[f] # req.seen[f] THEN req.write[f] ELSE old[f]
<1>1. req.write \in PostRow /\ req.seen \in PostRow /\ old \in PostRow
  BY DEF BlogInv, BlogTypeOK, Editing
<1>2. CASE req.op = "create"
  BY <1>1, <1>2 DEF Posts!Merged
<1>3. CASE req.op # "create"
  <2>1. Posts!Merged(req) = [f \in {"status", "at", "slug"} |-> Column(f)]
    BY <1>3 DEF Posts!Merged, Posts!NoPost
  <2>2. /\ Column("status") \in PostStatus /\ Column("at") \in Date
        /\ Column("slug") \in {None} \cup ((Profile \cup {Unset}) \X SlugNumber)
    BY <1>1 DEF PostRow
  <2>3. [f \in {"status", "at", "slug"} |-> Column(f)]
          = [status |-> Column("status"), at |-> Column("at"), slug |-> Column("slug")]
    OBVIOUS
  <2>4. Column("status") = "published" =>
          req.write.status = "published" \/ old.status # req.seen.status
    OBVIOUS
  <2> HIDE DEF Column
  <2> QED
    BY <2>1, <2>2, <2>3, <2>4 DEF PostRow
<1> QED
  BY <1>2, <1>3

LEMMA BlogStepInv ==
  ASSUME MaxDays \in Nat, BlogInv, [Posts!Next]_(Posts!vars) PROVE BlogInv'
\* A step of one request that leaves the posts alone.
<1>0. ASSUME NEW e \in Request, NEW req \in Editing, editor' = [editor EXCEPT ![e] = req],
             UNCHANGED <<post, clock, forced>>, req.at # "idle" => req.on \in RacingProfile
      PROVE  BlogInv'
  BY <1>0 DEF BlogInv, BlogTypeOK, Posts!NotBeforeItsTime, Posts!Visible
<1>1. ASSUME NEW e \in Request, Posts!AskCreate(e) PROVE BlogInv'
  <2>1. PICK p \in RacingProfile, data \in Posts!Data :
          Posts!Accept(e, [Posts!Idle EXCEPT !.op = "create", !.on = p, !.at = "tag", !.data = data])
    BY <1>1 DEF Posts!AskCreate
  <2> DEFINE req == [Posts!Idle EXCEPT !.op = "create", !.on = p, !.at = "tag", !.data = data]
  <2>2. req \in Editing /\ req.on = p
    BY IdleEditing DEF Editing, Posts!Data, PostData, PostStatus, Posts!Status, Date
  <2>3. editor' = [editor EXCEPT ![e] = req] /\ UNCHANGED <<post, clock, forced>>
    BY <2>1 DEF Posts!Accept
  <2> HIDE DEF req
  <2> QED
    BY <1>0, <2>2, <2>3
<1>2. ASSUME NEW e \in Request, Posts!AskUpdate(e) PROVE BlogInv'
  <2>1. PICK p \in RacingProfile, data \in Posts!Data :
          Posts!Accept(e, [Posts!Idle EXCEPT !.op = "update", !.on = p, !.at = "slug", !.data = data,
                                             !.seen = post[p], !.write = post[p]])
    BY <1>2 DEF Posts!AskUpdate
  <2> DEFINE req == [Posts!Idle EXCEPT !.op = "update", !.on = p, !.at = "slug", !.data = data,
                                       !.seen = post[p], !.write = post[p]]
  <2>2. req \in Editing /\ req.on = p
    BY IdleEditing DEF Editing, Posts!Data, PostData, PostStatus, Posts!Status, Date, BlogInv, BlogTypeOK
  <2>3. editor' = [editor EXCEPT ![e] = req] /\ UNCHANGED <<post, clock, forced>>
    BY <2>1 DEF Posts!Accept
  <2> HIDE DEF req
  <2> QED
    BY <1>0, <2>2, <2>3
<1>3. ASSUME NEW e \in Request, Posts!AskDelete(e) PROVE BlogInv'
  <2>1. PICK p \in RacingProfile :
          Posts!Accept(e, [Posts!Idle EXCEPT !.op = "delete", !.on = p, !.at = "commit"])
    BY <1>3 DEF Posts!AskDelete
  <2> DEFINE req == [Posts!Idle EXCEPT !.op = "delete", !.on = p, !.at = "commit"]
  <2>2. req \in Editing /\ req.on = p
    BY IdleEditing DEF Editing
  <2>3. editor' = [editor EXCEPT ![e] = req] /\ UNCHANGED <<post, clock, forced>>
    BY <2>1 DEF Posts!Accept
  <2> HIDE DEF req
  <2> QED
    BY <1>0, <2>2, <2>3
<1>4. ASSUME NEW e \in Request, Posts!Assign(e) PROVE BlogInv'
  <2> DEFINE row_ == Posts!Assigned(editor[e])
             data == [Posts!Nothing EXCEPT !.tag = editor[e].data.tag]
             stage == IF editor[e].op = "create" THEN "commit" ELSE "tag"
  <2>1. /\ editor[e] \in Editing /\ editor[e].on \in RacingProfile
        /\ UNCHANGED <<post, clock, forced>>
    BY <1>4 DEF Posts!Assign, BlogInv, BlogTypeOK
  <2>2. row_ \in PostRow
    BY AssignedRow
  <2>3. data \in PostData
    BY <2>1, PostValues DEF Editing, PostData
  <2>4. stage \in {"commit", "tag"}
    OBVIOUS
  <2> HIDE DEF row_, data, stage
  <2>5. editor' = [editor EXCEPT ![e].write = row_, ![e].data = data, ![e].at = stage]
    BY <1>4 DEF Posts!Assign, row_, data, stage
  <2>6. editor' = [editor EXCEPT ![e] = [editor[e] EXCEPT !.write = row_, !.data = data, !.at = stage]]
    BY <2>5 DEF BlogInv, BlogTypeOK
  <2>7. [editor[e] EXCEPT !.write = row_, !.data = data, !.at = stage] \in Editing
    BY <2>1, <2>2, <2>3, <2>4 DEF Editing
  <2>8. [editor[e] EXCEPT !.write = row_, !.data = data, !.at = stage].on = editor[e].on
    BY <2>1 DEF Editing
  <2> QED
    BY <1>0, <2>1, <2>6, <2>7, <2>8
<1>5. ASSUME NEW e \in Request, NEW stage \in {"slug", "commit", "insert", "tag"}, Posts!Goto(e, stage),
             editor[e].at # "idle", UNCHANGED <<post, clock, forced>>
      PROVE  BlogInv'
  BY <1>5 DEF Posts!Goto, BlogInv, BlogTypeOK, Editing, Posts!NotBeforeItsTime, Posts!Visible
<1>6. ASSUME NEW e \in Request, Posts!FindTag(e) PROVE BlogInv'
  BY <1>5, <1>6 DEF Posts!FindTag, Posts!AfterTag
<1>7. ASSUME NEW e \in Request, Posts!Leave(e), UNCHANGED <<post, clock, forced>> PROVE BlogInv'
  BY <1>0, <1>7, IdleEditing DEF Posts!Leave
<1>8. ASSUME NEW e \in Request, Posts!InsertTag(e) PROVE BlogInv'
  <2> DEFINE stage == Posts!AfterTag(e)
  <2>1. /\ editor[e] \in Editing /\ editor[e].on \in RacingProfile
        /\ UNCHANGED <<post, clock, forced>>
    BY <1>8 DEF Posts!InsertTag, BlogInv, BlogTypeOK
  <2>2. stage \in {"slug", "commit"}
    BY DEF Posts!AfterTag
  <2> HIDE DEF stage
  <2>3. \/ Posts!Leave(e)
        \/ editor' = [editor EXCEPT ![e].inserted = TRUE, ![e].at = stage]
    BY <1>8 DEF Posts!InsertTag, stage
  <2>4. CASE editor' = [editor EXCEPT ![e].inserted = TRUE, ![e].at = stage]
    <3>1. editor' = [editor EXCEPT ![e] = [editor[e] EXCEPT !.inserted = TRUE, !.at = stage]]
      BY <2>4 DEF BlogInv, BlogTypeOK
    <3>2. /\ [editor[e] EXCEPT !.inserted = TRUE, !.at = stage] \in Editing
          /\ [editor[e] EXCEPT !.inserted = TRUE, !.at = stage].on = editor[e].on
      BY <2>1, <2>2 DEF Editing
    <3> QED
      BY <1>0, <2>1, <3>1, <3>2
  <2> QED
    BY <1>7, <2>1, <2>3, <2>4
<1>9. ASSUME NEW e \in Request, Posts!Commit(e) PROVE BlogInv'
  <2> DEFINE req == editor[e]
             p == req.on
             merged == Posts!Merged(req)
  <2>1. p \in RacingProfile /\ Posts!Leave(e) /\ clock' = clock
    BY <1>9 DEF Posts!Commit, BlogInv, BlogTypeOK
  <2>2. /\ merged \in PostRow
        /\ merged.status = "published" =>
             req.write.status = "published" \/ post[p].status # req.seen.status
    BY <2>1, MergedRow
  <2>3. editor' \in [Request -> Editing] /\ \A f \in Request : editor'[f].at # "idle" => editor'[f].on \in RacingProfile
    BY <2>1, IdleEditing DEF Posts!Leave, BlogInv, BlogTypeOK
  <2> HIDE DEF merged
  <2>4. CASE UNCHANGED <<post, forced>>
    BY <1>7, <2>1, <2>4
  <2>5. CASE post' = [post EXCEPT ![p] = Posts!NoPost] /\ forced' = forced \ {p}
    BY <2>1, <2>3, <2>5, PostValues
       DEF BlogInv, BlogTypeOK, Posts!NotBeforeItsTime, Posts!Visible, Posts!NoPost
  <2>6. CASE /\ post' = [post EXCEPT ![p] = merged]
             /\ forced' = IF \/ req.write.status = "published"
                             \/ post[p].status # req.seen.status
                          THEN forced \cup {p} ELSE forced \ {p}
    <3>1. post' \in [RacingProfile -> PostRow]
      BY <2>2, <2>6 DEF BlogInv, BlogTypeOK
    <3>2. post'[p] = merged /\ \A q \in RacingProfile \ {p} : post'[q] = post[q] /\ (q \in forced => q \in forced')
      BY <2>1, <2>6 DEF BlogInv, BlogTypeOK
    <3>3. merged.status = "published" => p \in forced'
      BY <2>2, <2>6
    <3>4. Posts!NotBeforeItsTime'
      <4> SUFFICES ASSUME NEW q \in RacingProfile, Posts!Visible(q)', post'[q].at # None,
                          post'[q].at > clock'
                   PROVE  q \in forced'
        BY DEF Posts!NotBeforeItsTime
      <4>1. CASE q # p
        BY <2>1, <3>2, <4>1 DEF BlogInv, Posts!NotBeforeItsTime, Posts!Visible
      <4>2. CASE q = p
        <5>1. merged.at \in Nat /\ clock \in Nat
          BY <2>2, <3>2, <4>2 DEF PostRow, Date, Posts!Time, BlogInv, BlogTypeOK
        <5>2. ~(merged.at <= clock)
          BY <2>1, <3>2, <4>2, <5>1
        <5> QED
          BY <2>1, <3>2, <3>3, <4>2, <5>2 DEF Posts!Visible
      <4> QED
        BY <4>1, <4>2
    <3> QED
      BY <2>1, <2>3, <3>1, <3>4 DEF BlogInv, BlogTypeOK
  <2> QED
    BY <1>9, <2>4, <2>5, <2>6 DEF Posts!Commit, merged
<1>10. CASE Posts!Publish
  <2> DEFINE public(p) == [post[p] EXCEPT !.status = "published"]
  <2>1. \A p \in RacingProfile : public(p) \in PostRow /\ public(p).at = post[p].at
    BY DEF BlogInv, BlogTypeOK, PostRow, PostStatus
  <2>2. UNCHANGED <<editor, clock, forced>>
    BY <1>10 DEF Posts!Publish
  <2> HIDE DEF public
  <2>3. \A p \in RacingProfile :
          post'[p] = IF Posts!Due(p) THEN public(p) ELSE post[p]
    BY <1>10 DEF Posts!Publish, public
  <2>4. post' \in [RacingProfile -> PostRow]
    BY <1>10, <2>1 DEF Posts!Publish, public, BlogInv, BlogTypeOK
  <2>5. Posts!NotBeforeItsTime'
    <3> SUFFICES ASSUME NEW p \in RacingProfile, Posts!Visible(p)', post'[p].at # None,
                        post'[p].at > clock'
                 PROVE  p \in forced'
      BY DEF Posts!NotBeforeItsTime
    <3>1. post'[p].at \in Nat /\ clock \in Nat
      BY <2>4 DEF PostRow, Date, Posts!Time, BlogInv, BlogTypeOK
    <3>2. ~Posts!Due(p)
      BY <2>1, <2>2, <2>3, <3>1 DEF Posts!Due
    <3> QED
      BY <2>2, <2>3, <3>2 DEF BlogInv, Posts!NotBeforeItsTime, Posts!Visible
  <2> QED
    BY <2>2, <2>4, <2>5 DEF BlogInv, BlogTypeOK
<1>11. CASE Posts!Tick
  <2>1. clock' \in Posts!Time /\ clock' = clock + 1 /\ UNCHANGED <<post, editor, forced>>
    BY <1>11 DEF Posts!Tick, Posts!Time, BlogInv, BlogTypeOK
  <2>2. \A d \in Posts!Time : d > clock' => d > clock /\ ~(d <= clock')
    BY <2>1 DEF Posts!Time, BlogInv, BlogTypeOK
  <2> QED
    BY <2>1, <2>2 DEF BlogInv, BlogTypeOK, Posts!NotBeforeItsTime, Posts!Visible, PostRow, Date
<1>12. CASE UNCHANGED Posts!vars
  BY <1>12 DEF Posts!vars, BlogInv, BlogTypeOK, Posts!NotBeforeItsTime, Posts!Visible
<1> QED
  BY <1>1, <1>2, <1>3, <1>4, <1>6, <1>8, <1>9, <1>10, <1>11, <1>12 DEF Posts!Next

\* However editors and the publisher overlap, no post is shown before its date,
\* unless an editor published it, or changed the date of a post that was
\* published under his hands; for any number of posts, editors and days.
THEOREM PostsWait == ASSUME MaxDays \in Nat PROVE Posts!Spec => []NotBeforeItsTime
<1>1. Posts!Init => BlogInv
  BY BlogInitInv
<1>2. BlogInv /\ [Posts!Next]_(Posts!vars) => BlogInv'
  BY BlogStepInv
<1>3. BlogInv => NotBeforeItsTime
  BY DEF BlogInv, NotBeforeItsTime
<1> QED
  BY <1>1, <1>2, <1>3, PTL DEF Posts!Spec

---------------------------------------------------------------------------
(* Scheduling.  Of an entity that is not excused at most one request is    *)
(* under way, and how far it has come says how row and job differ.         *)

Columns == [expr : Expr \cup {None}, zone : Zone \cup {None}]

JobOf(c) == IF c.expr = None THEN Crons!Off ELSE c

Change == [op : {"idle", "create", "update", "delete"}, on : Crons!Entity \cup {None},
           at : {"idle", "commit", "refresh", "sync"}, seen : Columns, write : Columns,
           sync : BOOLEAN]

CronTypeOK ==
  /\ columns \in [Crons!Entity -> Columns]
  /\ job \in [Crons!Entity -> Columns]
  /\ change \in [Request -> Change]
  /\ \A r \in Request : change[r].on = None => change[r].at = "idle"

\* How a request that is alone on its entity finds the row c and the job j.
Meets(req, c, j) ==
  /\ req.op = "create" /\ req.at = "commit" =>
       j = JobOf(c) /\ (req.sync <=> req.write.expr # None)
  /\ req.op = "create" /\ req.at = "refresh" /\ ~req.sync => c.expr = None /\ j = Crons!Off
  /\ req.op = "create" /\ req.at = "sync" /\ ~req.sync => c.expr = None /\ j = Crons!Off
  /\ req.op \in {"create", "update"} /\ req.at = "sync" => req.seen = c
  /\ req.op = "delete" => req.sync
  /\ req.op = "delete" /\ req.on \in Profile /\ req.at = "sync" => c = Crons!Gone
  /\ req.op = "delete" /\ req.on \in PlatformCron /\ req.at = "commit" => j = Crons!Off
  /\ req.op # "idle" /\ req.at # "idle" /\ (req.op = "delete" => req.at # "refresh")

\* The only request on an entity, or none and the job is the row's.
InOrder(e) ==
  \/ ~Crons!Busy(e) /\ job[e] = JobOf(columns[e])
  \/ \E r \in Request : /\ \A s \in Request : change[s].on = e <=> s = r
                        /\ Meets(change[r], columns[e], job[e])

CronInv ==
  /\ CronTypeOK
  /\ \A e \in Crons!Entity : job[e].expr = None => job[e] = Crons!Off
  /\ \A e \in Crons!Entity \ excused : InOrder(e)

LEMMA CronIdle == Crons!Idle \in Change /\ Crons!Idle.on = None /\ Crons!Idle.at = "idle"
  BY DEF Crons!Idle, Change, Columns, Crons!Gone

LEMMA CronInitInv ==
  ASSUME None \notin Crons!Entity, Crons!Init PROVE CronInv
<1>1. columns \in [Crons!Entity -> Columns]
  BY DEF Crons!Init, Columns, Crons!Cron, Crons!Gone
<1>2. \A e \in Crons!Entity : job[e] = JobOf(columns[e]) /\ ~Crons!Busy(e)
  BY CronIdle DEF Crons!Init, JobOf, Crons!Busy
<1>3. \A c \in Columns : JobOf(c) \in Columns /\ (JobOf(c).expr = None => JobOf(c) = Crons!Off)
  BY DEF JobOf, Columns, Crons!Off, Crons!Gone
<1>4. job \in [Crons!Entity -> Columns]
  BY <1>1, <1>2, <1>3 DEF Crons!Init
<1> QED
  BY <1>1, <1>2, <1>3, <1>4, CronIdle DEF CronInv, CronTypeOK, InOrder, Crons!Init

\* The step of a request on e leaves the other entities in order.
LEMMA CronLocal ==
  ASSUME CronInv, None \notin Crons!Entity,
         NEW r \in Request, NEW e \in Crons!Entity, NEW req \in Change,
         change[r].on \in {e, None}, req.on \in {e, None}, req.on = None => req.at = "idle",
         change' = [change EXCEPT ![r] = req],
         columns' \in [Crons!Entity -> Columns], job' \in [Crons!Entity -> Columns],
         \A f \in Crons!Entity \ {e} : columns'[f] = columns[f] /\ job'[f] = job[f],
         job'[e].expr = None => job'[e] = Crons!Off,
         excused \subseteq excused',
         e \notin excused' => InOrder(e)'
  PROVE  CronInv'
<1>1. CronTypeOK'
  BY DEF CronInv, CronTypeOK
<1>2. ASSUME NEW f \in Crons!Entity \ excused', f # e PROVE InOrder(f)'
  <2>1. \A s \in Request : change'[s].on = f <=> change[s].on = f
    BY <1>2 DEF CronInv, CronTypeOK
  <2>2. \A s \in Request : change[s].on = f => change'[s] = change[s]
    BY <1>2 DEF CronInv, CronTypeOK
  <2>3. Crons!Busy(f)' <=> Crons!Busy(f)
    BY <2>1 DEF Crons!Busy
  <2>4. InOrder(f)
    BY <1>2 DEF CronInv
  <2>5. columns'[f] = columns[f] /\ job'[f] = job[f]
    BY <1>2
  <2>6. CASE ~Crons!Busy(f) /\ job[f] = JobOf(columns[f])
    BY <2>3, <2>5, <2>6 DEF InOrder, JobOf
  <2>7. ASSUME NEW s \in Request, \A u \in Request : change[u].on = f <=> u = s,
               Meets(change[s], columns[f], job[f])
        PROVE  InOrder(f)'
    <3>1. change'[s] = change[s]
      BY <2>2, <2>7
    <3>2. Meets(change[s], columns[f], job[f])'
      BY <2>5, <2>7, <3>1 DEF Meets, JobOf
    <3> QED
      BY <2>1, <2>7, <3>2 DEF InOrder
  <2> QED
    BY <2>4, <2>6, <2>7 DEF InOrder
<1>3. \A f \in Crons!Entity : job'[f].expr = None => job'[f] = Crons!Off
  BY DEF CronInv
<1> QED
  BY <1>1, <1>2, <1>3 DEF CronInv

\* A request is accepted.
LEMMA CronBegins ==
  ASSUME CronInv, None \notin Crons!Entity,
         NEW r \in Request, NEW e \in Crons!Entity, NEW req \in Change, req.on = e,
         Crons!Accept(r, req), UNCHANGED <<columns, job>>,
         job[e] = JobOf(columns[e]) => Meets(req, columns[e], job[e])
  PROVE  CronInv'
<1>1. /\ change[r].on = None /\ change' = [change EXCEPT ![r] = req]
      /\ excused \subseteq excused' /\ (Crons!Busy(e) => e \in excused')
  BY CronIdle DEF Crons!Accept
<1>2. ASSUME e \notin excused' PROVE InOrder(e)'
  <2>1. job[e] = JobOf(columns[e]) /\ ~Crons!Busy(e)
    <3>1. InOrder(e)
      BY <1>1, <1>2 DEF CronInv
    <3> QED
      BY <1>1, <1>2, <3>1 DEF InOrder, Crons!Busy
  <2>2. \A s \in Request : change'[s].on = e <=> s = r
    BY <1>1, <2>1 DEF Crons!Busy, CronInv, CronTypeOK
  <2>3. change'[r] = req
    BY <1>1 DEF CronInv, CronTypeOK
  <2>4. Meets(change[r], columns[e], job[e])'
    BY <2>1, <2>3 DEF Meets, JobOf
  <2> QED
    BY <2>2, <2>4 DEF InOrder
<1>3. /\ columns' \in [Crons!Entity -> Columns] /\ job' \in [Crons!Entity -> Columns]
      /\ job'[e].expr = None => job'[e] = Crons!Off
      /\ \A f \in Crons!Entity \ {e} : columns'[f] = columns[f] /\ job'[f] = job[f]
  BY DEF CronInv, CronTypeOK
<1>4. req.on = None => req.at = "idle"
  OBVIOUS
<1> QED
  BY <1>1, <1>2, <1>3, <1>4, CronLocal

\* The only request on e goes on.
LEMMA CronMoves ==
  ASSUME CronInv, None \notin Crons!Entity,
         NEW r \in Request, NEW e \in Crons!Entity, NEW req \in Change,
         change[r].on = e, req.on = e,
         change' = [change EXCEPT ![r] = req],
         columns' \in [Crons!Entity -> Columns], job' \in [Crons!Entity -> Columns],
         \A f \in Crons!Entity \ {e} : columns'[f] = columns[f] /\ job'[f] = job[f],
         job'[e].expr = None => job'[e] = Crons!Off,
         excused \subseteq excused',
         e \notin excused' /\ Meets(change[r], columns[e], job[e])
           => Meets(req, columns'[e], job'[e])
  PROVE  CronInv'
<1>1. ASSUME e \notin excused' PROVE InOrder(e)'
  <2>1. InOrder(e)
    BY <1>1 DEF CronInv
  <2>2. /\ \A s \in Request : change[s].on = e <=> s = r
        /\ Meets(change[r], columns[e], job[e])
    BY <2>1 DEF InOrder, Crons!Busy
  <2>3. \A s \in Request : change'[s].on = e <=> s = r
    BY <2>2 DEF CronInv, CronTypeOK
  <2>4. change'[r] = req
    BY DEF CronInv, CronTypeOK
  <2>5. Meets(change[r], columns[e], job[e])'
    BY <1>1, <2>2, <2>4 DEF Meets, JobOf
  <2> QED
    BY <2>3, <2>5 DEF InOrder
<1>2. req.on = None => req.at = "idle"
  OBVIOUS
<1> QED
  BY <1>1, <1>2, CronLocal

\* The only request on e ends.
LEMMA CronLeaves ==
  ASSUME CronInv, None \notin Crons!Entity,
         NEW r \in Request, NEW e \in Crons!Entity, change[r].on = e, Crons!Leave(r),
         columns' \in [Crons!Entity -> Columns], job' \in [Crons!Entity -> Columns],
         \A f \in Crons!Entity \ {e} : columns'[f] = columns[f] /\ job'[f] = job[f],
         job'[e].expr = None => job'[e] = Crons!Off,
         excused \subseteq excused',
         e \notin excused' /\ Meets(change[r], columns[e], job[e]) => job'[e] = JobOf(columns'[e])
  PROVE  CronInv'
<1>1. change' = [change EXCEPT ![r] = Crons!Idle]
  BY DEF Crons!Leave
<1>2. ASSUME e \notin excused' PROVE InOrder(e)'
  <2>1. InOrder(e)
    BY <1>2 DEF CronInv
  <2>2. /\ \A s \in Request : change[s].on = e <=> s = r
        /\ Meets(change[r], columns[e], job[e])
    BY <2>1 DEF InOrder, Crons!Busy
  <2>3. ~Crons!Busy(e)'
    BY <1>1, <2>2, CronIdle DEF CronInv, CronTypeOK, Crons!Busy
  <2> QED
    BY <1>2, <2>2, <2>3 DEF InOrder, JobOf
<1> QED
  BY <1>1, <1>2, CronIdle, CronLocal

\* Every step of a handler, and a restart, keeps the invariant.
LEMMA CronStepInv ==
  ASSUME CronInv, None \notin Crons!Entity, Profile \cap PlatformCron = {},
         [Crons!Next]_(Crons!vars)
  PROVE  CronInv'
<1>0. /\ CronTypeOK
      /\ \A c \in Columns : JobOf(c) \in Columns /\ (JobOf(c).expr = None => JobOf(c) = Crons!Off)
      /\ Crons!Gone \in Columns /\ Crons!Off \in Columns /\ Crons!Cron \subseteq Columns
      /\ Crons!Gone.expr = None
  BY DEF CronInv, JobOf, Columns, Crons!Off, Crons!Gone, Crons!Cron
<1>1. ASSUME NEW r \in Request, NEW e \in Crons!Entity, NEW cron \in Crons!Cron,
             Crons!CreateConfig(r, e, cron) \/ Crons!CreateProductCron(r, e, cron)
      PROVE  CronInv'
  <2> DEFINE req == [Crons!Idle EXCEPT !.op = "create", !.on = e, !.at = "commit", !.write = cron,
                                       !.sync = cron.expr # None]
  <2>1. /\ req \in Change /\ req.on = e
        /\ req.op = "create" /\ req.at = "commit" /\ (req.sync <=> req.write.expr # None)
    BY <1>0, CronIdle DEF Crons!Idle, Change
  <2>2. Crons!Accept(r, req) /\ UNCHANGED <<columns, job>>
    BY <1>1 DEF Crons!CreateConfig, Crons!CreateProductCron
  <2> HIDE DEF req
  <2>3. job[e] = JobOf(columns[e]) => Meets(req, columns[e], job[e])
    BY <2>1 DEF Meets
  <2> QED
    BY <2>1, <2>2, <2>3, CronBegins
<1>2. ASSUME NEW r \in Request, NEW e \in Crons!Entity, NEW fields \in SUBSET {"expr", "zone"},
             NEW cron \in Crons!Cron, NEW sync \in BOOLEAN,
             Crons!Update(r, e, fields, cron, sync)
      PROVE  CronInv'
  <2> DEFINE given(f) == IF f \in fields THEN cron[f] ELSE columns[e][f]
             write == [f \in {"expr", "zone"} |-> given(f)]
             req == [Crons!Idle EXCEPT !.op = "update", !.on = e, !.at = "commit",
                                       !.seen = columns[e], !.write = write, !.sync = sync]
  <2>1. write \in Columns
    <3>1. columns[e] \in Columns /\ cron \in Columns
      BY <1>0 DEF CronTypeOK
    <3>2. given("expr") \in Expr \cup {None} /\ given("zone") \in Zone \cup {None}
      BY <3>1 DEF Columns
    <3>3. write = [expr |-> given("expr"), zone |-> given("zone")]
      OBVIOUS
    <3> HIDE DEF given
    <3> QED
      BY <3>2, <3>3 DEF Columns
  <2>2. Crons!Accept(r, req) /\ UNCHANGED <<columns, job>>
    BY <1>2 DEF Crons!Update
  <2> HIDE DEF write
  <2>3. req \in Change /\ req.on = e /\ req.op = "update" /\ req.at = "commit"
    BY <1>0, <2>1, CronIdle DEF Crons!Idle, Change, CronTypeOK
  <2> HIDE DEF req
  <2>4. Meets(req, columns[e], job[e])
    BY <2>3 DEF Meets
  <2> QED
    BY <2>2, <2>3, <2>4, CronBegins
<1>3. ASSUME NEW r \in Request, NEW e \in Crons!Entity,
             Crons!DeleteConfig(r, e) \/ Crons!DeleteProductCron(r, e)
      PROVE  CronInv'
  <2>1. PICK first \in {"commit", "sync"} :
          Crons!Delete(r, e, first) /\ (first = "sync" => e \in PlatformCron)
                                    /\ (first = "commit" => e \in Profile)
    BY <1>3 DEF Crons!DeleteConfig, Crons!DeleteProductCron
  <2> DEFINE req == [Crons!Idle EXCEPT !.op = "delete", !.on = e, !.seen = columns[e],
                                       !.at = first, !.sync = TRUE]
  <2>2. req \in Change /\ req.on = e /\ req.op = "delete" /\ req.at = first /\ req.sync
    BY <1>0, CronIdle DEF Crons!Idle, Change, CronTypeOK
  <2>3. Crons!Accept(r, req) /\ UNCHANGED <<columns, job>>
    BY <2>1 DEF Crons!Delete
  <2> HIDE DEF req
  <2>4. Meets(req, columns[e], job[e])
    BY <2>1, <2>2 DEF Meets
  <2> QED
    BY <2>2, <2>3, <2>4, CronBegins
\* A step of request r, on the entity that it is about.
<1>4. ASSUME NEW r \in Request,
             Crons!Commit(r) \/ Crons!CommitFails(r) \/ Crons!Refresh(r) \/ Crons!Sync(r)
      PROVE  /\ change[r] \in Change /\ change[r].on \in Crons!Entity
             /\ columns[change[r].on] \in Columns /\ job[change[r].on] \in Columns
             /\ job[change[r].on].expr = None => job[change[r].on] = Crons!Off
  BY <1>0, <1>4 DEF CronInv, CronTypeOK, Crons!Commit, Crons!CommitFails, Crons!Refresh, Crons!Sync, Change
\* It fails, and its entity is excused.
<1>5. ASSUME NEW r \in Request, change[r].on \in Crons!Entity, Crons!Fail(r), UNCHANGED <<columns, job>>
      PROVE  CronInv'
  <2>1. Crons!Leave(r) /\ change[r].on \in excused' /\ excused \subseteq excused'
    BY <1>5 DEF Crons!Fail
  <2> QED
    BY <1>5, <2>1, CronLeaves DEF CronInv, CronTypeOK
\* It goes on with another stage.
<1>6. ASSUME NEW r \in Request, NEW stage \in {"commit", "refresh", "sync"},
             NEW e \in Crons!Entity, change[r].on = e, Crons!Step(r, stage),
             columns' \in [Crons!Entity -> Columns], job' \in [Crons!Entity -> Columns],
             \A f \in Crons!Entity \ {e} : columns'[f] = columns[f] /\ job'[f] = job[f],
             job'[e].expr = None => job'[e] = Crons!Off,
             excused \subseteq excused',
             Meets(change[r], columns[e], job[e])
               => Meets([change[r] EXCEPT !.at = stage], columns'[e], job'[e])
      PROVE  CronInv'
  <2> DEFINE moved == [change[r] EXCEPT !.at = stage]
  <2>1. moved \in Change /\ moved.on = e
    BY <1>0, <1>6 DEF CronTypeOK, Change
  <2>2. change' = [change EXCEPT ![r] = moved]
    BY <1>0, <1>6 DEF CronTypeOK, Crons!Step
  <2>3. Meets(change[r], columns[e], job[e]) => Meets(moved, columns'[e], job'[e])
    BY <1>6
  <2> HIDE DEF moved
  <2> QED
    BY <1>6, <2>1, <2>2, <2>3, CronMoves
<1>7. ASSUME NEW r \in Request, Crons!Commit(r) PROVE CronInv'
  <2> DEFINE req == change[r]
             e == req.on
             moved(stage) == [req EXCEPT !.at = stage]
  <2>1. /\ req \in Change /\ e \in Crons!Entity /\ columns[e] \in Columns /\ job[e] \in Columns
        /\ job[e].expr = None => job[e] = Crons!Off
        /\ req.at = "commit" /\ job' = job
    BY <1>4, <1>7 DEF Crons!Commit
  <2>2. CASE /\ req.op = "create" /\ columns[e] = Crons!Gone
             /\ columns' = [columns EXCEPT ![e] = req.write]
             /\ Crons!Step(r, "refresh") /\ UNCHANGED excused
    <3>1. columns' \in [Crons!Entity -> Columns] /\ columns'[e] = req.write
          /\ \A f \in Crons!Entity \ {e} : columns'[f] = columns[f]
      BY <1>0, <2>1, <2>2 DEF CronTypeOK, Change
    <3>2. Meets(req, columns[e], job[e]) => Meets(moved("refresh"), columns'[e], job'[e])
      BY <1>0, <2>1, <2>2, <3>1 DEF Meets, JobOf, Change, Crons!Off
    <3> QED
      BY <1>0, <1>6, <2>1, <2>2, <3>1, <3>2 DEF CronTypeOK
  <2>3. CASE /\ req.op = "create" /\ columns[e] # Crons!Gone
             /\ Crons!Leave(r) /\ UNCHANGED <<columns, excused>>
    <3>1. Meets(req, columns[e], job[e]) => job'[e] = JobOf(columns'[e])
      BY <2>1, <2>3 DEF Meets, JobOf
    <3> QED
      BY <1>0, <2>1, <2>3, <3>1, CronLeaves DEF CronTypeOK
  <2>4. CASE /\ req.op = "update" /\ columns[e] # Crons!Gone
             /\ columns' = [columns EXCEPT ![e] = Crons!Merged(req)]
             /\ Crons!Step(r, "refresh") /\ UNCHANGED excused
    <3>1. Crons!Merged(req) \in Columns
      <4> DEFINE column(f) == IF req.write[f] # req.seen[f] THEN req.write[f] ELSE columns[e][f]
      <4>1. column("expr") \in Expr \cup {None} /\ column("zone") \in Zone \cup {None}
        BY <2>1 DEF Change, Columns
      <4>2. Crons!Merged(req) = [expr |-> column("expr"), zone |-> column("zone")]
        BY DEF Crons!Merged
      <4> HIDE DEF column
      <4> QED
        BY <4>1, <4>2 DEF Columns
    <3>2. columns' \in [Crons!Entity -> Columns]
          /\ \A f \in Crons!Entity \ {e} : columns'[f] = columns[f]
      BY <1>0, <2>1, <2>4, <3>1 DEF CronTypeOK
    <3>3. Meets(moved("refresh"), columns'[e], job'[e])
      BY <2>1, <2>4 DEF Meets, Change
    <3> QED
      BY <1>0, <1>6, <2>1, <2>4, <3>2, <3>3 DEF CronTypeOK
  <2>5. CASE Crons!Fail(r) /\ UNCHANGED columns
    BY <1>5, <2>1, <2>5
  <2>6. CASE req.op = "update" /\ Crons!Step(r, "refresh") /\ UNCHANGED <<columns, excused>>
    <3>1. Meets(moved("refresh"), columns'[e], job'[e])
      BY <2>1, <2>6 DEF Meets, Change
    <3> QED
      BY <1>0, <1>6, <2>1, <2>6, <3>1 DEF CronTypeOK
  <2>7. CASE /\ req.op = "delete" /\ columns' = [columns EXCEPT ![e] = Crons!Gone]
             /\ UNCHANGED excused
             /\ IF e \in Profile THEN Crons!Step(r, "sync") ELSE Crons!Leave(r)
    <3>1. columns' \in [Crons!Entity -> Columns] /\ columns'[e] = Crons!Gone
          /\ \A f \in Crons!Entity \ {e} : columns'[f] = columns[f]
      BY <1>0, <2>1, <2>7 DEF CronTypeOK
    <3>2. CASE e \in Profile
      <4>1. Meets(req, columns[e], job[e]) => Meets(moved("sync"), columns'[e], job'[e])
        BY <2>1, <2>7, <3>1, <3>2 DEF Meets, Change
      <4> QED
        BY <1>0, <1>6, <2>1, <2>7, <3>1, <3>2, <4>1 DEF CronTypeOK
    <3>3. CASE e \notin Profile
      <4>1. Meets(req, columns[e], job[e]) => job'[e] = JobOf(columns'[e])
        BY <1>0, <2>1, <2>7, <3>1, <3>3 DEF Meets, JobOf, Crons!Off, Crons!Entity
      <4> QED
        BY <1>0, <2>1, <2>7, <3>1, <3>3, <4>1, CronLeaves DEF CronTypeOK
    <3> QED
      BY <3>2, <3>3
  <2> QED
    BY <1>7, <2>2, <2>3, <2>4, <2>5, <2>6, <2>7 DEF Crons!Commit
<1>8. ASSUME NEW r \in Request, Crons!CommitFails(r) PROVE CronInv'
  BY <1>4, <1>5, <1>8 DEF Crons!CommitFails
<1>9. ASSUME NEW r \in Request, Crons!Refresh(r) PROVE CronInv'
  <2> DEFINE req == change[r]
             e == req.on
             next == [req EXCEPT !.at = "sync", !.seen = columns[e]]
  <2>1. /\ req \in Change /\ e \in Crons!Entity /\ columns[e] \in Columns
        /\ job[e].expr = None => job[e] = Crons!Off
        /\ req.at = "refresh" /\ UNCHANGED <<columns, job>>
    BY <1>4, <1>9 DEF Crons!Refresh
  <2>2. CASE columns[e] = Crons!Gone
    BY <1>5, <1>9, <2>1, <2>2 DEF Crons!Refresh
  <2>3. CASE columns[e] # Crons!Gone
    <3>1. next \in Change /\ next.on = e
      BY <2>1 DEF Change
    <3>2. change' = [change EXCEPT ![r] = next] /\ excused' = excused
      BY <1>0, <1>9, <2>3 DEF Crons!Refresh, CronTypeOK
    <3>3. Meets(req, columns[e], job[e]) => Meets(next, columns[e], job[e])
      BY <2>1 DEF Meets, Change
    <3> HIDE DEF next
    <3> QED
      BY <1>0, <2>1, <3>1, <3>2, <3>3, CronMoves DEF CronTypeOK
  <2> QED
    BY <2>2, <2>3
<1>10. ASSUME NEW r \in Request, Crons!Sync(r) PROVE CronInv'
  <2> DEFINE req == change[r]
             e == req.on
             next == [req EXCEPT !.at = "commit"]
  <2>1. /\ req \in Change /\ e \in Crons!Entity /\ columns[e] \in Columns /\ job[e] \in Columns
        /\ job[e].expr = None => job[e] = Crons!Off
        /\ req.at = "sync" /\ columns' = columns /\ excused \subseteq excused'
    BY <1>4, <1>10 DEF Crons!Sync
  <2>2. Crons!Synced(req) \in Columns /\ (Crons!Synced(req).expr = None => Crons!Synced(req) = Crons!Off)
    BY <1>0, <2>1 DEF Crons!Synced, Change
  <2>3. /\ job' \in [Crons!Entity -> Columns] /\ \A f \in Crons!Entity \ {e} : job'[f] = job[f]
        /\ job'[e] = IF req.sync THEN Crons!Synced(req) ELSE job[e]
    BY <1>0, <1>10, <2>1, <2>2 DEF Crons!Sync, CronTypeOK
  <2>4. job'[e].expr = None => job'[e] = Crons!Off
    BY <2>1, <2>2, <2>3
  <2>5. CASE req.op = "delete" /\ e \in PlatformCron
    <3>1. Meets(req, columns[e], job[e]) => Meets(next, columns'[e], job'[e])
      BY <2>1, <2>3, <2>5 DEF Meets, Change, Crons!Synced
    <3>2. Crons!Step(r, "commit")
      BY <1>10, <2>5 DEF Crons!Sync
    <3> QED
      BY <1>0, <1>6, <2>1, <2>3, <2>4, <3>1, <3>2 DEF CronTypeOK
  <2>6. CASE ~(req.op = "delete" /\ e \in PlatformCron)
    <3>1. Crons!Leave(r)
      BY <1>10, <2>6 DEF Crons!Sync
    <3>2. ASSUME e \notin excused', Meets(req, columns[e], job[e])
          PROVE  job'[e] = JobOf(columns'[e])
      <4>1. CASE req.op = "delete"
        BY <1>0, <2>1, <2>3, <2>6, <3>2, <4>1 DEF Meets, JobOf, Crons!Synced, Crons!Off, Crons!Entity
      <4>2. CASE req.op = "create"
        BY <1>0, <2>1, <2>3, <3>2, <4>2 DEF Meets, JobOf, Crons!Synced
      <4>3. CASE req.op = "update" /\ req.sync
        BY <1>0, <2>1, <2>3, <3>2, <4>3 DEF Meets, JobOf, Crons!Synced
      <4>4. CASE req.op = "update" /\ ~req.sync
        <5>1. req.seen = job[e]
          BY <1>10, <3>2, <4>4 DEF Crons!Sync
        <5>2. columns[e] = job[e]
          BY <2>1, <3>2, <4>4, <5>1 DEF Meets
        <5> QED
          BY <1>0, <2>1, <2>3, <4>4, <5>2 DEF JobOf
      <4> QED
        BY <2>1, <3>2, <4>1, <4>2, <4>3, <4>4 DEF Meets, Change
    <3> QED
      BY <1>0, <2>1, <2>3, <2>4, <3>1, <3>2, CronLeaves DEF CronTypeOK
  <2> QED
    BY <2>5, <2>6
<1>11. CASE Crons!Restart
  <2>1. \A e \in Crons!Entity : job'[e] = JobOf(columns[e]) /\ columns' = columns
    BY <1>11 DEF Crons!Restart, JobOf
  <2>2. job' \in [Crons!Entity -> Columns]
    BY <1>0, <1>11, <2>1 DEF Crons!Restart, CronTypeOK
  <2>3. change' \in [Request -> {Crons!Idle}]
    BY <1>11 DEF Crons!Restart
  <2>4. \A e \in Crons!Entity : ~Crons!Busy(e)'
    BY <2>3, CronIdle DEF Crons!Busy
  <2>5. CronTypeOK'
    BY <1>0, <2>2, <2>3, <1>11, CronIdle DEF CronTypeOK, Crons!Restart
  <2>6. \A e \in Crons!Entity : InOrder(e)'
    BY <2>1, <2>4 DEF InOrder, JobOf
  <2>7. \A e \in Crons!Entity : job'[e].expr = None => job'[e] = Crons!Off
    BY <1>0, <2>1 DEF CronTypeOK
  <2> QED
    BY <2>5, <2>6, <2>7 DEF CronInv
<1>12. CASE UNCHANGED Crons!vars
  BY <1>12 DEF Crons!vars, CronInv, CronTypeOK, InOrder, Meets, JobOf, Crons!Busy
<1>13. ASSUME NEW r \in Request, NEW e \in Crons!Entity, NEW cron \in Crons!Cron,
              \/ Crons!UpdateConfigCron(r, e, cron) \/ Crons!UpdateProductCron(r, e, cron)
              \/ \E fields \in SUBSET {"expr", "zone"} : Crons!UpdateConfig(r, e, fields, cron)
       PROVE  CronInv'
  <2>1. PICK fields \in SUBSET {"expr", "zone"}, sync \in BOOLEAN : Crons!Update(r, e, fields, cron, sync)
    <3>1. CASE Crons!UpdateConfigCron(r, e, cron) \/ Crons!UpdateProductCron(r, e, cron)
      BY <3>1 DEF Crons!UpdateConfigCron, Crons!UpdateProductCron
    <3>2. ASSUME NEW fields \in SUBSET {"expr", "zone"}, Crons!UpdateConfig(r, e, fields, cron)
          PROVE  Crons!Update(r, e, fields, cron, "expr" \in fields)
      BY <3>2 DEF Crons!UpdateConfig
    <3>3. \A fields \in SUBSET {"expr", "zone"} : ("expr" \in fields) \in BOOLEAN
      OBVIOUS
    <3> QED
      BY <1>13, <3>1, <3>2, <3>3
  <2> QED
    BY <1>2, <2>1
<1> QED
  BY <1>1, <1>3, <1>7, <1>8, <1>9, <1>10, <1>11, <1>12, <1>13 DEF Crons!Next

\* Whatever the requests on a row do in the steps between its commit and the
\* sync of its job: without a request on it, the job is the row's schedule,
\* unless two of its requests overlapped, one failed halfway or one left the
\* expression out; for any number of configs, crons and requests.
THEOREM CronsInSync ==
  ASSUME None \notin Profile \cup PlatformCron, Profile \cap PlatformCron = {}
  PROVE  Crons!Spec => []SchedulesInSync
<1>0. None \notin Crons!Entity
  BY DEF Crons!Entity
<1>1. Crons!Init => CronInv
  BY <1>0, CronInitInv
<1>2. CronInv /\ [Crons!Next]_(Crons!vars) => CronInv'
  BY <1>0, CronStepInv
<1>3. CronInv => SchedulesInSync
  BY DEF CronInv, InOrder, Crons!Busy, JobOf, SchedulesInSync, Crons!SchedulesInSync
<1> QED
  BY <1>1, <1>2, <1>3, PTL DEF Crons!Spec

---------------------------------------------------------------------------
(* PriceAlerts.  Between the time of a record and its comparison a crawl   *)
(* that nothing crossed still finds the history that it found at first.    *)

PriceRecord == [product : Profile, price : Price, at : Nat]

ProductStage == {"none", "waiting", "fetch", "save", "check", "success", "error", "skipped"}

ProductCrawl == [stage : ProductStage,
                 price : Price \cup {None}, at : Nat, saved : BOOLEAN]

ProductTypeOK ==
  /\ now \in Nat
  /\ history \subseteq PriceRecord
  /\ \A h \in history : h.at <= now
  /\ \A p \in Profile : IsFiniteSet(Products!Records(p))
  /\ crawl \in [Request -> [Profile -> ProductCrawl]]
  /\ crossed \in [Request -> [Profile -> BOOLEAN]]
  /\ before \in [Request -> [Profile -> Price \cup {None}]]

\* A crawl about to save has the newest price before it, and its own time is
\* later than that of every record.
BeforeSave ==
  \A t \in Request, p \in Profile :
    crawl[t][p].stage = "save" =>
      /\ ~crawl[t][p].saved /\ crawl[t][p].at <= now /\ crawl[t][p].price \in Price
      /\ ~crossed[t][p] => /\ before[t][p] = Products!Nth(p, 1)
                           /\ \A h \in Products!Records(p) : h.at < crawl[t][p].at

ProductInv == ProductTypeOK /\ BeforeSave /\ Products!ComparedWithPrevious

LEMMA ProductCounts == \A S : Products!Cardinality(S) = Cardinality(S)
  BY DEF Products!Cardinality, Cardinality

\* What a product's records say does not depend on those of the others.
LEMMA SameRecords ==
  ASSUME NEW p, Products!Records(p)' = Products!Records(p)
  PROVE  /\ Products!Nth(p, 1)' = Products!Nth(p, 1)
         /\ Products!Previous(p)' = Products!Previous(p)
  BY DEF Products!Nth, Products!Previous

\* The n-th newest price is the price of a record.
LEMMA NthPrice ==
  ASSUME ProductTypeOK, NEW p \in Profile
  PROVE  Products!Nth(p, 1) \in Price \cup {None}
<1> DEFINE newer(h) == {g \in Products!Records(p) : g.at > h.at}
           at == {h \in Products!Records(p) : Products!Cardinality(newer(h)) = 1 - 1}
<1>1. at \subseteq PriceRecord
  BY DEF ProductTypeOK, Products!Records
<1>2. Products!Nth(p, 1) = IF at = {} THEN None ELSE (CHOOSE h \in at : TRUE).price
  BY DEF Products!Nth
<1> HIDE DEF at
<1> QED
  BY <1>1, <1>2 DEF PriceRecord

\* After a record later than all others, the newest price is the second newest.
LEMMA NewestBecomesSecond ==
  ASSUME NEW p \in Profile, NEW new \in PriceRecord,
         Products!Records(p) \subseteq PriceRecord, IsFiniteSet(Products!Records(p)),
         \A h \in Products!Records(p) : h.at < new.at,
         Products!Records(p)' = Products!Records(p) \cup {new}
  PROVE  Products!Previous(p)' = Products!Nth(p, 1)
<1> DEFINE R == Products!Records(p)
           newer(h) == {g \in R : g.at > h.at}
           newer2(h) == {g \in R \cup {new} : g.at > h.at}
           first == {h \in R : Products!Cardinality(newer(h)) = 1 - 1}
           second == {h \in R \cup {new} : Products!Cardinality(newer2(h)) = 2 - 1}
<1>1. /\ Products!Nth(p, 1) = IF first = {} THEN None ELSE (CHOOSE h \in first : TRUE).price
      /\ Products!Previous(p)' = IF second = {} THEN None ELSE (CHOOSE h \in second : TRUE).price
  <2>1. Products!Nth(p, 1) = IF first = {} THEN None ELSE (CHOOSE h \in first : TRUE).price
    BY DEF Products!Nth
  <2>2. Products!Previous(p)' = IF second = {} THEN None ELSE (CHOOSE h \in second : TRUE).price
    BY DEF Products!Nth, Products!Previous
  <2> QED
    BY <2>1, <2>2
<1>2. new \notin second
  <2>1. newer2(new) = {}
    BY DEF PriceRecord
  <2> HIDE DEF newer2
  <2> QED
    BY <2>1, FS_EmptySet, ProductCounts
<1>3. ASSUME NEW h \in R PROVE h \in second <=> h \in first
  <2>1. newer2(h) = newer(h) \cup {new} /\ new \notin newer(h)
    BY DEF PriceRecord
  <2>2. IsFiniteSet(newer(h))
    BY FS_Subset
  <2> HIDE DEF newer, newer2
  <2>3. Cardinality(newer2(h)) = Cardinality(newer(h)) + 1 /\ Cardinality(newer(h)) \in Nat
    BY <2>1, <2>2, FS_AddElement, FS_CardinalityType
  <2> QED
    BY <2>3, ProductCounts
<1> HIDE DEF newer, newer2
<1>4. first = second
  BY <1>2, <1>3
<1> HIDE DEF first, second
<1> QED
  BY <1>1, <1>4

LEMMA ProductInitInv == ASSUME Products!Init PROVE ProductInv
<1>1. PICK n \in 0..2, f \in [1..2 -> Price] :
        /\ history = {[product |-> p, price |-> f[i], at |-> i] :
                        p \in {q \in Profile : product[q] = "active"}, i \in 1..n}
        /\ now = n
  BY SMTT(60) DEF Products!Init
<1>2. now \in Nat /\ history \subseteq PriceRecord /\ \A h \in history : h.at <= now
  BY <1>1 DEF PriceRecord
<1>3. ASSUME NEW p \in Profile PROVE IsFiniteSet(Products!Records(p))
  <2> DEFINE rec(i) == [product |-> p, price |-> f[i], at |-> i]
  <2>1. Products!Records(p) \subseteq ({} \cup {rec(1)}) \cup {rec(2)}
    BY <1>1 DEF Products!Records
  <2> HIDE DEF rec
  <2> QED
    BY <2>1, FS_EmptySet, FS_AddElement, FS_Subset
<1>4. /\ crawl \in [Request -> [Profile -> {Products!NoCrawl}]]
      /\ crossed \in [Request -> [Profile -> {FALSE}]]
      /\ before \in [Request -> [Profile -> {None}]]
  BY DEF Products!Init
<1>5. Products!NoCrawl \in ProductCrawl /\ Products!NoCrawl.stage = "none"
  BY DEF Products!NoCrawl, ProductCrawl, ProductStage
<1>6. ProductTypeOK
  <2>1. crawl \in [Request -> [Profile -> ProductCrawl]]
    BY <1>4, <1>5
  <2>2. before \in [Request -> [Profile -> Price \cup {None}]]
    BY <1>4
  <2>3. crossed \in [Request -> [Profile -> BOOLEAN]]
    BY DEF Products!Init
  <2> QED
    BY <1>2, <1>3, <2>1, <2>2, <2>3 DEF ProductTypeOK
<1>7. \A t \in Request, p \in Profile : crawl[t][p].stage = "none"
  BY <1>4, <1>5
<1> QED
  BY <1>6, <1>7 DEF ProductInv, BeforeSave, Products!ComparedWithPrevious

\* The crawl of one product moves.
LEMMA CrawlMoves ==
  ASSUME ProductTypeOK, NEW t \in Request, NEW p \in Profile, NEW stage \in ProductStage,
         Products!To(t, p, stage)
  PROVE  /\ crawl' \in [Request -> [Profile -> ProductCrawl]]
         /\ crawl'[t][p] = [crawl[t][p] EXCEPT !.stage = stage]
         /\ crawl'[t][p].stage = stage /\ crawl'[t][p].saved = crawl[t][p].saved
         /\ \A u \in Request, q \in Profile : u # t \/ q # p => crawl'[u][q] = crawl[u][q]
<1> DEFINE rec == [crawl[t][p] EXCEPT !.stage = stage]
<1>1. /\ rec \in ProductCrawl /\ rec.stage = stage /\ rec.saved = crawl[t][p].saved
  <2>1. crawl[t][p] \in ProductCrawl
    BY DEF ProductTypeOK
  <2> QED
    BY <2>1 DEF ProductCrawl
<1>2. crawl' = [crawl EXCEPT ![t][p] = rec]
  BY DEF Products!To, ProductTypeOK
<1> HIDE DEF rec
<1>3. /\ crawl' \in [Request -> [Profile -> ProductCrawl]] /\ crawl'[t][p] = rec
      /\ \A u \in Request, q \in Profile : u # t \/ q # p => crawl'[u][q] = crawl[u][q]
  BY <1>1, <1>2 DEF ProductTypeOK
<1> QED
  BY <1>1, <1>3 DEF rec

\* It moves without touching the history.
LEMMA CrawlMovesInv ==
  ASSUME ProductInv, NEW t \in Request, NEW p \in Profile,
         NEW stage \in ProductStage, stage # "save",
         stage = "check" => crawl[t][p].stage = "save",
         Products!To(t, p, stage), UNCHANGED <<history, before, crossed, now>>
  PROVE  ProductInv'
<1>1. /\ crawl' \in [Request -> [Profile -> ProductCrawl]]
      /\ crawl'[t][p].stage = stage /\ crawl'[t][p].saved = crawl[t][p].saved
      /\ \A u \in Request, q \in Profile : u # t \/ q # p => crawl'[u][q] = crawl[u][q]
  BY CrawlMoves DEF ProductInv
<1>2. \A q \in Profile : Products!Records(q)' = Products!Records(q)
  BY DEF Products!Records
<1>3. \A q \in Profile : /\ Products!Nth(q, 1)' = Products!Nth(q, 1)
                         /\ Products!Previous(q)' = Products!Previous(q)
  BY <1>2, SameRecords
<1>4. ProductTypeOK'
  BY <1>1, <1>2 DEF ProductInv, ProductTypeOK
<1>5. BeforeSave'
  BY <1>1, <1>2, <1>3 DEF ProductInv, BeforeSave
<1>6. Products!ComparedWithPrevious'
  BY <1>1, <1>3 DEF ProductInv, BeforeSave, Products!ComparedWithPrevious
<1> QED
  BY <1>4, <1>5, <1>6 DEF ProductInv

\* The history changes, and the crawls at the same point are marked.
LEMMA HistoryMovesInv ==
  ASSUME ProductInv, UNCHANGED <<crawl, before, now>>, history' \subseteq history,
         crossed' \in [Request -> [Profile -> BOOLEAN]],
         \A t \in Request, p \in Profile :
           ~crossed'[t][p] => ~crossed[t][p] /\ Products!Records(p)' = Products!Records(p)
  PROVE  ProductInv'
<1>1. \A p \in Profile : Products!Records(p)' \subseteq Products!Records(p)
  BY DEF Products!Records
<1>2. \A p \in Profile : IsFiniteSet(Products!Records(p))'
  BY <1>1, FS_Subset DEF ProductInv, ProductTypeOK
<1>3. ProductTypeOK'
  BY <1>2 DEF ProductInv, ProductTypeOK
<1>4. \A t \in Request, p \in Profile : ~crossed'[t][p] =>
        /\ Products!Nth(p, 1)' = Products!Nth(p, 1)
        /\ Products!Previous(p)' = Products!Previous(p)
  BY SameRecords
<1>5. BeforeSave'
  BY <1>4 DEF ProductInv, BeforeSave
<1>6. Products!ComparedWithPrevious'
  BY <1>4 DEF ProductInv, Products!ComparedWithPrevious
<1> QED
  BY <1>3, <1>5, <1>6 DEF ProductInv

LEMMA LoadInv == ASSUME ProductInv, NEW t \in Request, Products!Load(t) PROVE ProductInv'
<1> DEFINE found == {p \in Profile : product[p] = "active"}
           rec(p) == [Products!NoCrawl EXCEPT !.stage = IF p \in found THEN "waiting" ELSE "none"]
<1>1. \A p \in Profile : rec(p) \in ProductCrawl /\ rec(p).stage \in {"waiting", "none"}
  BY DEF Products!NoCrawl, ProductCrawl, ProductStage
<1>2. crawl' = [crawl EXCEPT ![t] = [p \in Profile |-> rec(p)]] /\ UNCHANGED <<history, before, crossed, now>>
  BY DEF Products!Load
<1> HIDE DEF rec
<1>3. /\ crawl' \in [Request -> [Profile -> ProductCrawl]]
      /\ \A p \in Profile : crawl'[t][p].stage \in {"waiting", "none"}
      /\ \A u \in Request \ {t} : crawl'[u] = crawl[u]
  BY <1>1, <1>2 DEF ProductInv, ProductTypeOK
<1>4. \A q \in Profile : Products!Records(q)' = Products!Records(q)
  BY <1>2 DEF Products!Records
<1>5. \A q \in Profile : /\ Products!Nth(q, 1)' = Products!Nth(q, 1)
                         /\ Products!Previous(q)' = Products!Previous(q)
  BY <1>4, SameRecords
<1>6. ProductTypeOK'
  BY <1>2, <1>3, <1>4 DEF ProductInv, ProductTypeOK
<1>7. BeforeSave' /\ Products!ComparedWithPrevious'
  <2> SUFFICES ASSUME NEW u \in Request, NEW q \in Profile, crawl'[u][q].stage \in {"save", "check"}
               PROVE  crawl'[u][q] = crawl[u][q]
    BY <1>2, <1>4, <1>5 DEF ProductInv, BeforeSave, Products!ComparedWithPrevious
  <2> QED
    BY <1>3
<1> QED
  BY <1>6, <1>7 DEF ProductInv

LEMMA AnswerInv ==
  ASSUME ProductInv, NEW t \in Request, NEW p \in Profile, NEW price \in Price \cup {None},
         Products!Answer(t, p, price)
  PROVE  ProductInv'
<1> DEFINE rec == [stage |-> "save", price |-> price, at |-> now + 1, saved |-> FALSE]
           marked == \E u \in Request \ {t} : crawl[u][p].stage \in {"save", "check"}
<1>1. CASE /\ Products!To(t, p, "skipped") \/ Products!To(t, p, "error")
           /\ UNCHANGED <<before, crossed, now>>
  BY <1>1, CrawlMovesInv DEF Products!Answer, ProductStage
<1>2. CASE /\ price # None /\ crawl' = [crawl EXCEPT ![t][p] = rec]
           /\ before' = [before EXCEPT ![t][p] = Products!Nth(p, 1)]
           /\ crossed' = [crossed EXCEPT ![t][p] = marked]
           /\ now' = now + 1
  <2>1. /\ history' = history /\ price \in Price /\ now' \in Nat /\ now < now'
        /\ \A h \in history : h.at \in Nat /\ h.at < now' /\ h.at <= now'
    BY <1>2 DEF Products!Answer, ProductInv, ProductTypeOK, PriceRecord
  <2>2. rec \in ProductCrawl /\ rec.at = now' /\ ~rec.saved /\ rec.stage = "save" /\ rec.price = price
    BY <1>2, <2>1 DEF ProductCrawl, ProductStage
  <2>3. marked \in BOOLEAN
    OBVIOUS
  <2> HIDE DEF rec, marked
  <2>4. /\ crawl' \in [Request -> [Profile -> ProductCrawl]] /\ crawl'[t][p] = rec
        /\ \A u \in Request, q \in Profile : u # t \/ q # p => crawl'[u][q] = crawl[u][q]
    BY <1>2, <2>2 DEF ProductInv, ProductTypeOK
  <2>5. /\ before' \in [Request -> [Profile -> Price \cup {None}]] /\ before'[t][p] = Products!Nth(p, 1)
        /\ \A u \in Request, q \in Profile : u # t \/ q # p => before'[u][q] = before[u][q]
    BY <1>2, NthPrice DEF ProductInv, ProductTypeOK
  <2>6. /\ crossed' \in [Request -> [Profile -> BOOLEAN]]
        /\ \A u \in Request, q \in Profile : u # t \/ q # p => crossed'[u][q] = crossed[u][q]
    BY <1>2, <2>3 DEF ProductInv, ProductTypeOK
  <2>7. \A q \in Profile : Products!Records(q)' = Products!Records(q)
    BY <2>1 DEF Products!Records
  <2>8. \A q \in Profile : /\ Products!Nth(q, 1)' = Products!Nth(q, 1)
                           /\ Products!Previous(q)' = Products!Previous(q)
    BY <2>7, SameRecords
  <2>9. ProductTypeOK'
    BY <2>1, <2>4, <2>5, <2>6, <2>7 DEF ProductInv, ProductTypeOK
  <2>10. BeforeSave'
    <3> SUFFICES ASSUME NEW u \in Request, NEW q \in Profile, crawl'[u][q].stage = "save"
                 PROVE  /\ ~crawl'[u][q].saved /\ crawl'[u][q].at <= now' /\ crawl'[u][q].price \in Price
                        /\ ~crossed'[u][q] =>
                             /\ before'[u][q] = Products!Nth(q, 1)'
                             /\ \A h \in Products!Records(q)' : h.at < crawl'[u][q].at
      BY DEF BeforeSave
    <3>1. CASE u = t /\ q = p
      <4>1. \A h \in Products!Records(q)' : h.at < now'
        BY <2>1, <2>7 DEF Products!Records
      <4>2. now' <= now'
        BY <2>1
      <4> QED
        BY <2>1, <2>2, <2>4, <2>5, <2>8, <3>1, <4>1, <4>2
    <3>2. CASE u # t \/ q # p
      <4>1. crawl[u][q].at \in Nat /\ now \in Nat
        BY DEF ProductInv, ProductTypeOK, ProductCrawl
      <4>2. crawl[u][q].stage = "save" /\ crawl[u][q].at <= now
        BY <2>4, <3>2 DEF ProductInv, BeforeSave
      <4>3. crawl'[u][q].at <= now'
        BY <2>1, <2>4, <3>2, <4>1, <4>2
      <4>4. /\ crawl'[u][q] = crawl[u][q] /\ before'[u][q] = before[u][q]
            /\ crossed'[u][q] = crossed[u][q]
        BY <2>4, <2>5, <2>6, <3>2
      <4>5. /\ ~crawl[u][q].saved /\ crawl[u][q].price \in Price
            /\ ~crossed[u][q] => /\ before[u][q] = Products!Nth(q, 1)
                                 /\ \A h \in Products!Records(q) : h.at < crawl[u][q].at
        BY <4>2 DEF ProductInv, BeforeSave
      <4> QED
        BY <2>7, <2>8, <4>3, <4>4, <4>5
    <3> QED
      BY <3>1, <3>2
  <2>11. Products!ComparedWithPrevious'
    <3> SUFFICES ASSUME NEW u \in Request, NEW q \in Profile, crawl'[u][q].stage = "check",
                        crawl'[u][q].saved, ~crossed'[u][q]
                 PROVE  Products!Previous(q)' = before'[u][q]
      BY DEF Products!ComparedWithPrevious
    <3>1. u # t \/ q # p
      BY <2>2, <2>4
    <3>2. /\ crawl'[u][q] = crawl[u][q] /\ before'[u][q] = before[u][q]
          /\ crossed'[u][q] = crossed[u][q]
      BY <2>4, <2>5, <2>6, <3>1
    <3> QED
      BY <2>8, <3>2 DEF ProductInv, Products!ComparedWithPrevious
  <2> QED
    BY <2>9, <2>10, <2>11 DEF ProductInv
<1> QED
  BY <1>1, <1>2 DEF Products!Answer, rec, marked

LEMMA SaveInv ==
  ASSUME ProductInv, NEW t \in Request, NEW p \in Profile, Products!Save(t, p) PROVE ProductInv'
<1> DEFINE rec == [crawl[t][p] EXCEPT !.stage = "check", !.saved = TRUE]
           new == [product |-> p, price |-> crawl[t][p].price, at |-> crawl[t][p].at]
           marked(u, q) == crossed[u][q] \/ (u # t /\ q = p /\ crawl[u][p].stage \in {"save", "check"})
<1>1. /\ crawl[t][p].stage = "save" /\ crawl[t][p] \in ProductCrawl
      /\ crawl[t][p].at <= now /\ crawl[t][p].price \in Price
      /\ UNCHANGED <<before, now>>
  BY DEF Products!Save, ProductInv, ProductTypeOK, BeforeSave
<1>2. rec \in ProductCrawl /\ rec.stage = "check"
  BY <1>1 DEF ProductCrawl, ProductStage
<1>3. /\ crawl' \in [Request -> [Profile -> ProductCrawl]] /\ crawl'[t][p] = rec
      /\ \A u \in Request, q \in Profile : u # t \/ q # p => crawl'[u][q] = crawl[u][q]
  <2>1. crawl' = [crawl EXCEPT ![t][p] = rec]
    BY DEF Products!Save, ProductInv, ProductTypeOK
  <2> HIDE DEF rec
  <2> QED
    BY <1>2, <2>1 DEF ProductInv, ProductTypeOK
<1>4. new \in PriceRecord /\ new.product = p /\ new.at = crawl[t][p].at /\ new.at <= now
  BY <1>1 DEF PriceRecord, ProductCrawl
<1>5. history' = history \cup {new}
  BY DEF Products!Save
<1>6. /\ crossed' \in [Request -> [Profile -> BOOLEAN]]
      /\ \A u \in Request, q \in Profile : crossed'[u][q] = marked(u, q)
  <2>1. crossed' = [u \in Request |-> [q \in Profile |-> marked(u, q)]]
    BY DEF Products!Save
  <2>2. \A u \in Request, q \in Profile : marked(u, q) \in BOOLEAN
    BY DEF ProductInv, ProductTypeOK
  <2> HIDE DEF marked
  <2> QED
    BY <2>1, <2>2
<1> HIDE DEF rec, new
<1>7. /\ Products!Records(p)' = Products!Records(p) \cup {new}
      /\ \A q \in Profile \ {p} : Products!Records(q)' = Products!Records(q)
  BY <1>4, <1>5 DEF Products!Records
<1>8. \A q \in Profile \ {p} : /\ Products!Nth(q, 1)' = Products!Nth(q, 1)
                               /\ Products!Previous(q)' = Products!Previous(q)
  BY <1>7, SameRecords
<1>9. ProductTypeOK'
  <2>1. ASSUME NEW q \in Profile PROVE IsFiniteSet(Products!Records(q))'
    <3>1. \A r \in Profile : IsFiniteSet(Products!Records(r))
      BY DEF ProductInv, ProductTypeOK
    <3>2. IsFiniteSet(Products!Records(p) \cup {new})
      BY <3>1, FS_AddElement
    <3> QED
      BY <1>7, <3>1, <3>2
  <2>2. history' \subseteq PriceRecord /\ \A h \in history' : h.at <= now'
    BY <1>1, <1>4, <1>5 DEF ProductInv, ProductTypeOK
  <2> QED
    BY <1>1, <1>3, <1>6, <2>1, <2>2 DEF ProductInv, ProductTypeOK
<1>10. BeforeSave'
  <2> SUFFICES ASSUME NEW u \in Request, NEW q \in Profile, crawl'[u][q].stage = "save"
               PROVE  /\ ~crawl'[u][q].saved /\ crawl'[u][q].at <= now' /\ crawl'[u][q].price \in Price
                      /\ ~crossed'[u][q] =>
                           /\ before'[u][q] = Products!Nth(q, 1)'
                           /\ \A h \in Products!Records(q)' : h.at < crawl'[u][q].at
    BY DEF BeforeSave
  <2>1. (u # t \/ q # p) /\ crawl'[u][q] = crawl[u][q]
    BY <1>2, <1>3
  <2>2. ~crossed'[u][q] => ~crossed[u][q] /\ q # p
    BY <1>6, <2>1
  <2> QED
    BY <1>1, <1>7, <1>8, <2>1, <2>2 DEF ProductInv, BeforeSave
<1>11. Products!ComparedWithPrevious'
  <2> SUFFICES ASSUME NEW u \in Request, NEW q \in Profile, crawl'[u][q].stage = "check",
                      crawl'[u][q].saved, ~crossed'[u][q]
               PROVE  Products!Previous(q)' = before'[u][q]
    BY DEF Products!ComparedWithPrevious
  <2>1. CASE u = t /\ q = p
    <3>1. /\ before[t][p] = Products!Nth(p, 1)
          /\ \A h \in Products!Records(p) : h.at < new.at
      BY <1>1, <1>4, <1>6, <2>1 DEF ProductInv, BeforeSave
    <3>2. Products!Records(p) \subseteq PriceRecord /\ IsFiniteSet(Products!Records(p))
      BY DEF ProductInv, ProductTypeOK, Products!Records
    <3>3. Products!Previous(p)' = Products!Nth(p, 1)
      BY <1>4, <1>7, <3>1, <3>2, NewestBecomesSecond
    <3> QED
      BY <1>1, <2>1, <3>1, <3>3
  <2>2. CASE u # t \/ q # p
    <3>1. crawl'[u][q] = crawl[u][q]
      BY <1>3, <2>2
    <3>2. ~crossed[u][q] /\ q # p
      BY <1>6, <2>2, <3>1
    <3> QED
      BY <1>1, <1>8, <3>1, <3>2 DEF ProductInv, Products!ComparedWithPrevious
  <2> QED
    BY <2>1, <2>2
<1> QED
  BY <1>9, <1>10, <1>11 DEF ProductInv

LEMMA ProductStepInv == ASSUME ProductInv, [Products!Next]_(Products!vars) PROVE ProductInv'
<1>0. ASSUME UNCHANGED <<crawl, before, crossed, now, history>> PROVE ProductInv'
  <2>1. crossed' \in [Request -> [Profile -> BOOLEAN]]
    BY <1>0 DEF ProductInv, ProductTypeOK
  <2>2. \A p \in Profile : Products!Records(p)' = Products!Records(p)
    BY <1>0 DEF Products!Records
  <2> QED
    BY <1>0, <2>1, <2>2, HistoryMovesInv
<1>1. ASSUME NEW t \in Request, Products!Load(t) PROVE ProductInv'
  BY <1>1, LoadInv
<1>2. ASSUME NEW t \in Request, Products!Gather(t) PROVE ProductInv'
  BY <1>0, <1>2 DEF Products!Gather
<1>3. ASSUME NEW t \in Request, NEW p \in Profile, Products!Fetch(t, p) PROVE ProductInv'
  <2>1. Products!To(t, p, "fetch") \/ Products!To(t, p, "skipped")
    BY <1>3 DEF Products!Fetch
  <2> QED
    BY <1>3, <2>1, CrawlMovesInv DEF Products!Fetch, ProductStage
<1>4. ASSUME NEW t \in Request, NEW p \in Profile, NEW price \in Price \cup {None},
             Products!Answer(t, p, price)
      PROVE  ProductInv'
  BY <1>4, AnswerInv
<1>5. ASSUME NEW t \in Request, NEW p \in Profile, Products!Save(t, p) PROVE ProductInv'
  BY <1>5, SaveInv
<1>6. ASSUME NEW t \in Request, NEW p \in Profile, Products!SaveFails(t, p) PROVE ProductInv'
  BY <1>6, CrawlMovesInv DEF Products!SaveFails, ProductStage
<1>7. ASSUME NEW t \in Request, NEW p \in Profile, Products!Check(t, p) PROVE ProductInv'
  BY <1>7, CrawlMovesInv DEF Products!Check, ProductStage
<1>8. ASSUME NEW ps \in SUBSET Profile, Products!Remove(ps) PROVE ProductInv'
  <2>1. /\ history' \subseteq history
        /\ \A p \in Profile \ ps : Products!Records(p)' = Products!Records(p)
    BY <1>8 DEF Products!Remove, Products!Records
  <2>2. /\ crossed' \in [Request -> [Profile -> BOOLEAN]]
        /\ \A t \in Request, p \in Profile : ~crossed'[t][p] => ~crossed[t][p] /\ p \notin ps
    <3> DEFINE marked(t, p) == p \in ps \/ crossed[t][p]
    <3>1. \A t \in Request, p \in Profile : marked(t, p) \in BOOLEAN
      BY DEF ProductInv, ProductTypeOK
    <3>2. crossed' = [t \in Request |-> [p \in Profile |-> marked(t, p)]]
      BY <1>8 DEF Products!Remove
    <3>3. \A t \in Request, p \in Profile : ~marked(t, p) => ~crossed[t][p] /\ p \notin ps
      OBVIOUS
    <3> HIDE DEF marked
    <3> QED
      BY <3>1, <3>2, <3>3
  <2> QED
    BY <1>8, <2>1, <2>2, HistoryMovesInv DEF Products!Remove
<1>9. ASSUME NEW cutoff \in 1..MaxTime, Products!Cleanup(cutoff) PROVE ProductInv'
  <2> DEFINE dropped(p) == \E h \in Products!Records(p) : h.at < cutoff
             marked(t, p) == crossed[t][p] \/ dropped(p)
  <2>1. history' \subseteq history
    BY <1>9 DEF Products!Cleanup
  <2>2. ASSUME NEW p \in Profile, ~dropped(p) PROVE Products!Records(p)' = Products!Records(p)
    <3>1. \A h \in Products!Records(p) : h.at \in Nat /\ h \in history /\ h.product = p
      BY DEF ProductInv, ProductTypeOK, PriceRecord, Products!Records
    <3>2. \A h \in Products!Records(p) : h.at >= cutoff
      BY <2>2, <3>1
    <3>3. history' = {h \in history : h.at >= cutoff}
      BY <1>9 DEF Products!Cleanup
    <3> QED
      BY <3>1, <3>2, <3>3 DEF Products!Records
  <2>3. \A t \in Request, p \in Profile : marked(t, p) \in BOOLEAN
    BY DEF ProductInv, ProductTypeOK
  <2>4. crossed' = [t \in Request |-> [p \in Profile |-> marked(t, p)]]
    BY <1>9 DEF Products!Cleanup
  <2>5. \A t \in Request, p \in Profile : ~marked(t, p) => ~crossed[t][p] /\ ~dropped(p)
    OBVIOUS
  <2> HIDE DEF marked, dropped
  <2>6. /\ crossed' \in [Request -> [Profile -> BOOLEAN]]
        /\ \A t \in Request, p \in Profile :
             ~crossed'[t][p] => ~crossed[t][p] /\ Products!Records(p)' = Products!Records(p)
    BY <2>2, <2>3, <2>4, <2>5
  <2> QED
    BY <1>9, <2>1, <2>6, HistoryMovesInv DEF Products!Cleanup
<1>10. ASSUME NEW ps, NEW status, Products!SetStatus(ps, status) PROVE ProductInv'
  BY <1>0, <1>10 DEF Products!SetStatus
<1>11. ASSUME NEW a, NEW new, Products!SetAlert(a, new) PROVE ProductInv'
  BY <1>0, <1>11 DEF Products!SetAlert
<1>12. CASE Products!SetWebhook
  BY <1>0, <1>12 DEF Products!SetWebhook
<1>13. CASE UNCHANGED Products!vars
  BY <1>0, <1>13 DEF Products!vars
<1>14. ASSUME NEW p \in Profile,
              \/ Products!DeleteProduct(p)
              \/ \E status \in {"active", "inactive"} :
                   Products!CreateProduct(p, status) \/ Products!UpdateProduct(p, status)
       PROVE  ProductInv'
  <2>1. CASE Products!DeleteProduct(p)
    BY <1>8, <2>1 DEF Products!DeleteProduct
  <2>2. CASE \E status \in {"active", "inactive"} :
               Products!CreateProduct(p, status) \/ Products!UpdateProduct(p, status)
    BY <1>10, <2>2 DEF Products!CreateProduct, Products!UpdateProduct
  <2> QED
    BY <1>14, <2>1, <2>2
<1>15. ASSUME NEW ps \in SUBSET Profile \ {{}},
              \/ Products!CreateBatch(ps) \/ Products!DeleteBatch(ps)
              \/ \E status \in {"active", "inactive"} : Products!UpdateBatch(ps, status)
       PROVE  ProductInv'
  <2>1. CASE Products!DeleteBatch(ps)
    BY <1>8, <2>1 DEF Products!DeleteBatch
  <2>2. CASE Products!CreateBatch(ps) \/ \E status \in {"active", "inactive"} : Products!UpdateBatch(ps, status)
    BY <1>10, <2>2 DEF Products!CreateBatch, Products!UpdateBatch
  <2> QED
    BY <1>15, <2>1, <2>2
<1>16. ASSUME NEW a \in Profile,
              \/ Products!DeleteAlert(a)
              \/ \E threshold \in Threshold \cup {None}, active \in BOOLEAN :
                   \/ Products!UpdateAlert(a, active, threshold)
                   \/ \E p \in Profile : Products!CreateAlert(a, p, active, threshold)
       PROVE  ProductInv'
  BY <1>11, <1>16 DEF Products!DeleteAlert, Products!UpdateAlert, Products!CreateAlert
<1> QED
  BY <1>1, <1>2, <1>3, <1>4, <1>5, <1>6, <1>7, <1>9, <1>12, <1>13, <1>14, <1>15, <1>16 DEF Products!Next

\* However many tasks crawl a product while its owner edits and deletes it and
\* old data is cleaned up: a price that was recorded is compared with the one
\* before it, unless the record or the comparison was crossed in between; for
\* any prices, products and tasks, and any history.
THEOREM PreviousIsCompared == Products!Spec => []ComparedWithPrevious
<1>1. Products!Init => ProductInv
  BY ProductInitInv
<1>2. ProductInv /\ [Products!Next]_(Products!vars) => ProductInv'
  BY ProductStepInv
<1>3. ProductInv => ComparedWithPrevious
  BY DEF ProductInv, ComparedWithPrevious
<1> QED
  BY <1>1, <1>2, <1>3, PTL DEF Products!Spec

---------------------------------------------------------------------------
(* ProfilePool with expiring leases, recovery and the operations that write *)
(* lease columns: the invariants of ProfilePoolProofs, taken over to the    *)
(* instance Racing.  RacingPool is the same instance, of the module with    *)
(* the proofs.                                                              *)

RacingPool == INSTANCE ProfilePoolProofs
  WITH Profile <- RacingProfile, Task <- RacingTask, Maintainer <- RacingMaintainer,
       Ops <- RacingOps, Outlasting <- TRUE, Crashes <- TRUE,
       row <- row2, uses <- uses2, ended <- ended2, robbed <- robbed2,
       request <- request2, login <- login2, selected <- selected2, seen <- seen2

RacingAssumption == RacingOps \subseteq AllOps /\ NoTask \notin RacingTask /\ NoProfile \notin RacingProfile

LEMMA RacingInit == Racing!Init <=> RacingPool!Init
BY DEF Racing!Init, RacingPool!Init, Racing!AbsentRow, RacingPool!AbsentRow,
       Racing!NoRequest, RacingPool!NoRequest

\* The steps of the instances are the same, group by group.
LEMMA RacingNext == [Racing!Next]_(Racing!vars) <=> [RacingPool!Next]_(RacingPool!vars)
<1> USE DEF Racing!crawls, RacingPool!crawls, Racing!maintenance, RacingPool!maintenance,
            Racing!AbsentRow, RacingPool!AbsentRow, Racing!FreeRow, RacingPool!FreeRow,
            Racing!NoRequest, RacingPool!NoRequest, Racing!Blocking, RacingPool!Blocking,
            Racing!Rob, RacingPool!Rob, Racing!Users, RacingPool!Users,
            Racing!Frees, RacingPool!Frees
<1>1. \A t \in RacingTask : Racing!Crawl(t) <=> RacingPool!Crawl(t)
  BY DEF Racing!Crawl, RacingPool!Crawl, Racing!Acquire, RacingPool!Acquire,
         Racing!AcquireLost, RacingPool!AcquireLost, Racing!Leasable, RacingPool!Leasable,
         Racing!LeasedRow, RacingPool!LeasedRow, Racing!Release, RacingPool!Release,
         Racing!Released, RacingPool!Released, Racing!EndUse, RacingPool!EndUse,
         Racing!CrawlDies, RacingPool!CrawlDies
<1>2. \A a \in Request : Racing!Operate(a) <=> RacingPool!Operate(a)
  BY DEF Racing!Operate, RacingPool!Operate, Racing!Begin, RacingPool!Begin,
         Racing!RefusedIfLeased, RacingPool!RefusedIfLeased, Racing!AllOps, RacingPool!AllOps,
         Racing!RefusedIfLoggedIn, RacingPool!RefusedIfLoggedIn, Racing!Runtime, RacingPool!Runtime,
         Racing!Unlocked, RacingPool!Unlocked, Racing!Update, RacingPool!Update,
         Racing!Assigned, RacingPool!Assigned, Racing!Flush, RacingPool!Flush,
         Racing!Written, RacingPool!Written, Racing!End, RacingPool!End,
         Racing!OpenLogin, RacingPool!OpenLogin, Racing!Rename, RacingPool!Rename,
         Racing!Vanish, RacingPool!Vanish, Racing!Delete, RacingPool!Delete,
         Racing!Abandon, RacingPool!Abandon
<1>3. \A p \in RacingProfile : /\ Racing!LeaseExpires(p) <=> RacingPool!LeaseExpires(p)
                               /\ Racing!Create(p) <=> RacingPool!Create(p)
                               /\ Racing!CloseLogin(p) <=> RacingPool!CloseLogin(p)
  BY DEF Racing!LeaseExpires, RacingPool!LeaseExpires, Racing!Create, RacingPool!Create,
         Racing!CloseLogin, RacingPool!CloseLogin, Racing!Unlocked, RacingPool!Unlocked,
         Racing!Runtime, RacingPool!Runtime
<1>4. \A m \in RacingMaintainer : /\ Racing!RecoverLoad(m) <=> RacingPool!RecoverLoad(m)
                                  /\ Racing!RecoverCommit(m) <=> RacingPool!RecoverCommit(m)
                                  /\ Racing!RecoverFails(m) <=> RacingPool!RecoverFails(m)
  BY DEF Racing!RecoverLoad, RacingPool!RecoverLoad, Racing!RecoverCommit, RacingPool!RecoverCommit,
         Racing!RecoverFails, RacingPool!RecoverFails, Racing!Flush, RacingPool!Flush,
         Racing!Written, RacingPool!Written, Racing!ForgetSelection, RacingPool!ForgetSelection
<1>5. Racing!ApiRestart <=> RacingPool!ApiRestart
  BY DEF Racing!ApiRestart, RacingPool!ApiRestart
<1>6. Racing!vars = RacingPool!vars
  BY DEF Racing!vars, RacingPool!vars
<1>7. Racing!Next <=> RacingPool!Next
  BY <1>1, <1>2, <1>3, <1>4, <1>5 DEF Racing!Next, RacingPool!Next
<1>8. UNCHANGED Racing!vars <=> UNCHANGED RacingPool!vars
  BY DEF Racing!vars, RacingPool!vars
<1> QED
  BY <1>7, <1>8

\* Although crawls outlast their leases, and recovery and operators write rows
\* that they loaded earlier: a row has an owner exactly when it has a lease.
THEOREM RacingLeasesAgree ==
  ASSUME RacingAssumption PROVE Racing!Spec => []LeaseNamesOwnerWhenRacing
<1>1. Racing!Init => RacingPool!IInv
  BY RacingInit, RacingPool!InitIInv DEF RacingAssumption, AllOps, RacingPool!AllOps
<1>2. RacingPool!IInv /\ [Racing!Next]_(Racing!vars) => RacingPool!IInv'
  BY RacingNext, RacingPool!NextIInv DEF RacingAssumption, AllOps, RacingPool!AllOps
<1>3. RacingPool!IInv => LeaseNamesOwnerWhenRacing
  BY DEF RacingPool!IInv, RacingPool!PairedInv, RacingPool!Paired,
         LeaseNamesOwnerWhenRacing, Racing!LeaseNamesOwner
<1> QED
  BY <1>1, <1>2, <1>3, PTL DEF Racing!Spec

\* Nor does a crawl lose the lease of its profile unless it is robbed: it had
\* the lease run out under it, or somebody wrote or removed the row while the
\* crawl was using the profile.
THEOREM RacingCrawlsHold ==
  ASSUME RacingAssumption PROVE Racing!Spec => []CrawlHoldsLeaseWhenRacing
<1>1. Racing!Init => RacingPool!HoldInv
  BY RacingInit, RacingPool!HoldInit DEF RacingAssumption, AllOps, RacingPool!AllOps
<1>2. RacingPool!HoldInv /\ [Racing!Next]_(Racing!vars) => RacingPool!HoldInv'
  BY RacingNext, RacingPool!HoldStep DEF RacingAssumption, AllOps, RacingPool!AllOps
<1>3. RacingPool!HoldInv => CrawlHoldsLeaseWhenRacing
  BY DEF RacingPool!HoldInv, RacingPool!Held, CrawlHoldsLeaseWhenRacing, Racing!CrawlHoldsLease
<1> QED
  BY <1>1, <1>2, <1>3, PTL DEF Racing!Spec
=============================================================================
