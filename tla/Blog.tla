-------------------------------- MODULE Blog --------------------------------
(***************************************************************************)
(* Blog posts (domains/blog) and the job of main.py that publishes them    *)
(* when their time has come.  An editor's request loads the post, looks    *)
(* for a free slug, finds or creates the tag and commits the columns it    *)
(* has changed; the publisher and other editors commit in between.         *)
(***************************************************************************)
EXTENDS Naturals, FiniteSets

CONSTANTS
  Post,       \* post ids
  Editor,     \* requests of editors under way at a time
  Title,      \* titles, or slugs asked for, by the slug they are turned into
  Tag,        \* names of tags; categories are found or created the same way
  MaxTime,    \* bound on the clock
  MaxEdits,   \* bound on the requests accepted
  None, Unset \* no value, and a field that the request leaves out

VARIABLES post, tags, editor, now, edits,
  forced      \* history variable: posts that an editor published himself, or
              \* dated when they were published already

vars == <<post, tags, editor, now, edits, forced>>

\* "archived" is shown to the public as little as "draft"
Status == {"draft", "scheduled", "published"}
Time == 0..MaxTime
NoPost == [status |-> "none", at |-> None, slug |-> None]
Nothing == [title |-> Unset, status |-> Unset, date |-> Unset, tag |-> None]
Idle == [op |-> "idle", on |-> None, at |-> "idle", data |-> Nothing, inserted |-> FALSE,
         seen |-> NoPost, write |-> NoPost]

Exists(p) == post[p] # NoPost

\* public_visibility_clause
Visible(p) ==
  \/ post[p].status = "published"
  \/ post[p].status = "scheduled" /\ post[p].at # None /\ post[p].at <= now

Init ==
  /\ post \in [Post -> {NoPost} \cup [status : {"scheduled"}, at : Time \cup {None},
                                     slug : {<<t, 1>> : t \in Title}]]
  /\ Cardinality({p \in Post : Exists(p)}) <= 1
  /\ tags = {}
  /\ editor = [e \in Editor |-> Idle]
  /\ now = 0 /\ edits = 0
  /\ forced = {}

Accept(e, req) ==
  /\ editor' = [editor EXCEPT ![e] = req]
  /\ edits' = edits + 1
  /\ UNCHANGED <<post, tags, now, forced>>

Goto(e, at) == editor' = [editor EXCEPT ![e].at = at]

\* An answer, or an error that rolls the session back
Leave(e) == editor' = [editor EXCEPT ![e] = Idle]

\* _normalize_status_and_publish_time
Dated(status, date) == IF status = "published" /\ date = None THEN now ELSE date

\* generate_unique_slug: the first free one of title, title-2, title-3 ...
FreeSlug(title, own) ==
  LET free == {n \in 1..Cardinality(Post) + 1 : \A p \in Post \ own : post[p].slug # <<title, n>>}
  IN <<title, CHOOSE n \in free : \A m \in free : n <= m>>

----------------------------------------------------------------------------
(* The requests.                                                           *)

Data == [title : Title \cup {Unset}, status : Status \cup {Unset},
         date : Time \cup {None, Unset}, tag : Tag \cup {None}]

Accepts(e) == editor[e] = Idle /\ edits < MaxEdits

\* create_post
AskCreate(e) ==
  /\ Accepts(e)
  /\ \E p \in Post, data \in Data :
       /\ ~Exists(p) /\ \A f \in Editor : editor[f].on # p
       /\ Unset \notin {data.title, data.status, data.date}
       /\ Accept(e, [Idle EXCEPT !.op = "create", !.on = p, !.at = "tag", !.data = data])

\* update_post, and get_post_by_id in it
AskUpdate(e) ==
  /\ Accepts(e)
  /\ \E p \in Post, data \in Data :
       /\ Exists(p)
       /\ Accept(e, [Idle EXCEPT !.op = "update", !.on = p, !.at = "slug", !.data = data,
                                 !.seen = post[p], !.write = post[p]])

\* delete_post
AskDelete(e) ==
  /\ Accepts(e)
  /\ \E p \in Post :
       /\ Exists(p)
       /\ Accept(e, [Idle EXCEPT !.op = "delete", !.on = p, !.at = "commit"])

Given(new, old) == IF new = Unset THEN old ELSE new

\* What the request assigns to the post; the date is looked at again only
\* when there is a status
Assigned(req) ==
  LET date == Given(req.data.date, req.seen.at) IN
  [status |-> Given(req.data.status, req.seen.status),
   at |-> IF req.data.status = Unset THEN date ELSE Dated(req.data.status, date),
   slug |-> IF req.data.title = Unset THEN req.seen.slug ELSE FreeSlug(req.data.title, {req.on})]

\* The slug, the status and the date.  A new post has its tags by now.
Assign(e) ==
  /\ editor[e].at = "slug"
  /\ editor' = [editor EXCEPT ![e].write = Assigned(editor[e]),
                              ![e].data = [Nothing EXCEPT !.tag = editor[e].data.tag],
                              ![e].at = IF editor[e].op = "create" THEN "commit" ELSE "tag"]
  /\ UNCHANGED <<post, tags, now, edits, forced>>

AfterTag(e) == IF editor[e].op = "create" THEN "slug" ELSE "commit"

\* get_or_create_tags and get_or_create_category: the SELECT ...
FindTag(e) ==
  /\ editor[e].at = "tag"
  /\ Goto(e, IF editor[e].data.tag \in tags \cup {None} THEN AfterTag(e) ELSE "insert")
  /\ UNCHANGED <<post, tags, now, edits, forced>>

\* ... and the INSERT, which waits for another that is not committed, and
\* fails after it: the name is unique
InsertTag(e) ==
  /\ editor[e].at = "insert"
  /\ \A f \in Editor : ~(editor[f].inserted /\ editor[f].data.tag = editor[e].data.tag)
  /\ IF editor[e].data.tag \in tags THEN Leave(e)
     ELSE editor' = [editor EXCEPT ![e].inserted = TRUE, ![e].at = AfterTag(e)]
  /\ UNCHANGED <<post, tags, now, edits, forced>>

\* An UPDATE carries the columns that differ from what was loaded
Merged(req) ==
  IF req.op = "create" THEN req.write
  ELSE [f \in DOMAIN NoPost |->
          IF req.write[f] # req.seen[f] THEN req.write[f] ELSE post[req.on][f]]

SlugTaken(req) == \E p \in Post \ {req.on} : Exists(p) /\ post[p].slug = Merged(req).slug

\* The commit; it fails when the slug was given away meanwhile, or the post
\* deleted
Commit(e) ==
  LET req == editor[e]
      p == req.on
  IN /\ req.at = "commit"
     /\ Leave(e)
     /\ IF req.op = "delete"
        THEN /\ post' = [post EXCEPT ![p] = NoPost]
             /\ forced' = forced \ {p}
             /\ UNCHANGED tags
        ELSE IF (req.op = "update" /\ ~Exists(p)) \/ SlugTaken(req)
        THEN UNCHANGED <<post, tags, forced>>
        ELSE /\ post' = [post EXCEPT ![p] = Merged(req)]
             /\ tags' = IF req.inserted THEN tags \cup {req.data.tag} ELSE tags
             /\ forced' = IF \/ req.write.status = "published"
                             \/ post[p].status # req.seen.status
                          THEN forced \cup {p} ELSE forced \ {p}
     /\ UNCHANGED <<now, edits>>

----------------------------------------------------------------------------
(* The publisher, once a minute (publish_due_blog_posts_job).              *)

\* Seeded error: every scheduled post is published.
DueAny(p) == post[p].status = "scheduled"

Due(p) == post[p].status = "scheduled" /\ post[p].at # None /\ post[p].at <= now

Publish ==
  /\ \E p \in Post : Due(p)
  /\ post' = [p \in Post |-> IF Due(p) THEN [post[p] EXCEPT !.status = "published"] ELSE post[p]]
  /\ UNCHANGED <<tags, editor, now, edits, forced>>

Tick ==
  /\ now < MaxTime
  /\ now' = now + 1
  /\ UNCHANGED <<post, tags, editor, edits, forced>>

Next ==
  \/ \E e \in Editor :
       \/ AskCreate(e) \/ AskUpdate(e) \/ AskDelete(e)
       \/ Assign(e) \/ FindTag(e) \/ InsertTag(e) \/ Commit(e)
  \/ Publish \/ Tick

Spec == Init /\ [][Next]_vars

----------------------------------------------------------------------------
(* A post is not shown before its date, unless an editor published it, or  *)
(* changed the date of a post that was published, or whose status changed  *)
(* under his hands: the publisher may publish a post between the load and  *)
(* the commit of the request that puts it off.                             *)
NotBeforeItsTime ==
  \A p \in Post : Visible(p) /\ post[p].at # None /\ post[p].at > now => p \in forced
=============================================================================
