------------------------- MODULE ProfilePoolProofs -------------------------
(***************************************************************************)
(* Proofs about ProfilePool for every set of profiles, tasks, requests and *)
(* maintainers, and whatever the timing: the types, LeaseNamesOwner, the   *)
(* exclusion of browser runs in the API process, and the lease of a crawl  *)
(* that nobody robs; and, as long as operators and maintenance write       *)
(* nothing else than statuses, that an operator's block lasts.             *)
(***************************************************************************)
EXTENDS ProfilePool, TLAPS

USE NoTaskAssumption, NoProfileAssumption DEF crawls, maintenance

\* The two lease columns of a row agree.
Paired(r) == r.owner = NoTask <=> r.lease = "none"

PairedInv ==
  /\ \A p \in Profile : Paired(row[p])
  /\ \A a \in Request : request[a] # NoRequest => Paired(request[a].old)
  /\ \A m \in Maintainer, p \in Profile : Paired(seen[m][p])

IInv == TypeOK /\ PairedInv

---------------------------------------------------------------------------
(* The UPDATE at commit                                                    *)

\* A commit writes the three columns one by one.
LEMMA FlushColumns ==
  ASSUME NEW l \in Row, NEW a \in Row, NEW c \in Row
  PROVE  /\ Flush(l, a, c) \in Row
         /\ Flush(l, a, c).status = Written(l.status, a.status, c.status)
         /\ Flush(l, a, c).owner = Written(l.owner, a.owner, c.owner)
         /\ Flush(l, a, c).lease = Written(l.lease, a.lease, c.lease)
<1>1. DOMAIN c = {"status", "owner", "lease"}
  BY DEF Row
<1>2. Flush(l, a, c) =
        [x \in {"status", "owner", "lease"} |-> Written(l[x], a[x], c[x])]
  BY <1>1 DEF Flush
<1>3. Flush(l, a, c) = [status |-> Written(l.status, a.status, c.status),
                        owner  |-> Written(l.owner, a.owner, c.owner),
                        lease  |-> Written(l.lease, a.lease, c.lease)]
  BY <1>2
<1> QED
  BY <1>3 DEF Written, Row

\* The lease columns agree after a commit that leaves them alone or clears both.
LEMMA FlushPaired ==
  ASSUME NEW l \in Row, NEW a \in Row, NEW c \in Row, Paired(l), Paired(c),
         \/ a.owner = l.owner /\ a.lease = l.lease
         \/ a.owner = NoTask /\ a.lease = "none"
  PROVE  Paired(Flush(l, a, c))
BY FlushColumns DEF Paired, Written

\* Every operation leaves the lease columns alone or clears both.
LEMMA AssignedRows ==
  ASSUME NEW op \in AllOps, NEW r \in Row, NEW s \in Assigned(op, r)
  PROVE  /\ s \in Row /\ s.status # "absent"
         /\ \/ s.owner = r.owner /\ s.lease = r.lease
            \/ op \in {"enable", "releaseStale"} /\ s = FreeRow
<1>1. CASE op \in {"enable", "releaseStale"}
  BY <1>1 DEF Assigned, FreeRow, Row
<1>2. CASE op \in {"disable", "requireLogin", "import", "test"}
  <2>1. \E v \in {"available"} \cup Blocking : s = [r EXCEPT !.status = v]
    BY <1>2 DEF Assigned, Blocking
  <2> QED
    BY <2>1 DEF Row, Blocking
<1>3. CASE op \in {"openLogin", "rename", "delete"}
  BY <1>3 DEF Assigned
<1> QED
  BY <1>1, <1>2, <1>3 DEF AllOps

---------------------------------------------------------------------------
(* Crawls                                                                  *)

\* The invariant holds in an empty table.
LEMMA InitIInv == Init => IInv
BY DEF Init, IInv, TypeOK, PairedInv, Row, AbsentRow, NoRequest, Paired

\* Writing one row whose lease columns agree preserves the invariant.
LEMMA RowWritten ==
  ASSUME IInv, NEW p \in Profile, NEW r \in Row, Paired(r),
         row' = [row EXCEPT ![p] = r], UNCHANGED <<request, maintenance>>
  PROVE  row' \in [Profile -> Row] /\ PairedInv'
BY DEF IInv, TypeOK, PairedInv

\* Acquiring a profile, also in vain, preserves the invariant.
LEMMA AcquireIInv ==
  ASSUME IInv, NEW t \in Task, NEW p \in Profile, Acquire(t, p) \/ AcquireLost(t, p)
  PROVE  IInv'
<1>1. LeasedRow(t) \in Row /\ Paired(LeasedRow(t))
  BY DEF LeasedRow, Row, Paired
<1>2. row' \in [Profile -> Row] /\ PairedInv'
  BY <1>1, RowWritten DEF Acquire, AcquireLost
<1>3. CASE Acquire(t, p)
  BY <1>2, <1>3 DEF Acquire, IInv, TypeOK
<1>4. CASE AcquireLost(t, p)
  BY <1>2, <1>4 DEF AcquireLost, IInv, TypeOK
<1> QED
  BY <1>3, <1>4

\* The end of a crawl, with its release or without, preserves the invariant.
LEMMA ReleaseIInv ==
  ASSUME IInv, NEW t \in Task, Release(t) \/ CrawlDies(t)
  PROVE  IInv'
<1>1. row' \in [Profile -> Row] /\ PairedInv'
  <2>1. CASE row' = row
    BY <2>1 DEF Release, CrawlDies, IInv, TypeOK, PairedInv
  <2>2. CASE Release(t) /\ row' = [row EXCEPT ![uses[t]] = Released(row[uses[t]])]
    <3>1. uses[t] \in Profile /\ row[uses[t]] \in Row
      BY <2>2 DEF Release, IInv, TypeOK
    <3>2. Released(row[uses[t]]) \in Row /\ Paired(Released(row[uses[t]]))
      BY <3>1 DEF Released, Row, Blocking, Paired
    <3> QED
      BY <2>2, <3>1, <3>2, RowWritten DEF Release
  <2> QED
    BY <2>1, <2>2 DEF Release, CrawlDies
<1> QED
  BY <1>1 DEF Release, CrawlDies, EndUse, IInv, TypeOK

\* A lease that runs out keeps its owner.
LEMMA ExpiryIInv ==
  ASSUME IInv, NEW p \in Profile, LeaseExpires(p)
  PROVE  IInv'
<1>1. [row[p] EXCEPT !.lease = "expired"] \in Row /\ Paired([row[p] EXCEPT !.lease = "expired"])
  <2>1. row[p] \in Row /\ row[p].lease = "valid" /\ Paired(row[p])
    BY DEF LeaseExpires, IInv, TypeOK, PairedInv
  <2> QED
    BY <2>1 DEF Paired, Row
<1>2. row' = [row EXCEPT ![p] = [row[p] EXCEPT !.lease = "expired"]]
  BY DEF LeaseExpires
<1>3. row' \in [Profile -> Row] /\ PairedInv'
  BY <1>1, <1>2, RowWritten DEF LeaseExpires
<1> QED
  BY <1>3 DEF Rob, Users, LeaseExpires, IInv, TypeOK

---------------------------------------------------------------------------
(* Maintenance                                                             *)

\* Selecting rows or dropping a selection preserves the invariant.
LEMMA SelectionIInv ==
  ASSUME IInv, NEW m \in Maintainer, RecoverLoad(m) \/ RecoverFails(m)
  PROVE  IInv'
<1> DEFINE old(p) == IF row[p].lease = "expired" THEN row[p] ELSE AbsentRow
<1>1. AbsentRow \in Row /\ Paired(AbsentRow)
  BY DEF AbsentRow, Row, Paired
<1>2. CASE RecoverLoad(m)
  <2>1. \A p \in Profile : old(p) \in Row /\ Paired(old(p))
    BY <1>1 DEF IInv, TypeOK, PairedInv
  <2>2. /\ selected' = [selected EXCEPT ![m] = {p \in Profile : row[p].lease = "expired"}]
        /\ seen' = [seen EXCEPT ![m] = [p \in Profile |-> old(p)]]
    BY <1>2 DEF RecoverLoad
  <2>3. TypeOK'
    BY <1>2, <2>1, <2>2 DEF RecoverLoad, IInv, TypeOK
  <2>4. PairedInv'
    BY <1>2, <2>1, <2>2 DEF RecoverLoad, IInv, TypeOK, PairedInv
  <2> QED
    BY <2>3, <2>4 DEF IInv
<1>3. CASE RecoverFails(m)
  BY <1>1, <1>3 DEF RecoverFails, ForgetSelection, IInv, TypeOK, PairedInv
<1> QED
  BY <1>2, <1>3

\* A recovery clears both lease columns or neither, of every row it selected,
\* whatever has become of the row since.
LEMMA RecoverCommitIInv ==
  ASSUME IInv, NEW m \in Maintainer, RecoverCommit(m)
  PROVE  IInv'
<1>1. ASSUME NEW p \in Profile PROVE row'[p] \in Row /\ Paired(row'[p])
  <2>1. seen[m][p] \in Row /\ row[p] \in Row /\ Paired(seen[m][p]) /\ Paired(row[p])
    BY DEF IInv, TypeOK, PairedInv
  <2>2. FreeRow \in Row /\ FreeRow.owner = NoTask /\ FreeRow.lease = "none"
    BY DEF FreeRow, Row
  <2>3. /\ Flush(seen[m][p], FreeRow, row[p]) \in Row
        /\ Paired(Flush(seen[m][p], FreeRow, row[p]))
    BY <2>1, <2>2, FlushColumns, FlushPaired
  <2> QED
    BY <2>1, <2>3 DEF RecoverCommit
<1>2. row' \in [Profile -> Row]
  BY <1>1 DEF RecoverCommit
<1>3. AbsentRow \in Row /\ Paired(AbsentRow)
  BY DEF AbsentRow, Row, Paired
<1>4. TypeOK'
  BY <1>2, <1>3 DEF Rob, Users, RecoverCommit, ForgetSelection, IInv, TypeOK
<1>5. PairedInv'
  BY <1>1, <1>3 DEF RecoverCommit, ForgetSelection, IInv, TypeOK, PairedInv
<1> QED
  BY <1>4, <1>5 DEF IInv

---------------------------------------------------------------------------
(* Operators                                                               *)

\* A request in flight has loaded a row whose lease columns agree.
LEMMA LiveRequests ==
  ASSUME IInv, NEW a \in Request, request[a] # NoRequest
  PROVE  /\ request[a] \in LiveRequest /\ request[a].on \in Profile
         /\ request[a].op \in AllOps /\ request[a].old \in Row
         /\ Paired(request[a].old)
BY DEF IInv, TypeOK, PairedInv, LiveRequest

\* Creating a profile preserves the invariant.
LEMMA CreateIInv ==
  ASSUME IInv, NEW p \in Profile, Create(p)
  PROVE  IInv'
<1>1. FreeRow \in Row /\ Paired(FreeRow)
  BY DEF FreeRow, Row, Paired
<1>2. row' \in [Profile -> Row] /\ PairedInv'
  BY <1>1, RowWritten DEF Create
<1> QED
  BY <1>2 DEF Create, IInv, TypeOK

\* Beginning and ending requests, and login sessions, preserve the invariant.
LEMMA RequestIInv ==
  ASSUME IInv, NEW a \in Request,
         \/ \E op \in Ops, p \in Profile : Begin(a, op, p)
         \/ OpenLogin(a) \/ Abandon(a)
  PROVE  IInv'
<1>1. CASE \E op \in Ops, p \in Profile : Begin(a, op, p)
  <2> PICK op \in Ops, p \in Profile : Begin(a, op, p)
    BY <1>1
  <2> DEFINE new == [op |-> op, on |-> p, old |-> row[p], gone |-> FALSE]
  <2>1. new \in LiveRequest /\ Paired(new.old)
    BY OpsAssumption DEF IInv, TypeOK, PairedInv, LiveRequest
  <2>2. request' = [request EXCEPT ![a] = new]
    BY DEF Begin
  <2> HIDE DEF new
  <2> QED
    BY <2>1, <2>2 DEF Begin, IInv, TypeOK, PairedInv
<1>2. CASE OpenLogin(a)
  <2>1. request[a] # NoRequest
    BY <1>2 DEF OpenLogin, NoRequest
  <2>2. request[a].on \in Profile
    BY <2>1, LiveRequests
  <2> QED
    BY <1>2, <2>2 DEF OpenLogin, End, IInv, TypeOK, PairedInv
<1>3. CASE Abandon(a)
  BY <1>3 DEF Abandon, End, IInv, TypeOK, PairedInv
<1> QED
  BY <1>1, <1>2, <1>3

\* Closing a login session and a restart of the API preserve the invariant.
LEMMA LoginIInv ==
  ASSUME IInv, (\E p \in Profile : CloseLogin(p)) \/ ApiRestart
  PROVE  IInv'
<1>1. CASE \E p \in Profile : CloseLogin(p)
  BY <1>1 DEF CloseLogin, IInv, TypeOK, PairedInv
<1>2. CASE ApiRestart
  BY <1>2 DEF ApiRestart, IInv, TypeOK, PairedInv
<1> QED
  BY <1>1, <1>2

\* The commit of an update preserves the invariant, though the row may have
\* been leased, released or recovered since the request loaded it.
LEMMA UpdateIInv ==
  ASSUME IInv, NEW a \in Request, Update(a)
  PROVE  IInv'
<1> DEFINE p == request[a].on
           old == request[a].old
<1>1. request[a] # NoRequest
  BY DEF Update
<1>2. p \in Profile /\ old \in Row /\ Paired(old) /\ request[a].op \in AllOps
  BY <1>1, LiveRequests
<1>3. row[p] \in Row /\ Paired(row[p])
  BY <1>2 DEF IInv, TypeOK, PairedInv
<1>4. PICK s \in Assigned(request[a].op, old) :
        row' = [row EXCEPT ![p] = Flush(old, s, row[p])]
  BY DEF Update
<1>5. /\ s \in Row
      /\ \/ s.owner = old.owner /\ s.lease = old.lease
         \/ s.owner = NoTask /\ s.lease = "none"
  BY <1>2, <1>4, AssignedRows DEF FreeRow
<1>6. Flush(old, s, row[p]) \in Row /\ Paired(Flush(old, s, row[p]))
  BY <1>2, <1>3, <1>5, FlushColumns, FlushPaired
<1>7. row' \in [Profile -> Row] /\ \A q \in Profile : Paired(row'[q])
  BY <1>2, <1>4, <1>6 DEF IInv, TypeOK, PairedInv
<1> QED
  BY <1>7 DEF Rob, Users, Update, End, IInv, TypeOK, PairedInv

\* Deleting a row voids what others have loaded of it, and nothing else.
LEMMA VanishInv ==
  ASSUME IInv, NEW a \in Request, NEW p \in Profile, Vanish(a, p)
  PROVE  /\ request' \in [Request -> LiveRequest \cup {NoRequest}]
         /\ selected' \in [Maintainer -> SUBSET Profile]
         /\ seen' \in [Maintainer -> [Profile -> Row]]
         /\ \A b \in Request : request'[b] # NoRequest => Paired(request'[b].old)
         /\ \A m \in Maintainer, q \in Profile : Paired(seen'[m][q])
<1>1. AbsentRow \in Row /\ Paired(AbsentRow)
  BY DEF AbsentRow, Row, Paired
<1>2. ASSUME NEW b \in Request
      PROVE  /\ request'[b] \in LiveRequest \cup {NoRequest}
             /\ request'[b] # NoRequest => Paired(request'[b].old)
  <2>1. CASE b = a \/ request[b] = NoRequest \/ request[b].on # p
    BY <2>1 DEF Vanish, IInv, TypeOK, PairedInv
  <2>2. CASE b # a /\ request[b] # NoRequest /\ request[b].on = p
    <3>1. request'[b] = [request[b] EXCEPT !.gone = TRUE]
      BY <2>2 DEF Vanish
    <3>2. request[b] \in LiveRequest /\ Paired(request[b].old)
      BY <2>2 DEF IInv, TypeOK, PairedInv
    <3> QED
      BY <3>1, <3>2 DEF LiveRequest
  <2> QED
    BY <2>1, <2>2
<1>3. request' \in [Request -> LiveRequest \cup {NoRequest}]
  <2>1. request' = [b \in Request |-> request'[b]]
    BY DEF Vanish
  <2> QED
    BY <1>2, <2>1
<1>4. /\ selected' \in [Maintainer -> SUBSET Profile]
      /\ seen' \in [Maintainer -> [Profile -> Row]]
      /\ \A m \in Maintainer, q \in Profile : Paired(seen'[m][q])
  BY <1>1 DEF Vanish, IInv, TypeOK, PairedInv
<1> QED
  BY <1>2, <1>3, <1>4

\* Renaming copies the lease columns of the loaded row together.
LEMMA RenameIInv ==
  ASSUME IInv, NEW a \in Request, NEW q \in Profile, Rename(a, q)
  PROVE  IInv'
<1>1. request[a] # NoRequest
  BY DEF Rename, NoRequest
<1>2. request[a].on \in Profile /\ request[a].old \in Row /\ Paired(request[a].old)
  BY <1>1, LiveRequests
<1>3. AbsentRow \in Row /\ Paired(AbsentRow)
  BY DEF AbsentRow, Row, Paired
<1>4. CASE request[a].gone
  <2>1. row' = [row EXCEPT ![q] = request[a].old] /\ End(a) /\ UNCHANGED maintenance
    BY <1>4 DEF Rename
  <2>2. row' \in [Profile -> Row] /\ \A p \in Profile : Paired(row'[p])
    BY <1>2, <2>1 DEF IInv, TypeOK, PairedInv
  <2> QED
    BY <2>1, <2>2 DEF Rob, Users, Rename, End, IInv, TypeOK, PairedInv
<1>5. CASE ~request[a].gone
  <2>1. /\ row' = [[row EXCEPT ![q] = request[a].old] EXCEPT ![request[a].on] = AbsentRow]
        /\ Vanish(a, request[a].on)
    BY <1>5 DEF Rename
  <2>2. row' \in [Profile -> Row] /\ \A p \in Profile : Paired(row'[p])
    BY <1>2, <1>3, <2>1 DEF IInv, TypeOK, PairedInv
  <2> QED
    BY <1>2, <2>1, <2>2, VanishInv DEF Rob, Users, Rename, IInv, TypeOK, PairedInv
<1> QED
  BY <1>4, <1>5

\* So does deleting.
LEMMA DeleteIInv ==
  ASSUME IInv, NEW a \in Request, Delete(a)
  PROVE  IInv'
<1>1. request[a] # NoRequest
  BY DEF Delete, NoRequest
<1>2. request[a].on \in Profile
  BY <1>1, LiveRequests
<1>3. AbsentRow \in Row /\ Paired(AbsentRow)
  BY DEF AbsentRow, Row, Paired
<1>4. row' \in [Profile -> Row] /\ \A p \in Profile : Paired(row'[p])
  BY <1>2, <1>3 DEF Delete, IInv, TypeOK, PairedInv
<1> QED
  BY <1>2, <1>4, VanishInv DEF Rob, Users, Delete, IInv, TypeOK, PairedInv

---------------------------------------------------------------------------
\* The invariant is inductive.
LEMMA NextIInv == IInv /\ [Next]_vars => IInv'
<1> SUFFICES ASSUME IInv, [Next]_vars PROVE IInv'
  OBVIOUS
<1>1. CASE \E t \in Task : Crawl(t)
  BY <1>1, AcquireIInv, ReleaseIInv DEF Crawl
<1>2. CASE \E a \in Request : Operate(a)
  BY <1>2, RequestIInv, UpdateIInv, RenameIInv, DeleteIInv DEF Operate
<1>3. CASE \E p \in Profile : LeaseExpires(p) \/ Create(p) \/ CloseLogin(p)
  BY <1>3, ExpiryIInv, CreateIInv, LoginIInv
<1>4. CASE \E m \in Maintainer : RecoverLoad(m) \/ RecoverCommit(m) \/ RecoverFails(m)
  BY <1>4, SelectionIInv, RecoverCommitIInv
<1>5. CASE ApiRestart
  BY <1>5, LoginIInv
<1>6. CASE UNCHANGED vars
  BY <1>6 DEF vars, IInv, TypeOK, PairedInv
<1> QED
  BY <1>1, <1>2, <1>3, <1>4, <1>5, <1>6 DEF Next

\* The inductive invariant holds in every reachable state.
THEOREM Inductive == Spec => []IInv
<1> QED
  BY InitIInv, NextIInv, PTL DEF Spec

\* Every variable keeps its type; no operation stores a status of its own making.
THEOREM TypeCorrect == Spec => []TypeOK
<1>1. IInv => TypeOK
  BY DEF IInv
<1> QED
  BY <1>1, Inductive, PTL

\* lease_owner is set exactly when lease_until is, however acquire, release,
\* recovery, rename and the unlocked updates interleave.
THEOREM LeaseColumnsAgree == Spec => []LeaseNamesOwner
<1>1. IInv => LeaseNamesOwner
  BY DEF IInv, PairedInv, Paired, LeaseNamesOwner
<1> QED
  BY <1>1, Inductive, PTL

---------------------------------------------------------------------------
(* Browser runs of the API process                                         *)

\* No request turns into a browser run, or moves to another profile, except
\* when it begins; no login session is opened but by such a run.
LEMMA RuntimeFrame ==
  ASSUME IInv, RuntimeExclusive, login' \subseteq login,
         \A b \in Request : request'[b].op \in Runtime =>
           request[b].op \in Runtime /\ request'[b].on = request[b].on
  PROVE  RuntimeExclusive'
BY DEF RuntimeExclusive

\* The beginning of a request: the lock of the profile is free, and nobody is
\* logged in, if it is to run a browser.
LEMMA RuntimeBegin ==
  ASSUME IInv, RuntimeExclusive, NEW a \in Request, NEW op \in Ops, NEW p \in Profile,
         Begin(a, op, p)
  PROVE  RuntimeExclusive'
<1> DEFINE new == [op |-> op, on |-> p, old |-> row[p], gone |-> FALSE]
<1>1. request' = [request EXCEPT ![a] = new] /\ UNCHANGED login
  BY DEF Begin
<1>2. new.op = op /\ new.on = p
  OBVIOUS
<1>3. op \in Runtime => p \notin login /\ \A b \in Request : request[b].op \in Runtime => request[b].on # p
  BY DEF Begin, Unlocked, Runtime, RefusedIfLoggedIn
<1> HIDE DEF new
<1>4. request \in [Request -> LiveRequest \cup {NoRequest}]
  BY DEF IInv, TypeOK
<1> QED
  BY <1>1, <1>2, <1>3, <1>4 DEF RuntimeExclusive

\* The login browser comes up: the session takes over from the request.
LEMMA RuntimeLogin ==
  ASSUME IInv, RuntimeExclusive, NEW a \in Request, OpenLogin(a)
  PROVE  RuntimeExclusive'
<1>1. /\ request' = [request EXCEPT ![a] = NoRequest]
      /\ login' = login \cup {request[a].on}
      /\ request[a].op \in Runtime
  BY DEF OpenLogin, End, Runtime
<1>2. NoRequest.op \notin Runtime
  BY DEF NoRequest, Runtime
<1>3. request \in [Request -> LiveRequest \cup {NoRequest}]
  BY DEF IInv, TypeOK
<1> QED
  BY <1>1, <1>2, <1>3 DEF RuntimeExclusive

\* Every step keeps them apart.
LEMMA RuntimeStep ==
  ASSUME IInv, RuntimeExclusive, [Next]_vars
  PROVE  RuntimeExclusive'
<1>1. NoRequest.op \notin Runtime
  BY DEF NoRequest, Runtime
<1>2. ASSUME NEW a \in Request, Update(a) \/ Abandon(a) PROVE RuntimeExclusive'
  BY <1>1, <1>2, RuntimeFrame DEF Update, Abandon, End, IInv, TypeOK
<1>3. ASSUME NEW a \in Request, NEW p \in Profile, Vanish(a, p), UNCHANGED login
      PROVE  RuntimeExclusive'
  <2>1. ASSUME NEW b \in Request, request'[b].op \in Runtime
        PROVE  request[b].op \in Runtime /\ request'[b].on = request[b].on
    <3>1. CASE request'[b] = NoRequest \/ request'[b] = request[b]
      BY <1>1, <2>1, <3>1
    <3>2. CASE request[b] # NoRequest /\ request'[b] = [request[b] EXCEPT !.gone = TRUE]
      BY <2>1, <3>2, LiveRequests DEF LiveRequest
    <3> QED
      BY <1>3, <3>1, <3>2 DEF Vanish
  <2> QED
    BY <1>3, <2>1, RuntimeFrame
<1>4. ASSUME NEW a \in Request, (\E q \in Profile : Rename(a, q)) \/ Delete(a)
      PROVE  RuntimeExclusive'
  <2>1. request[a].on \in Profile
    BY <1>4, LiveRequests DEF Rename, Delete, NoRequest
  <2>2. End(a) \/ Vanish(a, request[a].on)
    BY <1>4 DEF Rename, Delete
  <2>3. UNCHANGED login
    BY <1>4 DEF Rename, Delete
  <2>4. CASE End(a)
    BY <1>1, <2>3, <2>4, RuntimeFrame DEF End, IInv, TypeOK
  <2> QED
    BY <1>3, <2>1, <2>2, <2>3, <2>4
<1>5. ASSUME NEW a \in Request, Operate(a) PROVE RuntimeExclusive'
  BY <1>2, <1>4, <1>5, RuntimeBegin, RuntimeLogin DEF Operate
<1>6. CASE ApiRestart \/ \E p \in Profile : CloseLogin(p)
  BY <1>1, <1>6, RuntimeFrame DEF ApiRestart, CloseLogin
<1>7. CASE UNCHANGED <<request, login>>
  BY <1>7, RuntimeFrame
<1> QED
  BY <1>5, <1>6, <1>7 DEF Next, Crawl, Acquire, AcquireLost, Release, CrawlDies, LeaseExpires,
     Create, RecoverLoad, RecoverCommit, RecoverFails, vars

\* The tests, imports and logins of one profile exclude each other and an open
\* login session, whatever else goes on.
THEOREM BrowserRunsExclude == Spec => []RuntimeExclusive
<1>1. Init => RuntimeExclusive
  BY DEF Init, RuntimeExclusive, NoRequest, Runtime
<1>2. IInv /\ RuntimeExclusive /\ [Next]_vars => RuntimeExclusive'
  BY RuntimeStep
<1> QED
  BY <1>1, <1>2, Inductive, PTL DEF Spec

---------------------------------------------------------------------------
(* Who holds the lease                                                     *)

\* A profile in use is there, so that it is not created a second time.
Held(t) == t \notin robbed /\ uses[t] # NoProfile =>
  /\ row[uses[t]].status # "absent"
  /\ row[uses[t]].owner = t /\ row[uses[t]].lease = "valid"

HoldInv == IInv /\ \A t \in Task : Held(t)

\* A crawl that begins finds a profile that nobody holds, and one that ends
\* gives up nothing but its own lease.
LEMMA CrawlHeld ==
  ASSUME HoldInv, NEW u \in Task, Crawl(u), NEW t \in Task
  PROVE  Held(t)'
<1> USE DEF HoldInv, IInv, TypeOK
<1>1. ASSUME NEW p \in Profile, Acquire(u, p) \/ AcquireLost(u, p)
      PROVE  Held(t)'
  <2>1. CASE uses'[t] = uses[t]
    BY <1>1, <2>1 DEF Acquire, AcquireLost, Leasable, Held
  <2>2. CASE uses'[t] # uses[t]
    BY <1>1, <2>2 DEF Acquire, AcquireLost, LeasedRow, Held
  <2> QED
    BY <2>1, <2>2
<1>2. ASSUME Release(u) \/ CrawlDies(u)
      PROVE  Held(t)'
  BY <1>2 DEF Release, CrawlDies, EndUse, Held
<1> QED
  BY <1>1, <1>2 DEF Crawl

\* The commit of an operation clears lease columns only if it has loaded some.
LEMMA UpdateHeld ==
  ASSUME HoldInv, NEW a \in Request, Update(a), NEW t \in Task
  PROVE  Held(t)'
<1> USE DEF HoldInv, IInv, TypeOK
<1> DEFINE p == request[a].on
           old == request[a].old
<1>1. request[a] # NoRequest
  BY DEF Update
<1>2. p \in Profile /\ old \in Row /\ request[a].op \in AllOps /\ Paired(old)
  BY <1>1, LiveRequests
<1>3. PICK s \in Assigned(request[a].op, old) :
        row' = [row EXCEPT ![p] = Flush(old, s, row[p])]
  BY DEF Update
<1>4. uses' = uses /\ robbed \subseteq robbed'
  BY DEF Update, Rob
<1>5. CASE uses[t] # p
  BY <1>2, <1>3, <1>4, <1>5 DEF Held
<1>6. CASE uses[t] = p /\ Frees(a)
  <2>1. t \in robbed'
    BY <1>6 DEF Update, Rob, Users
  <2> QED
    BY <2>1 DEF Held
<1>7. CASE uses[t] = p /\ ~Frees(a)
  <2>1. s \in Row /\ s.status # "absent" /\ s.owner = old.owner /\ s.lease = old.lease
    BY <1>2, <1>3, <1>7, AssignedRows DEF Frees, FreeRow, Paired
  <2>2. LET r == Flush(old, s, row[p]) IN
          /\ row[p].status # "absent" => r.status # "absent"
          /\ r.owner = row[p].owner /\ r.lease = row[p].lease
    BY <1>2, <2>1, FlushColumns DEF Written
  <2> QED
    BY <1>2, <1>3, <1>4, <1>7, <2>2 DEF Held
<1> QED
  BY <1>5, <1>6, <1>7

\* Who uses a row that is removed is robbed; a name that is taken over was no
\* row's before.
LEMMA RemovalHeld ==
  ASSUME HoldInv, NEW a \in Request, Delete(a) \/ \E q \in Profile : Rename(a, q), NEW t \in Task
  PROVE  Held(t)'
<1> USE DEF HoldInv, IInv, TypeOK
<1> DEFINE p == request[a].on
<1>1. p \in Profile /\ uses' = uses /\ robbed \subseteq robbed'
  <2>1. request[a] # NoRequest
    BY DEF Delete, Rename, NoRequest
  <2> QED
    BY <2>1, LiveRequests DEF Delete, Rename, Rob, crawls
<1>2. CASE Delete(a)
  BY <1>1, <1>2 DEF Delete, Rob, Users, Held
<1>3. ASSUME NEW q \in Profile, Rename(a, q)
      PROVE  Held(t)'
  <2>1. Held(t) /\ row[q].status = "absent"
    BY <1>3 DEF Rename
  <2>2. t \notin robbed => uses[t] # q
    BY <2>1 DEF Held
  <2>3. CASE request[a].gone
    BY <1>1, <1>3, <2>1, <2>2, <2>3 DEF Rename, Held
  <2>4. CASE ~request[a].gone
    <3>1. /\ row' = [[row EXCEPT ![q] = request[a].old] EXCEPT ![p] = AbsentRow]
          /\ robbed' = robbed \cup Users(p)
      BY <1>3, <2>4 DEF Rename, Rob
    <3>2. CASE uses[t] = p
      BY <3>1, <3>2 DEF Users, Held
    <3>3. CASE uses[t] # p
      BY <1>1, <2>1, <2>2, <3>1, <3>3 DEF Held
    <3> QED
      BY <3>2, <3>3
  <2> QED
    BY <2>3, <2>4
<1> QED
  BY <1>2, <1>3

\* A recovery robs the users of the rows it has selected, whoever they are now.
LEMMA RecoverHeld ==
  ASSUME HoldInv, NEW m \in Maintainer, RecoverCommit(m), NEW t \in Task
  PROVE  Held(t)'
<1> USE DEF HoldInv, IInv, TypeOK
<1>1. uses' = uses /\ robbed' = robbed \cup UNION {Users(p) : p \in selected[m]}
  BY DEF RecoverCommit, Rob
<1>2. row' = [p \in Profile |->
                IF p \in selected[m] THEN Flush(seen[m][p], FreeRow, row[p]) ELSE row[p]]
  BY DEF RecoverCommit
<1>3. CASE uses[t] \in selected[m]
  <2>1. t \in Users(uses[t])
    BY DEF Users
  <2>2. t \in robbed'
    BY <1>1, <1>3, <2>1
  <2> QED
    BY <2>2 DEF Held
<1>4. CASE uses[t] \notin selected[m]
  <2>1. uses[t] # NoProfile => row'[uses[t]] = row[uses[t]]
    BY <1>2, <1>4
  <2> QED
    BY <1>1, <2>1 DEF Held
<1> QED
  BY <1>3, <1>4

\* No step takes a crawl's lease away without robbing it.
LEMMA HoldStep ==
  ASSUME HoldInv, [Next]_vars
  PROVE  HoldInv'
<1>1. IInv'
  BY NextIInv DEF HoldInv
<1>2. ASSUME NEW t \in Task PROVE Held(t)'
  <2> USE DEF HoldInv, IInv, TypeOK
  <2>1. CASE \E u \in Task : Crawl(u)
    BY <2>1, CrawlHeld
  <2>2. ASSUME NEW a \in Request, Operate(a)
        PROVE  Held(t)'
    <3>1. CASE \E op \in Ops, p \in Profile : Begin(a, op, p)
      BY <3>1 DEF Begin, Held
    <3>2. CASE OpenLogin(a) \/ Abandon(a)
      BY <3>2 DEF OpenLogin, Abandon, Held
    <3> QED
      BY <2>2, <3>1, <3>2, UpdateHeld, RemovalHeld DEF Operate
  <2>3. ASSUME NEW p \in Profile, LeaseExpires(p) \/ Create(p) \/ CloseLogin(p)
        PROVE  Held(t)'
    <3>1. CASE Create(p)
      <4>1. t \notin robbed /\ uses[t] # NoProfile => uses[t] # p
        BY <3>1 DEF Create, Held
      <4> QED
        BY <3>1, <4>1 DEF Create, Held
    <3>2. CASE LeaseExpires(p)
      <4>1. CASE uses[t] = p /\ row[p].owner = t
        BY <3>2, <4>1 DEF LeaseExpires, Rob, Users, Held
      <4>2. CASE uses[t] = p /\ row[p].owner # t
        BY <3>2, <4>2 DEF LeaseExpires, Rob, Held
      <4>3. CASE uses[t] # p
        BY <3>2, <4>3 DEF LeaseExpires, Rob, Held
      <4> QED
        BY <4>1, <4>2, <4>3
    <3>3. CASE CloseLogin(p)
      BY <3>3 DEF CloseLogin, Held
    <3> QED
      BY <2>3, <3>1, <3>2, <3>3
  <2>4. ASSUME NEW m \in Maintainer, RecoverLoad(m) \/ RecoverCommit(m) \/ RecoverFails(m)
        PROVE  Held(t)'
    <3>1. CASE RecoverLoad(m) \/ RecoverFails(m)
      BY <3>1 DEF RecoverLoad, RecoverFails, Held
    <3> QED
      BY <2>4, <3>1, RecoverHeld
  <2>5. CASE ApiRestart \/ UNCHANGED vars
    BY <2>5 DEF ApiRestart, vars, Held
  <2> QED
    BY <2>1, <2>2, <2>3, <2>4, <2>5 DEF Next
<1> QED
  BY <1>1, <1>2 DEF HoldInv

\* There is no crawl in the beginning.
LEMMA HoldInit == Init => HoldInv
BY InitIInv DEF Init, HoldInv, Held

\* A crawl keeps the lease of its profile until it ends, unless it is robbed,
\* however long crawls take, whoever dies, and whatever recoveries and operators
\* commit over rows that they have loaded earlier.
THEOREM CrawlsHoldLeases == Spec => []CrawlHoldsLease
<1>1. HoldInv /\ [Next]_vars => HoldInv'
  BY HoldStep
<1>2. HoldInv => CrawlHoldsLease
  BY DEF HoldInv, Held, CrawlHoldsLease
<1> QED
  BY <1>1, <1>2, HoldInit, PTL DEF Spec

\* So of the crawls that share a profile directory, all but one are robbed.
THEOREM SharedOnlyByRobbery ==
  Spec => [](\A t, u \in Task \ robbed : uses[t] # NoProfile /\ uses[t] = uses[u] => t = u)
<1>1. CrawlHoldsLease =>
        \A t, u \in Task \ robbed : uses[t] # NoProfile /\ uses[t] = uses[u] => t = u
  BY DEF CrawlHoldsLease
<1> QED
  BY <1>1, CrawlsHoldLeases, PTL

---------------------------------------------------------------------------
(* A block lasts, as long as operators use only the operations that write  *)
(* nothing but the status; see the runs for what recovery can do.          *)

StatusOps == {"disable", "requireLogin", "import", "test", "openLogin"}

\* Only such operations are in flight.
HarmlessOps == \A a \in Request : request[a] # NoRequest => request[a].op \in StatusOps

\* None of them turns into another.
LEMMA HarmlessStep ==
  ASSUME Ops \subseteq StatusOps, IInv, HarmlessOps, [Next]_vars
  PROVE  HarmlessOps'
<1> USE DEF HarmlessOps
<1>1. ASSUME NEW a \in Request, NEW op \in Ops, NEW p \in Profile, Begin(a, op, p)
      PROVE  HarmlessOps'
  BY <1>1 DEF Begin, IInv, TypeOK
<1>2. ASSUME NEW a \in Request, Update(a) \/ OpenLogin(a) \/ Abandon(a)
      PROVE  HarmlessOps'
  BY <1>2 DEF Update, OpenLogin, Abandon, End, IInv, TypeOK
<1>3. ASSUME NEW a \in Request, Delete(a) \/ \E q \in Profile : Rename(a, q)
      PROVE  FALSE
  BY <1>3 DEF Delete, Rename, NoRequest, StatusOps
<1>4. CASE UNCHANGED request \/ ApiRestart
  BY <1>4 DEF ApiRestart
<1> QED
  BY <1>1, <1>2, <1>3, <1>4 DEF Next, Operate, Crawl, Acquire, AcquireLost, Release,
     CrawlDies, LeaseExpires, Create, CloseLogin, RecoverLoad, RecoverCommit, RecoverFails, vars

\* The commit of a request unblocks a row only if it is an import or a test.
LEMMA UpdateUnblocks ==
  ASSUME IInv, HarmlessOps, NEW a \in Request, Update(a), NEW p \in Profile,
         row[p].status \in Blocking, row'[p].status \notin Blocking
  PROVE  request[a].op \in {"import", "test"} /\ request'[a] = NoRequest
<1> DEFINE q == request[a].on
           old == request[a].old
<1>1. request[a] # NoRequest /\ request[a].op \in StatusOps
  BY DEF Update, HarmlessOps
<1>2. q \in Profile /\ old \in Row /\ request[a].op \in AllOps
  BY <1>1, LiveRequests
<1>3. PICK s \in Assigned(request[a].op, old) :
        row' = [row EXCEPT ![q] = Flush(old, s, row[q])]
  BY DEF Update
<1>4. s \in Row
  BY <1>2, <1>3, AssignedRows
<1>5. row \in [Profile -> Row] /\ request \in [Request -> LiveRequest \cup {NoRequest}]
  BY DEF IInv, TypeOK
<1>6. p = q /\ row'[p].status = Written(old.status, s.status, row[p].status)
  BY <1>2, <1>3, <1>4, <1>5, FlushColumns
<1>7. s.status \notin Blocking
  BY <1>6 DEF Written
<1>8. request[a].op \notin {"disable", "requireLogin"}
  BY <1>2, <1>3, <1>7 DEF Assigned, Blocking, Row
<1>9. request[a].op # "openLogin"
  BY <1>3 DEF Assigned
<1>10. request'[a] = NoRequest
  BY <1>5 DEF Update, End
<1> QED
  BY <1>1, <1>8, <1>9, <1>10 DEF StatusOps

\* Without recovery and the operations that reset the status, a profile that an
\* operator or a test has blocked is unblocked only by an import or a test: no
\* release of a crawl that was still using it does so, however late it comes.
THEOREM BlocksLast ==
  ASSUME Maintainer = {}, Ops \subseteq StatusOps
  PROVE  Spec => OnlyOperatorsUnblock
<1> DEFINE Unblocked(p) == row[p].status \in Blocking /\ row'[p].status \notin Blocking
           ByOperator == \E a \in Request :
                           request[a].op \in {"import", "test"} /\ request'[a] = NoRequest
<1>1. ASSUME IInv, HarmlessOps, [Next]_vars, NEW p \in Profile, Unblocked(p)
      PROVE  ByOperator
  <2>1. row \in [Profile -> Row] /\ row[p].status \in Blocking
    BY <1>1 DEF IInv, TypeOK
  <2>2. ASSUME NEW t \in Task, Crawl(t) PROVE FALSE
    <3>1. ~\E q \in Profile : Acquire(t, q) \/ AcquireLost(t, q)
      BY <1>1, <2>1 DEF Acquire, AcquireLost, Leasable
    <3>2. ~Release(t)
      BY <1>1, <2>1 DEF Release, Released
    <3>3. ~CrawlDies(t)
      BY <1>1 DEF CrawlDies
    <3> QED
      BY <2>2, <3>1, <3>2, <3>3 DEF Crawl
  <2>3. ASSUME NEW q \in Profile, LeaseExpires(q) \/ Create(q) \/ CloseLogin(q)
        PROVE  FALSE
    <3>1. ~LeaseExpires(q)
      BY <1>1, <2>1 DEF LeaseExpires, Row
    <3>2. ~Create(q)
      BY <1>1, <2>1 DEF Create, Blocking
    <3> QED
      BY <1>1, <2>3, <3>1, <3>2 DEF CloseLogin
  <2>4. ASSUME NEW a \in Request, Operate(a) PROVE ByOperator
    <3>1. ~Delete(a) /\ ~\E q \in Profile : Rename(a, q)
      BY <1>1 DEF Delete, Rename, HarmlessOps, NoRequest, StatusOps
    <3>2. ~(OpenLogin(a) \/ Abandon(a) \/ \E op \in Ops, q \in Profile : Begin(a, op, q))
      BY <1>1 DEF OpenLogin, Abandon, Begin
    <3> QED
      BY <1>1, <2>4, <3>1, <3>2, UpdateUnblocks DEF Operate
  <2>5. ~ApiRestart /\ ~UNCHANGED vars
    BY <1>1 DEF ApiRestart, vars
  <2> QED
    BY <1>1, <2>2, <2>3, <2>4, <2>5 DEF Next
<1>2. Init => HarmlessOps
  BY DEF Init, HarmlessOps
<1>3. IInv /\ HarmlessOps /\ [Next]_vars => HarmlessOps'
  BY HarmlessStep
<1>4. IInv /\ HarmlessOps /\ [Next]_vars => (\A p \in Profile : Unblocked(p) => ByOperator)
  BY <1>1
<1>5. Spec => [](IInv /\ HarmlessOps)
  BY <1>2, <1>3, Inductive, PTL DEF Spec
<1> QED
  BY <1>4, <1>5, PTL DEF OnlyOperatorsUnblock, Spec
=============================================================================
