------------------------- MODULE UserSessionsProofs -------------------------
(***************************************************************************)
(* Proofs about UserSessions, for any number of requests in flight and of  *)
(* sessions and tokens: an account has at most one session, a refresh      *)
(* token is exchanged once, and no deadlock is possible without a password *)
(* change.                                                                 *)
(***************************************************************************)
EXTENDS UserSessions, TLAPS

USE NoRequestAssumption, BoundsAssumption DEF rows, locks, Sid, Token

---------------------------------------------------------------------------
(* The parts of a step                                                     *)

\* An answered request is free, the others are as before, and only its own
\* locks have gone.
LEMMA Answered ==
  ASSUME TypeOK, NEW r \in Request, Answer(r)
  PROVE  /\ req' \in [Request -> LiveRequest \cup {Free}]
         /\ req'[r] = Free
         /\ \A q \in Request : q # r => req'[q] = req[q]
         /\ userLock' \in Request \cup {NoRequest}
         /\ \A q \in Request : q # r => (userLock' = q <=> userLock = q)
         /\ rowLock' \in [Sid -> Request \cup {NoRequest}]
         /\ \A q \in Request, s \in Sid : q # r => (rowLock'[s] = q <=> rowLock[s] = q)
BY DEF Answer, Release, TypeOK

\* A request that proceeds changes its stage.
LEMMA Proceeded ==
  ASSUME TypeOK, NEW r \in Request, req[r] # Free, NEW at \in Stages, Proceed(r, at)
  PROVE  /\ req' \in [Request -> LiveRequest \cup {Free}]
         /\ req'[r] \in LiveRequest /\ req'[r] # Free
         /\ req'[r].at = at
         /\ req'[r].op = req[r].op /\ req'[r].sid = req[r].sid
         /\ req'[r].tok = req[r].tok /\ req'[r].todo = req[r].todo
         /\ \A q \in Request : q # r => req'[q] = req[q]
<1>1. req[r] \in LiveRequest
  BY DEF TypeOK
<1>2. [req[r] EXCEPT !.at = at] \in LiveRequest
  BY <1>1 DEF LiveRequest
<1>3. Free \notin LiveRequest
  BY DEF Free, LiveRequest, Ops, Authenticated, Admin
<1> QED
  BY <1>1, <1>2, <1>3 DEF Proceed, TypeOK, LiveRequest

\* A row whose age changes keeps its hash, and no row comes or goes.
LEMMA Aged ==
  ASSUME TypeOK, NEW s \in live, NEW a \in {"active", "idle", "over"},
         row' = [row EXCEPT ![s].age = a]
  PROVE  /\ row' \in [Sid -> Row \cup {NoRow}]
         /\ live' = live
         /\ \A q \in Sid : row'[q].hash = row[q].hash
<1>1. row[s] \in Row /\ s \in Sid
  BY DEF live, TypeOK
<1>2. [row[s] EXCEPT !.age = a] \in Row /\ [row[s] EXCEPT !.age = a].hash = row[s].hash
  BY <1>1 DEF Row
<1>3. NoRow \notin Row
  BY DEF Row, NoRow
<1> QED
  BY <1>1, <1>2, <1>3 DEF live, TypeOK

---------------------------------------------------------------------------
(* The invariant                                                           *)

\* The steps at which r holds the row lock of the session it was given.
HasSession(r) ==
  \/ req[r].op = "refresh" /\ req[r].at \in {"owner", "rotate"}
  \/ req[r].op = "password" /\ req[r].at \in {"user", "rows", "delete"}

\* Which stages an operation passes, and what its locks protect: a login holds
\* the user row while it deletes, so that every session still there is one that
\* its DELETE has locked or will reach; a rotation holds its session row, so that
\* the row still has the hash of the token presented.
Good(r) ==
  req[r] # Free =>
    /\ req[r].op = "login" => req[r].at \in {"user", "rows", "delete"}
    /\ req[r].op = "refresh" => req[r].at \in {"lookup", "owner", "rotate"}
    /\ req[r].at \in {"check", "touch"} => req[r].op \in Authenticated
    /\ req[r].at = "lookup" => req[r].op \in {"refresh", "password", "revokeOne"}
    /\ req[r].at \in {"owner", "rotate"} => req[r].op = "refresh"
    /\ req[r].op = "login" /\ req[r].at \in {"rows", "delete"} => userLock = r
    /\ req[r].op = "login" /\ req[r].at = "delete" =>
         \A s \in live : s \in req[r].todo \/ rowLock[s] = r
    /\ HasSession(r) => /\ req[r].sid \in live
                        /\ rowLock[req[r].sid] = r
                        /\ row[req[r].sid].hash = req[r].tok

IInv == TypeOK /\ LastLoginWins /\ \A r \in Request : Good(r)

\* What a step of r must leave alone for the others to be Good: their locks and
\* the rows that they hold.
LEMMA OthersStayGood ==
  ASSUME IInv, NEW r \in Request,
         \A q \in Request : q # r => req'[q] = req[q],
         live' \subseteq live,
         \A s \in live : rowLock[s] \notin {r, NoRequest} =>
                           s \in live' /\ row'[s].hash = row[s].hash,
         \A q \in Request : q # r /\ userLock = q => userLock' = q,
         \A q \in Request, s \in Sid : q # r /\ rowLock[s] = q => rowLock'[s] = q
  PROVE  \A q \in Request : q # r => Good(q)'
<1> SUFFICES ASSUME NEW q \in Request, q # r, req[q] # Free, Good(q)
             PROVE  Good(q)'
  BY DEF IInv, Good
<1>1. req'[q] = req[q]
  OBVIOUS
<1>2. HasSession(q)' = HasSession(q)
  BY <1>1 DEF HasSession
<1>3. live \subseteq Sid
  BY DEF live
<1> QED
  BY <1>1, <1>2, <1>3 DEF Good

\* An answer leaves the others alone.
LEMMA AnswerKeepsOthers ==
  ASSUME IInv, NEW r \in Request, Answer(r), UNCHANGED row
  PROVE  \A q \in Request : Good(q)'
<1>1. live' = live
  BY DEF live
<1>2. \A q \in Request : q # r => Good(q)'
  BY <1>1, Answered, OthersStayGood DEF IInv
<1>3. Good(r)'
  BY Answered DEF Good, IInv
<1> QED
  BY <1>2, <1>3

---------------------------------------------------------------------------
(* Steps that only read or lock                                            *)

\* A step that changes no row preserves the invariant if it leaves the others
\* their locks and keeps its own promise.
LEMMA RowsUnchanged ==
  ASSUME IInv, NEW r \in Request, TypeOK', Good(r)', UNCHANGED rows,
         \A q \in Request : q # r => req'[q] = req[q],
         \A q \in Request : q # r /\ userLock = q => userLock' = q,
         \A q \in Request, s \in Sid : q # r /\ rowLock[s] = q => rowLock'[s] = q
  PROVE  IInv'
<1>1. live' = live
  BY DEF live
<1>2. \A q \in Request : q # r => Good(q)'
  BY <1>1, OthersStayGood
<1> QED
  BY <1>1, <1>2 DEF IInv, LastLoginWins

\* A request that is answered and changes no row preserves the invariant.
LEMMA AnswerIInv ==
  ASSUME IInv, NEW r \in Request, Answer(r), UNCHANGED <<rows, account>>
  PROVE  IInv'
<1>1. live' = live
  BY DEF live
<1>2. \A q \in Request : Good(q)'
  BY AnswerKeepsOthers
<1>3. TypeOK'
  BY Answered DEF IInv, TypeOK
<1> QED
  BY <1>1, <1>2, <1>3 DEF IInv, LastLoginWins

\* A request that arrives holds nothing yet.
LEMMA ArriveIInv ==
  ASSUME IInv, NEW r \in Request, Arrive(r)
  PROVE  IInv'
<1>1. PICK op \in Ops, s \in Given, t \in 0..tokens, a \in Given :
        req' = [req EXCEPT ![r] = Arriving(op, s, t, a)]
  BY DEF Arrive
<1> DEFINE new == Arriving(op, s, t, a)
<1>2. /\ new \in LiveRequest /\ new.op = op /\ new.at = Entry(op)
  <2>1. s \in Sid \cup {0} /\ a \in Sid \cup {0} /\ t \in Token \cup {0}
    BY DEF Given, IInv, TypeOK
  <2>2. Entry(op) \in Stages
    BY DEF Entry, Stages
  <2> QED
    BY <2>1, <2>2 DEF Arriving, LiveRequest
<1>3. TypeOK'
  BY <1>1, <1>2 DEF Arrive, IInv, TypeOK
<1>4. Good(r)'
  <2>1. req'[r] = new
    BY <1>1 DEF IInv, TypeOK
  <2> HIDE DEF new
  <2>2. new.op = "login" => new.at = "user"
    BY <1>2 DEF Entry, Authenticated, Admin
  <2>3. new.op = "refresh" => new.at = "lookup"
    BY <1>2 DEF Entry, Authenticated
  <2>4. new.op = "password" => new.at = "check"
    BY <1>2 DEF Entry, Authenticated
  <2>5. new.at \notin {"owner", "rotate"}
    BY <1>2 DEF Entry
  <2>6. /\ new.at = "check" => new.op \in Authenticated
        /\ new.at # "touch"
        /\ new.at = "lookup" => new.op = "refresh"
    BY <1>2 DEF Entry, Ops, Authenticated, Admin
  <2> QED
    BY <2>1, <2>2, <2>3, <2>4, <2>5, <2>6 DEF Good, HasSession
<1>5. \A q \in Request : q # r => req'[q] = req[q]
  BY <1>1 DEF IInv, TypeOK
<1> QED
  BY <1>3, <1>4, <1>5, RowsUnchanged DEF Arrive

\* Moving to a stage at which r need not hold more than before.
LEMMA ProceedIInv ==
  ASSUME IInv, NEW r \in Request, req[r] # Free, NEW at \in Stages, Proceed(r, at),
         UNCHANGED <<rows, account, locks>>,
         \/ at = "touch" /\ req[r].op \in Authenticated
         \/ at = "lookup" /\ req[r].op \in {"password", "revokeOne"}
         \/ at = "rows" /\ req[r].op \in Authenticated \ {"password"}
         \/ at = "rotate" /\ req[r].at = "owner"
  PROVE  IInv'
<1>1. TypeOK'
  BY Proceeded DEF IInv, TypeOK
<1>2. Good(r)'
  <2>1. Good(r) /\ live' = live
    BY DEF IInv, live
  <2>2. /\ req'[r].at = at /\ req'[r].op = req[r].op
        /\ req'[r].sid = req[r].sid /\ req'[r].tok = req[r].tok
    BY Proceeded DEF IInv
  <2> QED
    BY <2>1, <2>2 DEF Good, HasSession, Authenticated
<1>3. \A q \in Request : q # r => req'[q] = req[q]
  BY Proceeded DEF IInv
<1> QED
  BY <1>1, <1>2, <1>3, RowsUnchanged

\* get_current_user's SELECT.
LEMMA CheckIInv ==
  ASSUME IInv, NEW r \in Request, Check(r)
  PROVE  IInv'
<1>1. CASE Answer(r)
  BY <1>1, AnswerIInv DEF Check
<1>2. CASE Proceed(r, "touch") /\ UNCHANGED locks
  <2>1. req[r].op \in Authenticated
    BY DEF Check, At, IInv, Good
  <2> QED
    BY <1>2, <2>1, ProceedIInv DEF Check, At, Stages
<1> QED
  BY <1>1, <1>2 DEF Check

\* The lookup of a token that matches no row, and a wrong old password.
LEMMA NotFoundIInv ==
  ASSUME IInv, NEW r \in Request, NotFound(r) \/ WrongOldPassword(r)
  PROVE  IInv'
<1>1. CASE Answer(r)
  BY <1>1, AnswerIInv DEF NotFound, WrongOldPassword
<1>2. CASE NotFound(r) /\ req[r].op = "revokeOne" /\ Proceed(r, "rows") /\ UNCHANGED locks
  BY <1>2, ProceedIInv DEF NotFound, At, Stages, Authenticated
<1> QED
  BY <1>1, <1>2 DEF NotFound, WrongOldPassword

\* The test of the owner's deleted_at.
LEMMA OwnerIInv ==
  ASSUME IInv, NEW r \in Request, Owner(r)
  PROVE  IInv'
<1>1. CASE Answer(r)
  BY <1>1, AnswerIInv DEF Owner
<1>2. CASE Proceed(r, "rotate") /\ UNCHANGED locks
  BY <1>2, ProceedIInv DEF Owner, At, Stages
<1> QED
  BY <1>1, <1>2 DEF Owner

\* The lookup locks the row that matches.
LEMMA FoundIInv ==
  ASSUME IInv, NEW r \in Request, Found(r)
  PROVE  IInv'
<1>1. PICK s \in Matching(r) :
        /\ Available(s, r)
        /\ IF req[r].op = "password" /\ s # req[r].sid
             THEN Answer(r)
             ELSE /\ rowLock' = [rowLock EXCEPT ![s] = r]
                  /\ CASE req[r].op = "refresh" ->
                            req' = [req EXCEPT ![r].sid = s, ![r].at = "owner"]
                       [] req[r].op = "password" -> Proceed(r, "user")
                       [] OTHER -> Proceed(r, "rows")
                  /\ UNCHANGED userLock
  BY DEF Found
<1>2. CASE Answer(r)
  BY <1>2, AnswerIInv DEF Found
<1>3. CASE ~(req[r].op = "password" /\ s # req[r].sid)
  <2>1. /\ rowLock' = [rowLock EXCEPT ![s] = r] /\ UNCHANGED <<userLock, rows, account>>
        /\ req[r] \in LiveRequest /\ req[r] # Free /\ Good(r)
        /\ s \in live /\ s \in Sid /\ row[s].hash = req[r].tok
    BY <1>1, <1>3 DEF Found, At, Matching, live, IInv, TypeOK
  <2>2. live' = live
    BY <2>1 DEF live
  <2>3. req[r].op \in {"refresh", "password", "revokeOne"}
    BY <2>1 DEF Good, Found, At
  <2>4. \A q \in Request, z \in Sid : q # r /\ rowLock[z] = q => rowLock'[z] = q
    BY <1>1, <2>1 DEF Available, IInv, TypeOK
  <2>5. rowLock' \in [Sid -> Request \cup {NoRequest}] /\ rowLock'[s] = r
    BY <2>1 DEF IInv, TypeOK
  <2>6. CASE req[r].op = "refresh"
    <3> DEFINE new == [req[r] EXCEPT !.sid = s, !.at = "owner"]
    <3>1. req' = [req EXCEPT ![r] = new]
      BY <1>1, <1>3, <2>6
    <3>2. /\ new \in LiveRequest /\ new.at = "owner" /\ new.op = "refresh"
          /\ new.sid = s /\ new.tok = req[r].tok
      BY <2>1, <2>6 DEF LiveRequest, Stages
    <3> HIDE DEF new
    <3>3. req' \in [Request -> LiveRequest \cup {Free}] /\ req'[r] = new
      BY <3>1, <3>2 DEF IInv, TypeOK
    <3>4. TypeOK'
      BY <2>1, <2>5, <3>3 DEF IInv, TypeOK
    <3>5. Good(r)'
      BY <2>1, <2>2, <2>5, <3>2, <3>3 DEF Good, HasSession
    <3>6. \A q \in Request : q # r => req'[q] = req[q]
      BY <3>1 DEF IInv, TypeOK
    <3> QED
      BY <2>1, <2>4, <3>4, <3>5, <3>6, RowsUnchanged
  <2>7. CASE req[r].op # "refresh"
    <3>1. PICK at \in {"user", "rows"} :
            Proceed(r, at) /\ (at = "user" <=> req[r].op = "password")
      BY <1>1, <1>3, <2>7
    <3>2. /\ req' \in [Request -> LiveRequest \cup {Free}]
          /\ req'[r].at = at /\ req'[r].op = req[r].op
          /\ req'[r].sid = req[r].sid /\ req'[r].tok = req[r].tok
          /\ \A q \in Request : q # r => req'[q] = req[q]
      <4>1. at \in Stages
        BY DEF Stages
      <4> QED
        BY <2>1, <3>1, <4>1, Proceeded DEF IInv
    <3>3. TypeOK'
      BY <2>1, <2>5, <3>2 DEF IInv, TypeOK
    <3>4. Good(r)'
      BY <1>3, <2>1, <2>2, <2>3, <2>5, <2>7, <3>1, <3>2 DEF Good, HasSession
    <3> QED
      BY <2>1, <2>4, <3>2, <3>3, <3>4, RowsUnchanged
  <2> QED
    BY <2>6, <2>7
<1> QED
  BY <1>1, <1>2, <1>3

\* The user row is locked.
LEMMA LockUserIInv ==
  ASSUME IInv, NEW r \in Request, LockUser(r)
  PROVE  IInv'
<1>1. /\ req[r] # Free /\ Good(r) /\ req[r].at = "user"
      /\ Proceed(r, "rows") /\ "rows" \in Stages
      /\ userLock' = r /\ userLock \in {NoRequest, r} /\ UNCHANGED <<rows, account, rowLock>>
  BY DEF LockUser, At, IInv, Stages
<1>2. /\ req' \in [Request -> LiveRequest \cup {Free}]
      /\ req'[r].at = "rows" /\ req'[r].op = req[r].op
      /\ req'[r].sid = req[r].sid /\ req'[r].tok = req[r].tok
      /\ \A q \in Request : q # r => req'[q] = req[q]
  BY <1>1, Proceeded DEF IInv
<1>3. TypeOK'
  BY <1>1, <1>2 DEF IInv, TypeOK
<1>4. Good(r)'
  <2>1. live' = live
    BY <1>1 DEF live
  <2> QED
    BY <1>1, <1>2, <2>1 DEF Good, HasSession
<1> QED
  BY <1>1, <1>2, <1>3, <1>4, RowsUnchanged

\* The rows to delete are selected: a login selects every session there is.
LEMMA SelectRowsIInv ==
  ASSUME IInv, NEW r \in Request, SelectRows(r)
  PROVE  IInv'
<1> DEFINE new == [req[r] EXCEPT !.todo = Selected(r), !.at = "delete"]
<1>1. /\ req[r] # Free /\ req[r] \in LiveRequest /\ Good(r) /\ req[r].at = "rows"
      /\ req' = [req EXCEPT ![r] = new]
  BY DEF SelectRows, At, IInv, TypeOK
<1>2. Selected(r) \subseteq Sid
  BY DEF Selected, live
<1>3. /\ new \in LiveRequest /\ new.op = req[r].op /\ new.at = "delete"
      /\ new.sid = req[r].sid /\ new.tok = req[r].tok /\ new.todo = Selected(r)
  BY <1>1, <1>2 DEF LiveRequest, Stages
<1> HIDE DEF new
<1>4. /\ req'[r] = new
      /\ \A q \in Request : q # r => req'[q] = req[q]
      /\ req' \in [Request -> LiveRequest \cup {Free}]
  BY <1>1, <1>3 DEF IInv, TypeOK
<1>5. TypeOK'
  BY <1>4 DEF SelectRows, IInv, TypeOK
<1>6. Good(r)'
  <2>1. live' = live
    BY DEF SelectRows, live
  <2>2. req[r].op = "login" => Selected(r) = live
    BY DEF Selected
  <2> QED
    BY <1>1, <1>3, <1>4, <2>1, <2>2 DEF Good, HasSession, SelectRows
<1> QED
  BY <1>4, <1>5, <1>6, RowsUnchanged DEF SelectRows

\* A DELETE reaches a row: the row is locked, or gone.
LEMMA LockRowIInv ==
  ASSUME IInv, NEW r \in Request, LockRow(r)
  PROVE  IInv'
<1>1. PICK s \in req[r].todo :
        /\ s \in live => Available(s, r)
        /\ rowLock' = IF s \in live THEN [rowLock EXCEPT ![s] = r] ELSE rowLock
        /\ req' = [req EXCEPT ![r].todo = @ \ {s}]
  BY DEF LockRow
<1> DEFINE new == [req[r] EXCEPT !.todo = @ \ {s}]
<1>2. /\ req[r] # Free /\ req[r] \in LiveRequest /\ Good(r) /\ req[r].at = "delete"
      /\ req' = [req EXCEPT ![r] = new] /\ UNCHANGED <<rows, account, userLock>>
  BY <1>1 DEF LockRow, At, IInv, TypeOK
<1>3. /\ new \in LiveRequest /\ new.op = req[r].op /\ new.at = "delete"
      /\ new.sid = req[r].sid /\ new.tok = req[r].tok /\ new.todo = req[r].todo \ {s}
      /\ s \in Sid
  BY <1>2 DEF LiveRequest
<1> HIDE DEF new
<1>4. /\ req'[r] = new
      /\ \A q \in Request : q # r => req'[q] = req[q]
      /\ req' \in [Request -> LiveRequest \cup {Free}]
  BY <1>2, <1>3 DEF IInv, TypeOK
<1>5. /\ rowLock' \in [Sid -> Request \cup {NoRequest}]
      /\ \A q \in Request, z \in Sid : q # r /\ rowLock[z] = q => rowLock'[z] = q
      /\ \A z \in Sid : rowLock[z] = r => rowLock'[z] = r
      /\ s \in live => rowLock'[s] = r
  BY <1>1, <1>3 DEF Available, IInv, TypeOK
<1>6. TypeOK'
  BY <1>2, <1>4, <1>5 DEF IInv, TypeOK
<1>7. Good(r)'
  <2>1. live' = live /\ live \subseteq Sid
    BY <1>2 DEF live
  <2> QED
    BY <1>2, <1>3, <1>4, <1>5, <2>1 DEF Good, HasSession
<1> QED
  BY <1>2, <1>4, <1>5, <1>6, <1>7, RowsUnchanged

---------------------------------------------------------------------------
(* Steps that write rows                                                   *)

\* A step of r that deletes rows of its own, or rotates one, and is answered.
LEMMA WriteIInv ==
  ASSUME IInv, NEW r \in Request, Answer(r),
         logins' = logins, tokens' \in Nat, account' \in {"active", "deleted"},
         row' \in [Sid -> Row \cup {NoRow}],
         live' \subseteq live,
         \A s \in live : rowLock[s] # r => row'[s] = row[s]
  PROVE  IInv'
<1>1. TypeOK'
  BY Answered DEF IInv, TypeOK
<1>2. \A s \in live : rowLock[s] # r => s \in live'
  BY DEF live
<1>3. \A q \in Request : q # r => Good(q)'
  BY <1>2, Answered, OthersStayGood DEF IInv
<1>4. Good(r)'
  BY Answered DEF Good, IInv
<1> QED
  BY <1>1, <1>3, <1>4 DEF IInv, LastLoginWins

\* A rotated row is a row.
LEMMA RotatedRow ==
  ASSUME TypeOK, NEW s \in live
  PROVE  Rotated(s) \in Row
<1>1. row[s] \in Row
  BY DEF live, TypeOK
<1>2. tokens + 1 \in Token /\ Used(row[s].age) \in {"active", "idle", "over"}
  BY <1>1 DEF TypeOK, Used, Row
<1> QED
  BY <1>2 DEF Rotated, Row

\* refresh commits.
LEMMA RotateIInv ==
  ASSUME IInv, NEW r \in Request, Rotate(r)
  PROVE  IInv'
<1> DEFINE s == req[r].sid
<1>1. s \in live /\ s \in Sid /\ rowLock[s] = r
  BY DEF Rotate, At, IInv, Good, HasSession, live
<1>2. Rotated(s) \in Row
  BY <1>1, RotatedRow DEF IInv
<1>3. /\ row' = [row EXCEPT ![s] = Rotated(s)]
      /\ row' \in [Sid -> Row \cup {NoRow}]
  BY <1>1, <1>2 DEF Rotate, IInv, TypeOK
<1>4. live' \subseteq live
  BY <1>1, <1>3 DEF live, IInv, TypeOK
<1> QED
  BY <1>1, <1>3, <1>4, WriteIInv DEF Rotate, IInv, TypeOK

\* A logout, a revocation or an administrator's update commits.
LEMMA CommitDeleteIInv ==
  ASSUME IInv, NEW r \in Request, CommitDelete(r)
  PROVE  IInv'
<1>1. PICK S \in SUBSET Held(r) : row' = Without(S)
  BY DEF CommitDelete
<1>2. row' \in [Sid -> Row \cup {NoRow}]
  BY <1>1 DEF Without, IInv, TypeOK
<1>3. live' \subseteq live
  BY <1>1 DEF Without, live
<1>4. \A s \in live : rowLock[s] # r => row'[s] = row[s]
  BY <1>1 DEF Without, Held, live
<1>5. account' \in {"active", "deleted"}
  BY DEF CommitDelete, IInv, TypeOK
<1> QED
  BY <1>2, <1>3, <1>4, <1>5, WriteIInv DEF CommitDelete, IInv, TypeOK

\* The password change commits.
LEMMA CommitPasswordIInv ==
  ASSUME IInv, NEW r \in Request, CommitPassword(r)
  PROVE  IInv'
<1> DEFINE s == req[r].sid
<1>1. s \in live /\ s \in Sid /\ rowLock[s] = r
  BY DEF CommitPassword, DeletesDone, At, IInv, Good, HasSession, live
<1>2. Rotated(s) \in Row
  BY <1>1, RotatedRow DEF IInv
<1>3. row' = [Without(Held(r) \ {s}) EXCEPT ![s] = Rotated(s)]
  BY DEF CommitPassword
<1>4. row' \in [Sid -> Row \cup {NoRow}]
  BY <1>1, <1>2, <1>3 DEF Without, IInv, TypeOK
<1>5. \A z \in Sid : z # s => row'[z] \in {row[z], NoRow}
  BY <1>1, <1>3 DEF Without
<1>6. live' \subseteq live
  BY <1>1, <1>5 DEF live
<1>7. \A z \in live : rowLock[z] # r => row'[z] = row[z]
  BY <1>1, <1>3 DEF Without, Held, live
<1>8. Answer(r) /\ logins' = logins /\ tokens' \in Nat /\ account' \in {"active", "deleted"}
  BY DEF CommitPassword, IInv, TypeOK
<1> QED
  BY <1>4, <1>6, <1>7, <1>8, WriteIInv

\* The login commits: every older session was locked by its DELETE, and no other
\* login is between its own DELETE and commit.
LEMMA CommitLoginIInv ==
  ASSUME IInv, NEW r \in Request, CommitLogin(r)
  PROVE  IInv'
<1> DEFINE new == logins + 1
           fresh == [hash |-> tokens + 1, age |-> "active"]
<1>1. /\ Answer(r) /\ UNCHANGED account
      /\ row' = [Without(Held(r)) EXCEPT ![new] = fresh]
      /\ logins' = new /\ tokens' = tokens + 1
      /\ logins \in Nat /\ tokens \in Nat
  BY DEF CommitLogin, IInv, TypeOK
<1>2. userLock = r /\ live = Held(r)
  <2>1. /\ req[r] # Free /\ Good(r) /\ req[r].op = "login"
        /\ req[r].at = "delete" /\ req[r].todo = {}
    BY DEF CommitLogin, DeletesDone, At, IInv
  <2> QED
    BY <2>1 DEF Good, Held
<1>3. fresh \in Row
  BY <1>1 DEF Row
<1>4. TypeOK'
  <2>1. row' \in [Sid -> Row \cup {NoRow}]
    BY <1>1, <1>3 DEF Without, IInv, TypeOK
  <2> QED
    BY <1>1, <2>1, Answered DEF IInv, TypeOK
<1>5. LastLoginWins'
  <2> SUFFICES ASSUME NEW s \in Sid, s # new PROVE row'[s] = NoRow
    BY <1>1 DEF LastLoginWins, live
  <2>1. row'[s] = Without(Held(r))[s]
    BY <1>1 DEF Without
  <2> QED
    BY <1>2, <2>1 DEF Without, live
<1>6. ASSUME NEW q \in Request
      PROVE  Good(q)'
  <2>1. CASE q = r
    BY <1>1, <2>1, Answered DEF Good, IInv
  <2>2. CASE q # r
    <3>1. req'[q] = req[q] /\ Good(q)
      BY <1>1, <2>2, Answered DEF IInv
    <3>2. HasSession(q)' = HasSession(q)
      BY <3>1 DEF HasSession
    <3>3. req[q] # Free => ~HasSession(q)
      BY <1>2, <2>2, <3>1 DEF Good, Held
    <3>4. req[q] # Free => ~(req[q].op = "login" /\ req[q].at \in {"rows", "delete"})
      BY <1>2, <2>2, <3>1 DEF Good
    <3> QED
      BY <3>1, <3>2, <3>3, <3>4 DEF Good
  <2> QED
    BY <2>1, <2>2
<1> QED
  BY <1>4, <1>5, <1>6 DEF IInv

---------------------------------------------------------------------------
(* Activity and time                                                       *)

\* A change of one row's age alone preserves what requests rely on.
LEMMA AgedIInv ==
  ASSUME IInv, NEW s \in live, NEW a \in {"active", "idle", "over"},
         row' = [row EXCEPT ![s].age = a], UNCHANGED <<logins, tokens, account, locks, req>>
  PROVE  IInv'
<1>1. /\ row' \in [Sid -> Row \cup {NoRow}] /\ live' = live
      /\ \A q \in Sid : row'[q].hash = row[q].hash
  BY Aged DEF IInv
<1>2. TypeOK'
  BY <1>1 DEF IInv, TypeOK
<1>3. ASSUME NEW q \in Request PROVE Good(q)'
  <2>1. Good(q) /\ HasSession(q)' = HasSession(q) /\ live \subseteq Sid
    BY DEF IInv, HasSession, live
  <2> QED
    BY <1>1, <2>1 DEF Good
<1> QED
  BY <1>1, <1>2, <1>3 DEF IInv, LastLoginWins

\* Time passes.
LEMMA GrowOldIInv ==
  ASSUME IInv, NEW s \in Sid, GrowOld(s)
  PROVE  IInv'
BY AgedIInv DEF GrowOld

\* get_current_user's UPDATE, and where the request goes from there.
LEMMA TouchIInv ==
  ASSUME IInv, NEW r \in Request, Touch(r)
  PROVE  IInv'
<1> DEFINE s == req[r].sid
<1>1. /\ req[r] # Free /\ Good(r) /\ req[r].at = "touch"
      /\ req[r].op \in Authenticated /\ UNCHANGED <<logins, tokens, account>>
  BY DEF Touch, At, IInv, Good
<1>2. /\ row' \in [Sid -> Row \cup {NoRow}] /\ live' = live
      /\ \A q \in Sid : row'[q].hash = row[q].hash
  <2>1. CASE s \in live
    <3>1. /\ Used(row[s].age) \in {"active", "idle", "over"}
          /\ row' = [row EXCEPT ![s].age = Used(row[s].age)]
      BY <2>1 DEF Touch, Used, live, Row, IInv, TypeOK
    <3> QED
      BY <2>1, <3>1, Aged DEF IInv
  <2>2. CASE s \notin live
    <3>1. row' = row
      BY <2>2 DEF Touch
    <3> QED
      BY <3>1 DEF live, IInv, TypeOK
  <2> QED
    BY <2>1, <2>2
<1>3. \/ Answer(r)
      \/ /\ UNCHANGED locks
         /\ \/ req[r].op \in {"password", "revokeOne"} /\ Proceed(r, "lookup")
            \/ req[r].op \notin {"password", "revokeOne"} /\ Proceed(r, "rows")
  BY DEF Touch
<1>4. CASE Answer(r)
  <2>1. TypeOK'
    BY <1>1, <1>2, <1>4, Answered DEF IInv, TypeOK
  <2>2. \A q \in Request : q # r => Good(q)'
    BY <1>2, <1>4, Answered, OthersStayGood DEF IInv, live
  <2>3. Good(r)'
    BY <1>4, Answered DEF Good, IInv
  <2> QED
    BY <1>1, <1>2, <2>1, <2>2, <2>3 DEF IInv, LastLoginWins
<1>5. ASSUME NEW at \in {"lookup", "rows"}, Proceed(r, at), UNCHANGED locks,
             at = "lookup" <=> req[r].op \in {"password", "revokeOne"}
      PROVE  IInv'
  <2>1. at \in Stages
    BY DEF Stages
  <2>2. /\ req' \in [Request -> LiveRequest \cup {Free}]
        /\ req'[r].at = at /\ req'[r].op = req[r].op
        /\ \A q \in Request : q # r => req'[q] = req[q]
    BY <1>1, <1>5, <2>1, Proceeded DEF IInv
  <2>3. TypeOK'
    BY <1>1, <1>2, <1>5, <2>2 DEF IInv, TypeOK
  <2>4. \A q \in Request : q # r => Good(q)'
    BY <1>2, <1>5, <2>2, OthersStayGood DEF live
  <2>5. Good(r)'
    BY <1>1, <1>5, <2>2 DEF Good, HasSession, Authenticated
  <2> QED
    BY <1>1, <1>2, <2>3, <2>4, <2>5 DEF IInv, LastLoginWins
<1> QED
  BY <1>3, <1>4, <1>5

---------------------------------------------------------------------------
(* The theorems                                                            *)

\* The invariant holds before the first request.
LEMMA InitIInv == Init => IInv
BY DEF Init, IInv, TypeOK, LastLoginWins, live, Good

\* Every step preserves the invariant.
LEMMA NextIInv == IInv /\ [Next]_vars => IInv'
<1> SUFFICES ASSUME IInv, [Next]_vars PROVE IInv'
  OBVIOUS
<1>1. ASSUME NEW r \in Request, Arrive(r) PROVE IInv'
  BY <1>1, ArriveIInv
<1>2. ASSUME NEW r \in Request, Acquire(r) PROVE IInv'
  BY <1>2, TouchIInv, FoundIInv, LockUserIInv, LockRowIInv DEF Acquire
<1>3. ASSUME NEW r \in Request, Abort(r) \/ Die(r) PROVE IInv'
  BY <1>3, AnswerIInv DEF Abort, Die
<1>4. ASSUME NEW r \in Request, Run(r) PROVE IInv'
  BY <1>3, <1>4, CheckIInv, NotFoundIInv, OwnerIInv, RotateIInv, SelectRowsIInv,
     CommitLoginIInv, CommitPasswordIInv, CommitDeleteIInv DEF Run
<1>5. ASSUME NEW s \in Sid, GrowOld(s) PROVE IInv'
  BY <1>5, GrowOldIInv
<1>6. CASE Restore
  <2>1. TypeOK' /\ live' = live
    BY <1>6 DEF Restore, IInv, TypeOK, live
  <2>2. ASSUME NEW q \in Request PROVE Good(q)'
    <3>1. Good(q) /\ HasSession(q)' = HasSession(q)
      BY <1>6 DEF Restore, IInv, HasSession
    <3> QED
      BY <1>6, <2>1, <3>1 DEF Restore, Good
  <2> QED
    BY <1>6, <2>1, <2>2 DEF Restore, IInv, LastLoginWins
<1>7. CASE UNCHANGED vars
  <2>1. TypeOK' /\ live' = live
    BY <1>7 DEF vars, IInv, TypeOK, live
  <2>2. ASSUME NEW q \in Request PROVE Good(q)'
    <3>1. Good(q) /\ HasSession(q)' = HasSession(q)
      BY <1>7 DEF vars, IInv, HasSession
    <3> QED
      BY <1>7, <2>1, <3>1 DEF vars, Good
  <2> QED
    BY <1>7, <2>1, <2>2 DEF vars, IInv, LastLoginWins
<1> QED
  BY <1>1, <1>2, <1>3, <1>4, <1>5, <1>6, <1>7 DEF Next

\* Whatever requests overlap, the account has no session but that of the login
\* which committed last.
THEOREM LastLoginWinsHolds == Spec => []LastLoginWins
<1>1. IInv => LastLoginWins
  BY DEF IInv
<1> QED
  BY <1>1, InitIInv, NextIInv, PTL DEF Spec

\* The variables keep their types.
THEOREM TypesHold == Spec => []TypeOK
<1>1. IInv => TypeOK
  BY DEF IInv
<1> QED
  BY <1>1, InitIInv, NextIInv, PTL DEF Spec

\* A hash is replaced only by the request that presented its token: of any
\* number of requests with one token, one gets a new token.
THEOREM RotationHolds == Spec => RotationIsCompareAndSwap
<1> DEFINE Swap == \A s \in live \cap live' :
                     row'[s].hash # row[s].hash =>
                       \E r \in Request : /\ req[r] # Free /\ req'[r] = Free
                                          /\ req[r].tok = row[s].hash
<1>1. IInv /\ [Next]_vars => [Swap]_vars
  <2> SUFFICES ASSUME IInv, Next PROVE Swap
    BY DEF Swap
  <2>1. CASE UNCHANGED row
    BY <2>1
  <2>2. ASSUME NEW r \in Request, Touch(r) PROVE Swap
    <3>1. \A s \in Sid : row'[s].hash = row[s].hash
      <4>1. CASE req[r].sid \in live
        <5>1. /\ Used(row[req[r].sid].age) \in {"active", "idle", "over"}
              /\ row' = [row EXCEPT ![req[r].sid].age = Used(row[req[r].sid].age)]
          BY <2>2, <4>1 DEF Touch, Used, live, Row, IInv, TypeOK
        <5> QED
          BY <4>1, <5>1, Aged DEF IInv
      <4>2. CASE req[r].sid \notin live
        BY <2>2, <4>2 DEF Touch
      <4> QED
        BY <4>1, <4>2
    <3> QED
      BY <3>1 DEF live
  <2>3. ASSUME NEW s \in Sid, GrowOld(s) PROVE Swap
    <3>1. \A q \in Sid : row'[q].hash = row[q].hash
      BY <2>3, Aged DEF GrowOld, IInv
    <3> QED
      BY <3>1 DEF live
  <2>4. ASSUME NEW r \in Request, Rotate(r) \/ CommitPassword(r) PROVE Swap
    <3>1. /\ req[r] # Free /\ req'[r] = Free
          /\ req[r].sid \in live /\ row[req[r].sid].hash = req[r].tok
      BY <2>4, Answered
         DEF Rotate, CommitPassword, DeletesDone, At, IInv, Good, HasSession
    <3>2. \A s \in live \cap live' : s # req[r].sid => row'[s] = row[s]
      BY <2>4 DEF Rotate, CommitPassword, Without, live, IInv, TypeOK
    <3> QED
      BY <3>1, <3>2
  <2>5. ASSUME NEW r \in Request, CommitDelete(r) PROVE Swap
    BY <2>5 DEF CommitDelete, Without, live
  <2>6. ASSUME NEW r \in Request, CommitLogin(r) PROVE Swap
    <3>1. logins + 1 \notin live
      BY DEF IInv, LastLoginWins, TypeOK
    <3>2. \A s \in live \cap live' : row'[s] = row[s]
      BY <2>6, <3>1 DEF CommitLogin, Without, live
    <3> QED
      BY <3>2
  <2>7. \/ UNCHANGED row
        \/ \E r \in Request : \/ Touch(r) \/ Rotate(r) \/ CommitPassword(r)
                              \/ CommitDelete(r) \/ CommitLogin(r)
        \/ \E s \in Sid : GrowOld(s)
    BY DEF Next, Arrive, Acquire, Found, LockUser, LockRow, Run, Check, NotFound,
           WrongOldPassword, Owner, SelectRows, Abort, Die, Restore
  <2> QED
    BY <2>1, <2>2, <2>3, <2>4, <2>5, <2>6, <2>7
<1>2. Spec => [][Swap]_vars
  BY <1>1, InitIInv, NextIInv, PTL DEF Spec
<1> QED
  BY <1>2 DEF RotationIsCompareAndSwap, Swap

---------------------------------------------------------------------------
(* Deadlocks                                                               *)

\* Who holds a session row has not ended its transaction, and does not want the
\* user row any more, unless it is a password change.
RowHolders ==
  \A r \in Request, s \in Sid :
    rowLock[s] = r => req[r] # Free /\ (req[r].at = "user" => req[r].op = "password")

\* A step of r need only keep what r itself promises, if it leaves the others
\* their stages and gives them no lock.
LEMMA HoldersFrame ==
  ASSUME RowHolders, NEW r \in Request,
         \A q \in Request : q # r => req'[q] = req[q],
         \A q \in Request, s \in Sid : q # r /\ rowLock'[s] = q => rowLock[s] = q,
         \A s \in Sid : rowLock'[s] = r =>
           req'[r] # Free /\ (req'[r].at = "user" => req'[r].op = "password")
  PROVE  RowHolders'
BY DEF RowHolders

\* Who is answered holds nothing.
LEMMA AnswerHolders ==
  ASSUME IInv, RowHolders, NEW r \in Request, Answer(r)
  PROVE  RowHolders'
<1>1. \A s \in Sid : rowLock'[s] # r
  BY DEF Answer, Release
<1> QED
  BY <1>1, Answered, HoldersFrame DEF IInv

\* Nobody proceeds to the user row without having arrived there.
LEMMA ProceedHolders ==
  ASSUME IInv, RowHolders, NEW r \in Request, req[r] # Free,
         NEW at \in Stages, Proceed(r, at), at = "user" => req[r].op = "password",
         \A q \in Request, s \in Sid : q # r /\ rowLock'[s] = q => rowLock[s] = q
  PROVE  RowHolders'
BY Proceeded, HoldersFrame DEF IInv

\* Every step of a request keeps to it.
LEMMA RequestHolders ==
  ASSUME IInv, RowHolders, NEW r \in Request,
         Arrive(r) \/ Acquire(r) \/ Run(r) \/ Die(r), ~Answer(r)
  PROVE  RowHolders'
<1> USE DEF At
<1>0. /\ req \in [Request -> LiveRequest \cup {Free}]
      /\ rowLock \in [Sid -> Request \cup {NoRequest}]
      /\ {"touch", "lookup", "rows", "rotate", "user", "delete"} \subseteq Stages
  BY DEF IInv, TypeOK, Stages
<1>1. CASE Arrive(r)
  <2>1. \A s \in Sid : rowLock[s] # r
    BY <1>1 DEF Arrive, RowHolders
  <2>2. \A q \in Request : q # r => req'[q] = req[q]
    BY <1>0, <1>1 DEF Arrive
  <2> QED
    BY <1>1, <2>1, <2>2, HoldersFrame DEF Arrive
<1>2. CASE Check(r) \/ Owner(r)
  BY <1>0, <1>2, ProceedHolders DEF Check, Owner
<1>3. CASE NotFound(r) \/ WrongOldPassword(r)
  BY <1>0, <1>3, ProceedHolders DEF NotFound, WrongOldPassword
<1>4. CASE Touch(r)
  <2>1. \E at \in {"lookup", "rows"} : Proceed(r, at)
    BY <1>4 DEF Touch
  <2>2. req[r] # Free /\ UNCHANGED rowLock
    BY <1>4 DEF Touch
  <2> QED
    BY <1>0, <2>1, <2>2, ProceedHolders
<1>5. CASE LockUser(r)
  BY <1>0, <1>5, ProceedHolders DEF LockUser
<1>6. CASE Found(r)
  <2>1. PICK s \in Matching(r) :
          /\ Available(s, r)
          /\ rowLock' = [rowLock EXCEPT ![s] = r]
          /\ \/ req[r].op = "refresh" /\ req' = [req EXCEPT ![r].sid = s, ![r].at = "owner"]
             \/ req[r].op = "password" /\ Proceed(r, "user")
             \/ Proceed(r, "rows")
    BY <1>6 DEF Found
  <2>2. \A q \in Request, z \in Sid : q # r /\ rowLock'[z] = q => rowLock[z] = q
    BY <1>0, <2>1 DEF Matching, live
  <2>3. req[r] # Free /\ req[r] \in LiveRequest
    BY <1>0, <1>6 DEF Found
  <2>4. CASE req' = [req EXCEPT ![r].sid = s, ![r].at = "owner"]
    <3>1. req'[r].at = "owner" /\ req'[r] # Free
      <4>1. [req[r] EXCEPT !.sid = s, !.at = "owner"].at = "owner"
        BY <2>3 DEF LiveRequest
      <4>2. [req[r] EXCEPT !.sid = s, !.at = "owner"] \in LiveRequest
        BY <2>1, <2>3 DEF LiveRequest, Matching, live, Stages
      <4>3. Free \notin LiveRequest
        BY DEF Free, LiveRequest, Ops, Authenticated, Admin
      <4> QED
        BY <1>0, <2>4, <4>1, <4>2, <4>3
    <3>2. \A q \in Request : q # r => req'[q] = req[q]
      BY <1>0, <2>4
    <3> QED
      BY <2>2, <3>1, <3>2, HoldersFrame
  <2> QED
    BY <1>0, <2>1, <2>2, <2>3, <2>4, ProceedHolders
<1>7. CASE LockRow(r) \/ SelectRows(r)
  <2>1. /\ \A q \in Request : q # r => req'[q] = req[q]
        /\ req'[r].at = "delete" /\ req'[r] # Free
    <3>1. req[r] # Free /\ req[r] \in LiveRequest /\ Free \notin LiveRequest
      BY <1>0, <1>7 DEF LockRow, SelectRows, Free, LiveRequest, Ops, Authenticated, Admin
    <3>2. PICK T \in SUBSET Sid : req' = [req EXCEPT ![r] = [req[r] EXCEPT !.todo = T, !.at = "delete"]]
      <4>1. CASE SelectRows(r)
        <5>1. Selected(r) \in SUBSET Sid
          BY DEF Selected, live
        <5> QED
          BY <4>1, <5>1 DEF SelectRows
      <4>2. CASE LockRow(r)
        <5>1. PICK s \in req[r].todo : req' = [req EXCEPT ![r].todo = @ \ {s}]
          BY <4>2 DEF LockRow
        <5>2. /\ req[r].at = "delete"
              /\ req[r].todo \ {s} \in SUBSET Sid
          BY <3>1, <4>2 DEF LockRow, LiveRequest
        <5>3. [req[r] EXCEPT !.todo = @ \ {s}] = [req[r] EXCEPT !.todo = req[r].todo \ {s}, !.at = "delete"]
          BY <3>1, <5>2 DEF LiveRequest
        <5> QED
          BY <5>1, <5>2, <5>3
      <4> QED
        BY <1>7, <4>1, <4>2
    <3> DEFINE new == [req[r] EXCEPT !.todo = T, !.at = "delete"]
    <3>3. new \in LiveRequest /\ new.at = "delete"
      BY <3>1 DEF LiveRequest, Stages
    <3> HIDE DEF new
    <3> QED
      BY <1>0, <3>1, <3>2, <3>3 DEF new
  <2>2. \A q \in Request, z \in Sid : q # r /\ rowLock'[z] = q => rowLock[z] = q
    BY <1>0, <1>7 DEF LockRow, SelectRows
  <2> QED
    BY <2>1, <2>2, HoldersFrame
<1> QED
  BY <1>1, <1>2, <1>3, <1>4, <1>5, <1>6, <1>7
     DEF Acquire, Run, Die, Rotate, CommitLogin, CommitPassword, CommitDelete, Abort

\* No request waits for itself: it waits for the holder of the user row or, as
\* there is but one session, for the holder of that one.
LEMMA Waits ==
  ASSUME IInv, NEW r \in Request, NEW q \in WaitsFor(r)
  PROVE  /\ q # r
         /\ \/ req[r].at = "user" /\ q = userLock
            \/ req[r].at # "user" /\ logins \in live /\ q = rowLock[logins]
<1> USE DEF At, Others, IInv, LastLoginWins
<1>1. CASE At(r, "user")
  BY <1>1 DEF WaitsFor
<1>2. CASE At(r, "touch")
  BY <1>2 DEF WaitsFor
<1>3. CASE At(r, "lookup")
  BY <1>3 DEF WaitsFor, Matching
<1>4. CASE At(r, "delete")
  BY <1>4 DEF WaitsFor
<1> QED
  BY <1>1, <1>2, <1>3, <1>4 DEF WaitsFor

\* A cycle consists of the holder of the user row and that of the session row,
\* and the latter waits at the user row.
LEMMA CycleHasPassword ==
  ASSUME IInv, RowHolders, NEW C \in WaitCycles
  PROVE  \E r \in C : req[r].op = "password"
<1>1. C \subseteq Request /\ C # {}
  BY DEF WaitCycles
<1>2. \A r \in C : (\E q \in C : q \in WaitsFor(r)) /\ (\E q \in C : r \in WaitsFor(q))
  BY DEF WaitCycles
<1>3. PICK r \in C : req[r].at = "user"
  <2> SUFFICES ASSUME \A r \in C : req[r].at # "user" PROVE FALSE
    OBVIOUS
  <2>1. PICK r \in C, q \in C : q \in WaitsFor(r)
    BY <1>1, <1>2
  <2>2. q = rowLock[logins]
    BY <1>1, <2>1, Waits
  <2>3. PICK p \in C : p \in WaitsFor(q)
    BY <1>2
  <2>4. p = rowLock[logins] /\ p # q
    BY <1>1, <2>3, Waits
  <2> QED
    BY <2>2, <2>4
<1>4. PICK q \in C : q \in WaitsFor(r)
  BY <1>2
<1>5. q = userLock /\ q # r
  BY <1>1, <1>3, <1>4, Waits
<1>6. PICK p \in C : r \in WaitsFor(p)
  BY <1>2
<1>7. logins \in live /\ r = rowLock[logins]
  BY <1>1, <1>5, <1>6, Waits
<1>8. req[r].op = "password"
  BY <1>1, <1>3, <1>7 DEF RowHolders, live
<1> QED
  BY <1>8

\* Every deadlock of these endpoints involves a password change: the others lock
\* the user row first, or only one of the two.
THEOREM DeadlocksNeedPasswordChange == Spec => []DeadlocksInvolvePasswordChange
<1>1. Init => RowHolders
  BY DEF Init, RowHolders
<1>2. ASSUME IInv, RowHolders, [Next]_vars PROVE RowHolders'
  <2>1. ASSUME NEW r \in Request, Arrive(r) \/ Acquire(r) \/ Run(r) \/ Die(r)
        PROVE  RowHolders'
    BY <1>2, <2>1, AnswerHolders, RequestHolders
  <2>2. CASE Restore \/ UNCHANGED vars \/ \E s \in Sid : GrowOld(s)
    BY <1>2, <2>2 DEF Restore, vars, GrowOld, RowHolders
  <2> QED
    BY <1>2, <2>1, <2>2 DEF Next
<1>3. IInv /\ RowHolders => DeadlocksInvolvePasswordChange
  BY CycleHasPassword DEF DeadlocksInvolvePasswordChange
<1>4. IInv /\ RowHolders /\ [Next]_vars => (IInv /\ RowHolders)'
  BY <1>2, NextIInv
<1> QED
  BY <1>1, <1>3, <1>4, InitIInv, PTL DEF Spec
=============================================================================
