--------------------------- MODULE DashboardStream ---------------------------
(***************************************************************************)
(* The dashboard's streams of one user (dashboard/router.py): each open    *)
(* tab has one, which every 30 seconds asks DashboardService for the KPIs  *)
(* and sends them if they differ from what was sent last.  What was sent   *)
(* last is kept once per user (_last_kpi_values), not once per stream.     *)
(* The service keeps the KPIs in Redis until their time to live is over.   *)
(***************************************************************************)
EXTENDS Naturals

CONSTANTS
  Stream,      \* the tabs that the user has open
  MaxChanges,  \* bound: changes of the data the KPIs are counted from
  None

VARIABLES
  kpi,     \* what a count over the tables gives
  cached,  \* the Redis entry, or None
  last,    \* _last_kpi_values[user_id], or None
  pc,      \* pc[s]: where the generator of s stands
  value,   \* value[s]: the KPIs it has got in this round
  shown    \* shown[s]: the KPIs it has sent last

vars == <<kpi, cached, last, pc, value, shown>>

Init ==
  /\ kpi = 0 /\ cached = None /\ last = None
  /\ pc = [s \in Stream |-> "off"]
  /\ value = [s \in Stream |-> None]
  /\ shown = [s \in Stream |-> None]

Goto(s, at) == pc' = [pc EXCEPT ![s] = at]
Open(s) == pc[s] # "off"

\* Crawls, alerts and the user change what is counted.
DataChanges ==
  /\ kpi < MaxChanges
  /\ kpi' = kpi + 1
  /\ UNCHANGED <<cached, last, pc, value, shown>>

Expire ==
  /\ cached # None
  /\ cached' = None
  /\ UNCHANGED <<kpi, last, pc, value, shown>>

\* The tab is opened, or the browser connects once more.
Connect(s) ==
  /\ pc[s] = "off"
  /\ Goto(s, "ask")
  /\ shown' = [shown EXCEPT ![s] = None]
  /\ UNCHANGED <<kpi, cached, last, value>>

\* The client is gone, seen at is_disconnected or by a cancellation, or the
\* count raises, which ends the generator too.
End(s) ==
  /\ Open(s)
  /\ Goto(s, "off")
  /\ UNCHANGED <<kpi, cached, last, value, shown>>

\* _cached_or_compute: the entry if there is one, and Redis gives it ...
Hit(s) ==
  /\ pc[s] = "ask" /\ cached # None
  /\ value' = [value EXCEPT ![s] = cached]
  /\ Goto(s, "compare")
  /\ UNCHANGED <<kpi, cached, last, shown>>

\* ... and else a count, which is stored a moment later, if Redis takes it
Count(s) ==
  /\ pc[s] = "ask"
  /\ value' = [value EXCEPT ![s] = kpi]
  /\ Goto(s, "store")
  /\ UNCHANGED <<kpi, cached, last, shown>>

Store(s) ==
  /\ pc[s] = "store"
  /\ cached' \in {cached, value[s]}
  /\ Goto(s, "compare")
  /\ UNCHANGED <<kpi, last, value, shown>>

\* The first values are sent whatever they are.
SendFirst(s) ==
  /\ pc[s] = "compare" /\ shown[s] = None
  /\ last' = value[s]
  /\ shown' = [shown EXCEPT ![s] = value[s]]
  /\ Goto(s, "ask")
  /\ UNCHANGED <<kpi, cached, value>>

\* The later ones are sent if they differ from the last ones.
SendChange(s) ==
  /\ pc[s] = "compare" /\ shown[s] # None
  /\ IF last = value[s] THEN UNCHANGED <<last, shown>>
     ELSE last' = value[s] /\ shown' = [shown EXCEPT ![s] = value[s]]
  /\ Goto(s, "sleep")
  /\ UNCHANGED <<kpi, cached, value>>

Wake(s) ==
  /\ pc[s] = "sleep"
  /\ Goto(s, "ask")
  /\ UNCHANGED <<kpi, cached, last, value, shown>>

Step(s) == Hit(s) \/ Count(s) \/ Store(s) \/ SendFirst(s) \/ SendChange(s) \/ Wake(s)

Next ==
  \/ DataChanges \/ Expire
  \/ \E s \in Stream : Connect(s) \/ End(s) \/ Step(s)

\* Every generator is scheduled, and the entry does not outlive its time.
Fairness == WF_vars(Expire) /\ \A s \in Stream : WF_vars(Step(s))

Spec == Init /\ [][Next]_vars /\ Fairness

----------------------------------------------------------------------------
(* A statement of the repository that the code does not keep               *)

\* "Check if values changed since last push" (router.py:103), "at least once in
\* 60 seconds" (doc/explanation-sse-realtime.md:143): a stream that stays open
\* gets the current KPIs in the end.
ChangeReachesStream ==
  \A s \in Stream : Open(s) ~> ~Open(s) \/ shown[s] = kpi
=============================================================================
