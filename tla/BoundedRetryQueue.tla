------------------------- MODULE BoundedRetryQueue -------------------------
(***************************************************************************)
(* What the crawl-task queue promises, without rows, leases, heartbeats    *)
(* or transactions: a submitted task is granted to one worker at a time,   *)
(* at most Limit times, and only a worker that gives it back lets it be    *)
(* granted again.  Once its holder finishes, gives up or dies, or it is    *)
(* withdrawn while waiting, the task is never executed again.              *)
(***************************************************************************)
EXTENDS Naturals

CONSTANTS Task, Worker, NoWorker, Limit

VARIABLES
  phase,    \* "absent", "waiting", "held" or "over"
  holder,   \* the worker a held task is granted to
  granted   \* how often the task has been granted

vars == <<phase, holder, granted>>

Init ==
  /\ phase = [t \in Task |-> "absent"]
  /\ holder = [t \in Task |-> NoWorker]
  /\ granted = [t \in Task |-> 0]

Submit(t) ==
  /\ phase[t] = "absent"
  /\ phase' = [phase EXCEPT ![t] = "waiting"]
  /\ UNCHANGED <<holder, granted>>

Grant(t, w) ==
  /\ phase[t] = "waiting"
  /\ granted[t] < Limit
  /\ phase' = [phase EXCEPT ![t] = "held"]
  /\ holder' = [holder EXCEPT ![t] = w]
  /\ granted' = [granted EXCEPT ![t] = @ + 1]

GiveBack(t) ==
  /\ phase[t] = "held"
  /\ granted[t] < Limit
  /\ phase' = [phase EXCEPT ![t] = "waiting"]
  /\ holder' = [holder EXCEPT ![t] = NoWorker]
  /\ UNCHANGED granted

\* A worker that stops drops everything it holds in one step; maintenance
\* may withdraw tasks that wait.
Drop(S) ==
  /\ \A t \in S : phase[t] \in {"waiting", "held"}
  /\ phase' = [t \in Task |-> IF t \in S THEN "over" ELSE phase[t]]
  /\ holder' = [t \in Task |-> IF t \in S THEN NoWorker ELSE holder[t]]
  /\ UNCHANGED granted

Next ==
  \/ \E t \in Task : Submit(t) \/ GiveBack(t)
  \/ \E t \in Task, w \in Worker : Grant(t, w)
  \/ \E S \in SUBSET Task : Drop(S)

Spec == Init /\ [][Next]_vars
=============================================================================
