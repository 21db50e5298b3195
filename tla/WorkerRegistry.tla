--------------------------- MODULE WorkerRegistry ---------------------------
(***************************************************************************)
(* The crawler_workers table (domains/crawling/worker_registry.py) and the *)
(* loop of run_worker (workers/crawler.py) as far as it keeps that table:  *)
(* a worker registers, beats once per round of its loop, every now and     *)
(* then writes offline over the rows whose last beat is too old, and marks *)
(* itself stopped when it leaves.  Each of these reads the rows, without a *)
(* lock, and writes in a later step.                                       *)
(***************************************************************************)
EXTENDS Naturals

CONSTANTS
  Worker,    \* worker ids; a process started with --worker-id comes back under its own
  MaxExits   \* bound on the processes that end

VARIABLES
  row,     \* Worker -> the row: status, and whether the last beat is recent
  pc,      \* Worker -> where the process is in run_worker
  once,    \* Worker -> started with --once
  seen,    \* Worker -> the status its heartbeat has loaded
  stale,   \* Worker -> the rows its maintenance has selected
  exits

vars == <<row, pc, once, seen, stale, exits>>

Gone == {"off", "dead", "left"}
Loops(w) == pc[w] \in {"top", "marking", "beat", "beating"}

Init ==
  /\ row = [w \in Worker |-> [status |-> "none", recent |-> FALSE]]
  /\ pc = [w \in Worker |-> "off"]
  /\ once \in [Worker -> BOOLEAN]
  /\ seen = [w \in Worker |-> "none"]
  /\ stale = [w \in Worker |-> {}]
  /\ exits = 0

Goto(w, at) == pc' = [pc EXCEPT ![w] = at]

\* register_worker: inserts the row, or takes the old one over
Register(w) ==
  /\ pc[w] \in Gone
  /\ row' = [row EXCEPT ![w] = [status |-> "online", recent |-> TRUE]]
  /\ Goto(w, "top")
  /\ UNCHANGED <<once, seen, stale, exits>>

\* Seeded error: a worker looks for its own row only.
StaleOwn(w) == {v \in {w} : row[v].status = "online" /\ ~row[v].recent}

\* The rows mark_stale_workers_offline selects
Stale(w) == {v \in Worker : row[v].status = "online" /\ ~row[v].recent}

\* _should_run_maintenance: the first round runs it, later ones when it is due
SelectStale(w) ==
  /\ pc[w] = "top"
  /\ stale' = [stale EXCEPT ![w] = Stale(w)]
  /\ Goto(w, "marking")
  /\ UNCHANGED <<row, once, seen, exits>>

\* offline is written whatever the row has become since
MarkOffline(w) ==
  /\ pc[w] = "marking"
  /\ row' = [v \in Worker |-> IF v \in stale[w] THEN [row[v] EXCEPT !.status = "offline"] ELSE row[v]]
  /\ stale' = [stale EXCEPT ![w] = {}]
  /\ Goto(w, "beat")
  /\ UNCHANGED <<once, seen, exits>>

NotDue(w) ==
  /\ pc[w] = "top"
  /\ Goto(w, "beat")
  /\ UNCHANGED <<row, once, seen, stale, exits>>

\* heartbeat_worker loads the row ...
LoadBeat(w) ==
  /\ pc[w] = "beat"
  /\ seen' = [seen EXCEPT ![w] = row[w].status]
  /\ Goto(w, "beating")
  /\ UNCHANGED <<row, once, stale, exits>>

\* ... and commits; the status is part of the UPDATE only when it was another
\* one.  With --once the process now waits for its task and beats no more.
CommitBeat(w) ==
  /\ pc[w] = "beating"
  /\ row' = [row EXCEPT ![w] =
               [status |-> IF seen[w] = "online" THEN @.status ELSE "online", recent |-> TRUE]]
  /\ seen' = [seen EXCEPT ![w] = "none"]
  /\ Goto(w, IF once[w] THEN "waiting" ELSE "top")
  /\ UNCHANGED <<once, stale, exits>>

\* A signal, the end of the task of --once, or an exception of a commit:
\* the finally clause cancels what runs and then marks the row
Leave(w) ==
  /\ Loops(w) \/ pc[w] = "waiting"
  /\ exits < MaxExits
  /\ exits' = exits + 1
  /\ stale' = [stale EXCEPT ![w] = {}]
  /\ seen' = [seen EXCEPT ![w] = "none"]
  /\ Goto(w, "leaving")
  /\ UNCHANGED <<row, once>>

\* mark_worker_stopping
MarkStopped(w) ==
  /\ pc[w] = "leaving"
  /\ row' = [row EXCEPT ![w].status = "stopped"]
  /\ Goto(w, "left")
  /\ UNCHANGED <<once, seen, stale, exits>>

\* The process is killed, or marking the row fails as well
Die(w) ==
  /\ pc[w] \notin Gone
  /\ exits < MaxExits
  /\ exits' = exits + 1
  /\ stale' = [stale EXCEPT ![w] = {}]
  /\ seen' = [seen EXCEPT ![w] = "none"]
  /\ Goto(w, "dead")
  /\ UNCHANGED <<row, once>>

\* crawler_worker_stale_after_seconds have passed since the last beat
Age(w) ==
  /\ row[w].recent
  /\ row' = [row EXCEPT ![w].recent = FALSE]
  /\ UNCHANGED <<pc, once, seen, stale, exits>>

Loop(w) ==
  \/ SelectStale(w) \/ MarkOffline(w) \/ NotDue(w)
  \/ LoadBeat(w) \/ CommitBeat(w) \/ MarkStopped(w)

Next == \E w \in Worker : Register(w) \/ Loop(w) \/ Leave(w) \/ Die(w) \/ Age(w)

\* A process that runs gets on, its maintenance comes due again and again,
\* and time passes.
Fairness ==
  \A w \in Worker :
    /\ WF_vars(Loop(w))
    /\ SF_vars(SelectStale(w))
    /\ WF_vars(Age(w))

Spec == Init /\ [][Next]_vars /\ Fairness

----------------------------------------------------------------------------
(* The row of a worker in its loop does not stay offline or stopped, and   *)
(* the row of a killed one does not stay online while another worker runs  *)
(* its loop: what the unlocked maintenance gets wrong is put right by the  *)
(* next beat or the next round.                                            *)
Wrong(w) ==
  \/ Loops(w) /\ ~once[w] /\ row[w].status # "online"
  \/ pc[w] = "dead" /\ row[w].status = "online" /\ \E v \in Worker : Loops(v) /\ ~once[v]

RegistryCatchesUp == \A w \in Worker : Wrong(w) ~> ~Wrong(w)
=============================================================================
