----------------------------- MODULE SmartHome -----------------------------
(***************************************************************************)
(* The live states of Home Assistant (domains/smart_home): the browsers'   *)
(* streams share one WebSocket, which the broker of state_stream.py opens  *)
(* for the first stream, replaces when a stream comes with another         *)
(* configuration and closes with the last.  The broker's lock is held      *)
(* while it waits for a connection to end.                                 *)
(***************************************************************************)
EXTENDS Naturals

CONSTANTS
  Stream,    \* calls of /entities/stream
  MaxEdits,  \* bound on the changes of the configuration
  None

VARIABLES
  config,       \* smart_home_configs: the version of address and token, or None
  stream,       \* Stream -> where its event_generator is
  key,          \* Stream -> the configuration of its client, or None
  gone,         \* streams whose response is cancelled
  subscribers,  \* the streams that have a queue with the broker
  lock,         \* the stream that holds _lock, or None
  task,         \* _task, by the stream that created it, or None
  running,      \* the tasks of _run that have not ended ...
  cancelled,    \* ... and the tasks that have been cancelled
  abandoned     \* history variable: see Cancel

vars == <<config, stream, key, gone, subscribers, lock, task, running, cancelled, abandoned>>
broker == <<subscribers, lock, task, running, cancelled>>

Init ==
  /\ config \in {None, 0}
  /\ stream = [s \in Stream |-> "away"]
  /\ key = [s \in Stream |-> None]
  /\ gone = {}
  /\ subscribers = {} /\ lock = None
  /\ task = None /\ running = {} /\ cancelled = {}
  /\ abandoned = {}

Goto(s, at) == stream' = [stream EXCEPT ![s] = at]

\* update_config: save_config, by another address or token
SaveConfig ==
  /\ config # MaxEdits
  /\ config' = IF config = None THEN 0 ELSE config + 1
  /\ UNCHANGED <<stream, key, gone, broker, abandoned>>

----------------------------------------------------------------------------
(* A stream and its client.                                                *)

\* get_config and _client; without a configuration the stream shows an error
\* and never reaches the broker
Connect(s) ==
  /\ stream[s] = "away" /\ config # None
  /\ key' = [key EXCEPT ![s] = config]
  /\ Goto(s, "joining")
  /\ UNCHANGED <<config, gone, broker, abandoned>>

\* request.is_disconnected between two events
Leave(s) ==
  /\ stream[s] = "open"
  /\ Goto(s, "leaving")
  /\ UNCHANGED <<config, key, gone, broker, abandoned>>

\* The server cancels the response of a client that has gone, from now on at
\* every await that waits
Disconnect(s) ==
  /\ s \notin gone /\ stream[s] \notin {"away", "closed"}
  /\ gone' = gone \cup {s}
  /\ UNCHANGED <<config, stream, key, broker, abandoned>>

\* A stream that waits for the lock to subscribe has no queue yet, one that
\* waits for an event goes on to its finally clause, and one that waits there
\* for the lock never comes to discard its queue
Cancel(s) ==
  /\ s \in gone
  /\ \/ stream[s] = "joining" /\ Goto(s, "closed") /\ UNCHANGED abandoned
     \/ stream[s] = "open" /\ Goto(s, "leaving") /\ UNCHANGED abandoned
     \/ /\ stream[s] = "leaving" /\ lock # None
        /\ abandoned' = abandoned \cup {s}
        /\ Goto(s, "closed")
  /\ UNCHANGED <<config, key, gone, broker>>

----------------------------------------------------------------------------
(* The broker.                                                             *)

\* Seeded error: the connection of another configuration is left alone.
SubscribeBesides(s) ==
  /\ stream[s] = "joining" /\ lock = None
  /\ subscribers' = subscribers \cup {s}
  /\ IF task # None /\ key[task] = key[s] THEN UNCHANGED <<task, running>>
     ELSE task' = s /\ running' = running \cup {s}
  /\ Goto(s, "open")
  /\ UNCHANGED <<config, key, gone, lock, cancelled, abandoned>>

\* subscribe: a connection of the same configuration is shared, another one
\* is cancelled first (_stop_locked)
Subscribe(s) ==
  /\ stream[s] = "joining" /\ lock = None
  /\ subscribers' = subscribers \cup {s}
  /\ \/ /\ task # None /\ key[task] = key[s]
        /\ Goto(s, "open")
        /\ UNCHANGED <<lock, task, running, cancelled>>
     \/ /\ task = None
        /\ task' = s /\ running' = running \cup {s}
        /\ Goto(s, "open")
        /\ UNCHANGED <<lock, cancelled>>
     \/ /\ task # None /\ key[task] # key[s]
        /\ lock' = s
        /\ cancelled' = cancelled \cup {task}
        /\ Goto(s, "switching")
        /\ UNCHANGED <<task, running>>
  /\ UNCHANGED <<config, key, gone, abandoned>>

\* await self._task returns, or is cancelled, which is suppressed
Waited(s) == lock = s /\ (task \notin running \/ s \in gone)

Switch(s) ==
  /\ stream[s] = "switching" /\ Waited(s)
  /\ task' = s /\ running' = running \cup {s}
  /\ lock' = None
  /\ Goto(s, "open")
  /\ UNCHANGED <<config, key, gone, subscribers, cancelled, abandoned>>

\* unsubscribe: the last one cancels the connection
Unsubscribe(s) ==
  /\ stream[s] = "leaving" /\ lock = None
  /\ subscribers' = subscribers \ {s}
  /\ IF subscribers' = {} /\ task # None
     THEN /\ lock' = s
          /\ cancelled' = cancelled \cup {task}
          /\ Goto(s, "stopping")
     ELSE Goto(s, "closed") /\ UNCHANGED <<lock, cancelled>>
  /\ UNCHANGED <<config, key, gone, task, running, abandoned>>

Stop(s) ==
  /\ stream[s] = "stopping" /\ Waited(s)
  /\ task' = None
  /\ lock' = None
  /\ Goto(s, "closed")
  /\ UNCHANGED <<config, key, gone, subscribers, running, cancelled, abandoned>>

\* _run catches every other exception and connects anew; it may be waiting
\* for the lock itself, to publish, and is cancelled there
TaskEnds(s) ==
  /\ s \in running \cap cancelled
  /\ running' = running \ {s}
  /\ UNCHANGED <<config, stream, key, gone, subscribers, lock, task, cancelled, abandoned>>

Next ==
  \/ SaveConfig
  \/ \E s \in Stream :
       \/ Connect(s) \/ Leave(s) \/ Disconnect(s) \/ Cancel(s)
       \/ Subscribe(s) \/ Switch(s) \/ Unsubscribe(s) \/ Stop(s) \/ TaskEnds(s)

Spec == Init /\ [][Next]_vars

----------------------------------------------------------------------------
(* Whenever the lock is free, every stream that is open has its queue, the *)
(* only connection that is not about to end is the broker's, and there is  *)
(* one if and only if somebody subscribes.  A queue outlives its stream,   *)
(* and keeps the connection open for ever, only if its unsubscribe was     *)
(* cancelled while it waited for the lock.                                 *)
StreamsAreServed ==
  lock = None =>
    /\ {s \in Stream : stream[s] \in {"open", "leaving"}} = subscribers \ abandoned
    /\ running \ cancelled = {task} \ {None}
    /\ task = None <=> subscribers = {}
=============================================================================
