----------------------------- MODULE EventOrder -----------------------------
(***************************************************************************)
(* What event processing promises: events that have the same queue key     *)
(* are processed one at a time and in the order in which they were posted, *)
(* whatever thread does it; an accepted event is neither lost nor          *)
(* processed twice; only an event storm makes the server drop events, and  *)
(* never the notification of the storm itself.                             *)
(*                                                                         *)
(* Events are numbered as they are posted, so a set of events is as good   *)
(* as a queue of them.                                                     *)
(***************************************************************************)
EXTENDS Integers

CONSTANTS Event,        \* all events, with an id, a queue key and a flag for storm notifications
          QueueKey      \* values of the queue selector

VARIABLES posted,       \* number of events posted, the id of the last one
          inbox,        \* posted events that wait
          line,         \* accepted events of every key
          running,      \* the event of every key that is being processed, if there is one
          storm         \* an event storm is on

vars == <<posted, inbox, line, running, storm>>

Init ==
    /\ posted = 0 /\ inbox = {}
    /\ line = [k \in QueueKey |-> {}]
    /\ running = [k \in QueueKey |-> {}]
    /\ storm = FALSE

\* The event of a set that was posted first
Earliest(S) == {e \in S : \A f \in S : e.id <= f.id}

Post == \E e \in Event :
    /\ e.id = posted + 1
    /\ posted' = posted + 1
    /\ inbox' = inbox \cup {e}
    /\ UNCHANGED <<line, running>>
    /\ storm' \in BOOLEAN

Accept == \E e \in Earliest(inbox) :
    /\ inbox' = inbox \ {e}
    /\ line' = [line EXCEPT ![e.key] = @ \cup {e}]
    /\ UNCHANGED <<posted, running, storm>>

Drop == \E e \in Earliest(inbox) :
    /\ storm /\ ~e.storm
    /\ inbox' = inbox \ {e}
    /\ UNCHANGED <<posted, line, running, storm>>

Start(k) == \E e \in Earliest(line[k]) :
    /\ running[k] = {}
    /\ running' = [running EXCEPT ![k] = {e}]
    /\ line' = [line EXCEPT ![k] = @ \ {e}]
    /\ UNCHANGED <<posted, inbox, storm>>

Finish(k) ==
    /\ running[k] # {}
    /\ running' = [running EXCEPT ![k] = {}]
    /\ UNCHANGED <<posted, inbox, line, storm>>

Next ==
    \/ Post \/ Accept \/ Drop
    \/ \E k \in QueueKey : Start(k) \/ Finish(k)
    \/ UNCHANGED <<posted, inbox, line, running>> /\ storm' \in BOOLEAN

Spec == Init /\ [][Next]_vars

=============================================================================
