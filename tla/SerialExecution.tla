-------------------------- MODULE SerialExecution --------------------------
(***************************************************************************)
(* What ThreadPoolExecuteSerialized promises (libnetxms/tp.cpp, "not       *)
(* before previous task with same key ends"): the tasks of a key run one   *)
(* at a time, in the order in which they were submitted, each at most once *)
(* and none is taken away without being run.                               *)
(***************************************************************************)
EXTENDS Sequences

CONSTANTS SerialTask, Key, None

VARIABLES submitted,    \* tasks that have been submitted
          waiting,      \* tasks of every key that wait for their turn
          running       \* the task of every key that is running

vars == <<submitted, waiting, running>>

Init ==
    /\ submitted = {}
    /\ waiting = [k \in Key |-> <<>>]
    /\ running = [k \in Key |-> None]

Submit(t, k) ==
    /\ t \notin submitted
    /\ submitted' = submitted \cup {t}
    /\ waiting' = [waiting EXCEPT ![k] = Append(@, t)]
    /\ UNCHANGED running

Start(k) ==
    /\ running[k] = None /\ waiting[k] # <<>>
    /\ running' = [running EXCEPT ![k] = Head(waiting[k])]
    /\ waiting' = [waiting EXCEPT ![k] = Tail(@)]
    /\ UNCHANGED submitted

Finish(k) ==
    /\ running[k] # None
    /\ running' = [running EXCEPT ![k] = None]
    /\ UNCHANGED <<submitted, waiting>>

Next == \E k \in Key : Start(k) \/ Finish(k) \/ \E t \in SerialTask : Submit(t, k)

Spec == Init /\ [][Next]_vars

=============================================================================
