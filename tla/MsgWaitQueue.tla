---------------------------- MODULE MsgWaitQueue ----------------------------
(***************************************************************************)
(* Message wait queue (src/libnetxms/msgwq.cpp).  A receiver puts messages *)
(* into the queue, threads wait for a message with a given code and        *)
(* request ID.  A message that nobody waits for stays in the queue until   *)
(* it is claimed or expires; a message that somebody waits for is handed   *)
(* over through the waiter's entry in the list of waiters.  The wait       *)
(* itself and the look at the entry after it are done without the lock.    *)
(***************************************************************************)
EXTENDS Integers, Sequences, SequencesExt

CONSTANTS
    Client,         \* threads that wait for messages
    None            \* null pointer

VARIABLES
    unclaimed,      \* unclaimed messages, oldest first
    waiters,        \* list of waiters, newest first
    want,           \* code and id in the WaitQueueWaiter of every thread
    slot,           \* msg in it
    pc,             \* what every thread does
    result          \* what waitForMessage has returned or is going to return

queueVars == <<unclaimed, waiters, want, slot, pc, result>>

Matches(m, k) == m.code = k.code /\ m.id = k.id

QueueInit ==
    /\ unclaimed = <<>> /\ waiters = <<>>
    /\ want = [c \in Client |-> None] /\ slot = [c \in Client |-> None]
    /\ result = [c \in Client |-> None]
    /\ pc = [c \in Client |-> "idle"]

\* put, under the lock: the n oldest messages have expired; the message goes to the
\* first waiter that matches, which leaves the list, or else to the unclaimed messages
Put(m, n) ==
    LET kept == SubSeq(unclaimed, n + 1, Len(unclaimed))
        i == SelectInSeq(waiters, LAMBDA c : Matches(m, want[c]))
    IN /\ IF i # 0
          THEN /\ slot' = [slot EXCEPT ![waiters[i]] = m]
               /\ waiters' = RemoveAt(waiters, i)
               /\ unclaimed' = kept
          ELSE unclaimed' = Append(kept, m) /\ UNCHANGED <<slot, waiters>>
       /\ UNCHANGED <<want, pc, result>>

\* Mutant: a message that is already there is not looked for
BugWaitBegin(c, k) ==
    /\ want' = [want EXCEPT ![c] = k]
    /\ slot' = [slot EXCEPT ![c] = None]
    /\ waiters' = <<c>> \o waiters
    /\ pc' = [pc EXCEPT ![c] = "blocked"]
    /\ UNCHANGED <<unclaimed, result>>

\* waitForMessage, first part, under the lock: claim the oldest message that matches,
\* or register as a waiter
WaitBegin(c, k) ==
    LET i == SelectInSeq(unclaimed, LAMBDA m : Matches(m, k))
    IN \/ /\ i # 0
          /\ result' = [result EXCEPT ![c] = unclaimed[i]]
          /\ unclaimed' = RemoveAt(unclaimed, i)
          /\ pc' = [pc EXCEPT ![c] = "returned"]
          /\ UNCHANGED <<waiters, want, slot>>
       \/ /\ i = 0
          /\ want' = [want EXCEPT ![c] = k]
          /\ slot' = [slot EXCEPT ![c] = None]
          /\ waiters' = <<c>> \o waiters
          /\ pc' = [pc EXCEPT ![c] = "blocked"]
          /\ UNCHANGED <<unclaimed, result>>

\* The wait ends because a message has come or because of the timeout; the entry is
\* read without the lock
WaitEnd(c) ==
    /\ pc[c] = "blocked"
    /\ result' = [result EXCEPT ![c] = slot[c]]
    /\ pc' = [pc EXCEPT ![c] = "leaving"]
    /\ UNCHANGED <<unclaimed, waiters, want, slot>>

\* Mutant: only a waiter that got a message is taken out of the list
BugWaitLeave(c) ==
    /\ pc[c] = "leaving"
    /\ waiters' = IF slot[c] = None THEN waiters ELSE RemoveFirst(waiters, c)
    /\ want' = [want EXCEPT ![c] = None]
    /\ slot' = [slot EXCEPT ![c] = None]
    /\ pc' = [pc EXCEPT ![c] = "returned"]
    /\ UNCHANGED <<unclaimed, result>>

\* Under the lock again: the waiter leaves the list, if it is still there, and is
\* destroyed.  A message that came in since the entry was read goes with it.
WaitLeave(c) ==
    /\ pc[c] = "leaving"
    /\ waiters' = RemoveFirst(waiters, c)
    /\ want' = [want EXCEPT ![c] = None]
    /\ slot' = [slot EXCEPT ![c] = None]
    /\ pc' = [pc EXCEPT ![c] = "returned"]
    /\ UNCHANGED <<unclaimed, result>>

-----------------------------------------------------------------------------
\* A thread is never left waiting while a message for it is in the queue: the search of
\* waitForMessage and the search of put cannot miss each other.
NoMissedMatch ==
    \A i \in 1..Len(unclaimed), j \in 1..Len(waiters) : ~Matches(unclaimed[i], want[waiters[j]])

\* The list of waiters holds no entry that has been destroyed and none twice, although
\* entries are taken out both by put and by the thread itself; an entry that has been
\* given a message is not in the list any more.
WaitersAlive ==
    /\ \A i, j \in 1..Len(waiters) : waiters[i] = waiters[j] => i = j
    /\ \A i \in 1..Len(waiters) : pc[waiters[i]] \in {"blocked", "leaving"} /\ slot[waiters[i]] = None

=============================================================================
