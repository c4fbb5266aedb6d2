--------------------------- MODULE ConnectionPool ---------------------------
(***************************************************************************)
(* Database connection pool (src/db/libnxdb/dbcp.cpp).  Threads acquire    *)
(* and release connections, the maintenance thread closes connections that *)
(* are not needed and reconnects old ones, an operator may reset the pool. *)
(* A connection is reconnected without the lock, and in between its entry  *)
(* names a handle that has been deleted.  Memory of removed entries and    *)
(* deleted handles may be used again, so both are identified by their      *)
(* addresses.  Usage counters and times are left out: where the code looks *)
(* at them, any choice is possible.                                        *)
(***************************************************************************)
EXTENDS Integers, Sequences, FiniteSets, SequencesExt

CONSTANTS
    Thread,         \* threads that use the database
    Maint,          \* the maintenance thread
    Addresses,      \* number of addresses for entries of the pool
    Sessions,       \* number of addresses for handles, and of sessions the server allows
    BasePoolSize,   \* m_basePoolSize
    MaxPoolSize,    \* m_maxPoolSize
    MaxAcquires,    \* bound: calls of DBConnectionPoolAcquireConnection
    MaxFailures,    \* bound: failed connection attempts
    MaxRounds       \* bound: rounds of the maintenance thread and resets of the pool

\* The pool is filled to its base size whatever the maximum is
Limit == IF BasePoolSize > MaxPoolSize THEN BasePoolSize ELSE MaxPoolSize

ASSUME SizeAssumption ==
    /\ BasePoolSize \in Nat \ {0} /\ MaxPoolSize \in Int
    /\ Addresses \in Nat /\ Addresses >= Limit /\ Sessions \in Nat /\ Sessions >= Limit
    /\ MaxAcquires \in Nat /\ MaxFailures \in Nat /\ MaxRounds \in Nat
    /\ Maint \notin Thread

\* Addresses of PoolConnectionInfo
Connection == 1..Addresses
Worker == Thread \cup {Maint}
Handle == 1..Sessions     \* addresses of db_handle_t
Null == 0           \* null handle

VARIABLES
    pool,           \* m_connections
    inUse,          \* fields of the entries
    resetOnRelease,
    handle,
    open,           \* handles that exist, each of an open session
    pc,             \* what every thread does
    held,           \* handle a thread has acquired
    work,           \* entry a thread reconnects, the index it has for it, and the result
    reconnList,     \* entries the maintenance thread has still to reconnect
    acquires, failures, rounds, \* counters for the bounds
    misremoved,     \* history: the wrong entry was removed after a failed reconnect
    aliased         \* history: a new handle was made at the address of a deleted one that
                    \* an entry, being reconnected by another thread, still names

entryVars == <<pool, inUse, resetOnRelease, handle, open>>
vars == <<pool, inUse, resetOnRelease, handle, open, pc, held, work, reconnList, acquires, failures,
          rounds, misremoved, aliased>>

NoWork == [conn |-> Null, index |-> 0, ok |-> FALSE]
Entries == Range(pool)
Idle == {c \in Entries : ~inUse[c]}
\* DBConnect: a session more, and a handle for it at any address that is free
NewHandle == Handle \ open
\* An attempt that fails; the server refuses one when it has no free session
ConnectFails ==
    \/ failures < MaxFailures /\ failures' = failures + 1
    \/ NewHandle = {} /\ UNCHANGED failures
\* Handles that threads of W have deleted and not replaced yet
Dangling(W) == {handle[work[w].conn] : w \in {v \in W : pc[v] = "connect"}}

\* DBConnectionPoolPopulate with at least one success
Init ==
    /\ \E n \in 1..BasePoolSize :
          /\ pool = [i \in 1..n |-> i]
          /\ handle = [c \in Connection |-> IF c <= n THEN c ELSE Null]
          /\ open = 1..n
    /\ inUse = [c \in Connection |-> FALSE] /\ resetOnRelease = [c \in Connection |-> FALSE]
    /\ pc = [w \in Worker |-> "idle"] /\ held = [t \in Thread |-> Null]
    /\ work = [w \in Worker |-> NoWork] /\ reconnList = {}
    /\ acquires = 0 /\ failures = 0 /\ rounds = 0
    /\ misremoved = FALSE /\ aliased = FALSE

-----------------------------------------------------------------------------
(* DBConnectionPoolAcquireConnection *)

Begin(t) ==
    /\ pc[t] = "idle" /\ acquires < MaxAcquires
    /\ acquires' = acquires + 1
    /\ pc' = [pc EXCEPT ![t] = "acquire"]
    /\ UNCHANGED <<entryVars, held, work, reconnList, failures, rounds, misremoved, aliased>>

\* An idle connection; the call is repeated if its handle turns out to be null
AcquireIdle(t) ==
    /\ pc[t] = "acquire"
    /\ \E c \in Idle :
          /\ inUse' = [inUse EXCEPT ![c] = TRUE]
          /\ held' = [held EXCEPT ![t] = handle[c]]
          /\ pc' = [pc EXCEPT ![t] = IF handle[c] # Null THEN "hold" ELSE "acquire"]
    /\ UNCHANGED <<pool, resetOnRelease, handle, open, work, reconnList, acquires, failures, rounds, misremoved, aliased>>

\* Mutant: the size of the pool is not looked at
BugMayGrow == Idle = {}

\* No connection is idle, and one more is allowed
MayGrow == Idle = {} /\ Len(pool) < MaxPoolSize

\* Mutant: nobody looks whether the attempt has failed
BugAcquireNew(t) ==
    /\ pc[t] = "acquire" /\ MayGrow
    /\ ConnectFails
    /\ pc' = [pc EXCEPT ![t] = "hold"]
    /\ UNCHANGED <<entryVars, held, work, reconnList, acquires, rounds, misremoved, aliased>>

\* One more connection.  If that fails, or if there can be no more, the thread waits for
\* a release, but at most for 10 seconds, and tries again.
AcquireNew(t) ==
    /\ pc[t] = "acquire" /\ MayGrow
    /\ \/ /\ \E c \in Connection \ Entries, h \in NewHandle :
                /\ pool' = Append(pool, c)
                /\ inUse' = [inUse EXCEPT ![c] = TRUE]
                /\ resetOnRelease' = [resetOnRelease EXCEPT ![c] = FALSE]
                /\ handle' = [handle EXCEPT ![c] = h]
                /\ open' = open \cup {h}
                /\ held' = [held EXCEPT ![t] = h]
                /\ aliased' = (aliased \/ h \in Dangling(Worker))
          /\ pc' = [pc EXCEPT ![t] = "hold"]
          /\ UNCHANGED failures
       \/ ConnectFails /\ UNCHANGED <<entryVars, held, pc, aliased>>
    /\ UNCHANGED <<work, reconnList, acquires, rounds, misremoved>>

-----------------------------------------------------------------------------
(* DBConnectionPoolReleaseConnection *)

\* Mutant: the entry is given back before it is reconnected
BugReleaseFound(t, i) ==
    /\ inUse' = [inUse EXCEPT ![pool[i]] = FALSE]
    /\ IF resetOnRelease[pool[i]]
       THEN /\ work' = [work EXCEPT ![t] = [conn |-> pool[i], index |-> i, ok |-> FALSE]]
            /\ pc' = [pc EXCEPT ![t] = "reset"]
       ELSE /\ pc' = [pc EXCEPT ![t] = "idle"]
            /\ UNCHANGED work

\* The entry of the handle is at index i: it becomes idle, or has to be reconnected first
ReleaseFound(t, i) ==
    IF resetOnRelease[pool[i]]
    THEN /\ work' = [work EXCEPT ![t] = [conn |-> pool[i], index |-> i, ok |-> FALSE]]
         /\ pc' = [pc EXCEPT ![t] = "reset"]
         /\ UNCHANGED inUse
    ELSE /\ inUse' = [inUse EXCEPT ![pool[i]] = FALSE]
         /\ pc' = [pc EXCEPT ![t] = "idle"]
         /\ UNCHANGED work

\* The first locked section
Release(t) ==
    LET found == {i \in 1..Len(pool) : handle[pool[i]] = held[t]}
    IN /\ pc[t] = "hold"
       /\ \/ /\ found # {}
             /\ ReleaseFound(t, CHOOSE i \in found : \A j \in found : i <= j)
          \/ /\ found = {}
             /\ pc' = [pc EXCEPT ![t] = "idle"]
             /\ UNCHANGED <<inUse, work>>
       /\ held' = [held EXCEPT ![t] = Null]
       /\ UNCHANGED <<pool, resetOnRelease, handle, open, reconnList, acquires, failures, rounds, misremoved, aliased>>

\* ResetConnection, by a releasing thread or the maintenance thread, without the lock: the
\* handle is deleted, and the entry goes on naming it
ResetConnection(w) ==
    /\ pc[w] = "reset"
    /\ open' = open \ {handle[work[w].conn]}
    /\ pc' = [pc EXCEPT ![w] = "connect"]
    /\ UNCHANGED <<pool, inUse, resetOnRelease, handle, held, work, reconnList, acquires, failures, rounds,
                   misremoved, aliased>>

\* The rest of ResetConnection: the new session, or none
Reconnect(w) ==
    LET c == work[w].conn
    IN /\ pc[w] = "connect"
       /\ \/ \E h \in NewHandle :
                /\ handle' = [handle EXCEPT ![c] = h]
                /\ open' = open \cup {h}
                /\ work' = [work EXCEPT ![w].ok = TRUE]
                /\ aliased' = (aliased \/ h \in Dangling(Worker \ {w}))
                /\ UNCHANGED failures
          \/ /\ ConnectFails
             /\ handle' = [handle EXCEPT ![c] = Null]
             /\ UNCHANGED <<open, work, aliased>>
       /\ resetOnRelease' = [resetOnRelease EXCEPT ![c] = FALSE]
       /\ pc' = [pc EXCEPT ![w] = "relock"]
       /\ UNCHANGED <<pool, inUse, held, reconnList, acquires, rounds, misremoved>>

\* Mutant: an entry that could not be reconnected stays in the pool
BugReleaseEnd(t) ==
    /\ pc[t] = "relock"
    /\ inUse' = [inUse EXCEPT ![work[t].conn] = ~work[t].ok]
    /\ work' = [work EXCEPT ![t] = NoWork]
    /\ pc' = [pc EXCEPT ![t] = "idle"]
    /\ UNCHANGED <<pool, resetOnRelease, handle, open, held, reconnList, acquires, failures, rounds, misremoved, aliased>>

\* The second locked section: after a failure the entry at the index found before is
\* removed, if there is one
ReleaseEnd(t) ==
    LET c == work[t].conn
        i == work[t].index
    IN /\ pc[t] = "relock"
       /\ \/ /\ work[t].ok
             /\ inUse' = [inUse EXCEPT ![c] = FALSE]
             /\ UNCHANGED <<pool, misremoved>>
          \/ /\ ~work[t].ok
             /\ pool' = IF i <= Len(pool) THEN RemoveAt(pool, i) ELSE pool
             /\ misremoved' = (misremoved \/ i > Len(pool) \/ pool[i] # c)
             /\ UNCHANGED inUse
       /\ work' = [work EXCEPT ![t] = NoWork]
       /\ pc' = [pc EXCEPT ![t] = "idle"]
       /\ UNCHANGED <<resetOnRelease, handle, open, held, reconnList, acquires, failures, rounds, aliased>>

-----------------------------------------------------------------------------
(* Maintenance thread and reset of the pool *)

\* The pool without the entries of S, in the same order
Without(S) ==
    LET kept == {i \in 1..Len(pool) : pool[i] \notin S}
        nth(k) == CHOOSE i \in kept : Cardinality({j \in kept : j <= i}) = k
    IN [k \in 1..Cardinality(kept) |-> pool[nth(k)]]
HandlesOf(S) == {handle[c] : c \in S}

\* Entries above the base size that are idle
MayShrink == {pool[i] : i \in (BasePoolSize + 1)..Len(pool)} \cap Idle

\* DBConnectionPoolShrink: those of them that have not been used for some time
Shrink ==
    /\ pc[Maint] = "idle" /\ rounds < MaxRounds /\ rounds' = rounds + 1
    /\ \E S \in SUBSET MayShrink :
          /\ pool' = Without(S)
          /\ open' = open \ HandlesOf(S)
    /\ pc' = [pc EXCEPT ![Maint] = "expire"]
    /\ UNCHANGED <<inUse, resetOnRelease, handle, held, work, reconnList, acquires, failures, misremoved, aliased>>

\* ResetExpiredConnections, the first locked section: old idle connections, but not many
\* more than half of them, are taken out of use
Expire ==
    /\ pc[Maint] = "expire"
    /\ \E S \in SUBSET Idle :
          /\ Cardinality(S) <= (Cardinality(Idle) \div 2) + 1
          /\ reconnList' = S
          /\ inUse' = [c \in Connection |-> inUse[c] \/ c \in S]
    /\ pc' = [pc EXCEPT ![Maint] = "next"]
    /\ UNCHANGED <<pool, resetOnRelease, handle, open, held, work, acquires, failures, rounds, misremoved, aliased>>

MaintNext ==
    /\ pc[Maint] = "next"
    /\ \/ /\ reconnList = {}
          /\ pc' = [pc EXCEPT ![Maint] = "idle"]
          /\ UNCHANGED <<work, reconnList>>
       \/ \E c \in reconnList :
             /\ work' = [work EXCEPT ![Maint] = [conn |-> c, index |-> 0, ok |-> FALSE]]
             /\ reconnList' = reconnList \ {c}
             /\ pc' = [pc EXCEPT ![Maint] = "reset"]
    /\ UNCHANGED <<entryVars, held, acquires, failures, rounds, misremoved, aliased>>

\* Mutant: the result of the reconnect is not looked at
BugMaintEnd ==
    /\ pc[Maint] = "relock"
    /\ inUse' = [inUse EXCEPT ![work[Maint].conn] = FALSE]
    /\ work' = [work EXCEPT ![Maint] = NoWork]
    /\ pc' = [pc EXCEPT ![Maint] = "next"]
    /\ UNCHANGED <<pool, resetOnRelease, handle, open, held, reconnList, acquires, failures, rounds, misremoved, aliased>>

\* ResetExpiredConnections after a reconnect; the entry is removed by its address
MaintEnd ==
    LET c == work[Maint].conn
    IN /\ pc[Maint] = "relock"
       /\ \/ /\ work[Maint].ok
             /\ inUse' = [inUse EXCEPT ![c] = FALSE]
             /\ UNCHANGED pool
          \/ /\ ~work[Maint].ok
             /\ pool' = Without({c})
             /\ UNCHANGED inUse
       /\ work' = [work EXCEPT ![Maint] = NoWork]
       /\ pc' = [pc EXCEPT ![Maint] = "next"]
       /\ UNCHANGED <<resetOnRelease, handle, open, held, reconnList, acquires, failures, rounds, misremoved, aliased>>

\* DBConnectionPoolReset marks the connections that are in use
Marked == [c \in Connection |-> IF c \in Entries THEN inUse[c] ELSE resetOnRelease[c]]

Before(c, d) == \E i, j \in 1..Len(pool) : pool[i] = c /\ pool[j] = d /\ i < j

\* DBConnectionPoolReset, all of it under the lock: the first idle connections are closed
\* until the pool is down to its base size, the others are reconnected one after the other,
\* those of S in vain.  A new handle may take the address of one deleted before it.
Reset ==
    LET excess == {c \in Idle : Cardinality({d \in Idle : Before(d, c)}) < Len(pool) - BasePoolSize}
        left == open \ HandlesOf(Idle)
    IN /\ rounds < MaxRounds /\ rounds' = rounds + 1
       /\ \E S \in SUBSET (Idle \ excess) : \E new \in [Idle \ (excess \cup S) -> Handle \ left] :
             /\ failures + Cardinality(S) <= MaxFailures
             /\ failures' = failures + Cardinality(S)
             /\ \A c \in DOMAIN new : \A d \in Idle :
                   (d \in DOMAIN new /\ new[d] = new[c] => d = c) /\ (Before(c, d) => new[c] # handle[d])
             /\ pool' = Without(excess \cup S)
             /\ handle' = [c \in Connection |-> IF c \in DOMAIN new THEN new[c] ELSE handle[c]]
             /\ open' = left \cup Range(new)
             /\ aliased' = (aliased \/ Range(new) \cap Dangling(Worker) # {})
       /\ resetOnRelease' = Marked
       /\ UNCHANGED <<inUse, pc, held, work, reconnList, acquires, misremoved>>

Next ==
    \/ \E t \in Thread : Begin(t) \/ AcquireIdle(t) \/ AcquireNew(t) \/ Release(t) \/ ReleaseEnd(t)
    \/ \E w \in Worker : ResetConnection(w) \/ Reconnect(w)
    \/ Shrink \/ Expire \/ MaintNext \/ MaintEnd \/ Reset

Spec == Init /\ [][Next]_vars

\* Every thread goes on: one that waits tries again, one that has a connection releases it
\* after a while, and a connection attempt returns.
FairSpec ==
    /\ Spec
    /\ \A t \in Thread : WF_vars(AcquireIdle(t) \/ AcquireNew(t)) /\ WF_vars(Release(t)) /\ WF_vars(ReleaseEnd(t))
    /\ \A w \in Worker : WF_vars(ResetConnection(w)) /\ WF_vars(Reconnect(w))
    /\ WF_vars(Expire) /\ WF_vars(MaintNext) /\ WF_vars(MaintEnd)

-----------------------------------------------------------------------------
(* Properties *)

\* Every variable has its type, and DBConnectionPoolAcquireConnection never returns a null
\* handle.
TypeOK ==
    /\ pool \in Seq(Connection) /\ inUse \in [Connection -> BOOLEAN]
    /\ resetOnRelease \in [Connection -> BOOLEAN] /\ handle \in [Connection -> Handle \cup {Null}]
    /\ open \subseteq Handle
    /\ pc \in [Worker -> {"idle", "acquire", "hold", "reset", "connect", "relock", "expire", "next"}]
    /\ held \in [Thread -> Handle \cup {Null}]
    /\ work \in [Worker -> [conn : Connection, index : 0..Limit, ok : BOOLEAN] \cup {NoWork}]
    /\ reconnList \subseteq Connection
    /\ acquires \in 0..MaxAcquires /\ failures \in 0..MaxFailures /\ rounds \in 0..MaxRounds
    /\ misremoved \in BOOLEAN /\ aliased \in BOOLEAN
    /\ \A t \in Thread : pc[t] = "hold" => held[t] # Null

Holding == {t \in Thread : pc[t] = "hold"}
Resetting == {w \in Worker : pc[w] \in {"reset", "connect", "relock"}}
\* The two mistakes the code can make have not been made
Unmistaken == ~misremoved /\ ~aliased

\* Two threads never use the same database session, although sessions are replaced
\* without the lock: every thread that holds a connection has an open session of its own,
\* and exactly one entry of the pool, marked as in use and reconnected by nobody, is
\* there to give it back to.  So it is until DBConnectionPoolReleaseConnection removes a
\* wrong entry after a failed reconnect (line 407), or a new handle gets the address of
\* one that another thread has deleted in ResetConnection and not replaced yet.
SessionExclusive ==
    Unmistaken => \A t \in Holding :
        /\ held[t] \in open
        /\ \A u \in Holding : held[u] = held[t] => u = t
        /\ \E c \in Entries :
              /\ \A d \in Entries : handle[d] = held[t] <=> d = c
              /\ inUse[c] /\ c \notin reconnList
              /\ \A w \in Resetting : work[w].conn # c

\* The pool never has more entries than the larger of m_basePoolSize and m_maxPoolSize;
\* until one of the two mistakes is made, it knows every session that is open, and there
\* are no more of them than that.
SessionsBounded ==
    /\ Len(pool) <= Limit
    /\ Unmistaken => open \subseteq {handle[c] : c \in Entries} /\ Cardinality(open) <= Limit

\* No place in the pool is lost, until one of the two mistakes is made: an entry marked as
\* in use belongs to a thread that will give it back or reconnects it, or it is on the
\* list of the maintenance thread.
NoLostPlace ==
    Unmistaken => \A c \in Entries : inUse[c] =>
        \/ \E t \in Holding : held[t] = handle[c]
        \/ c \in reconnList
        \/ \E w \in Resetting : work[w].conn = c

\* A thread that asks for a connection gets one, once the failures of the database have
\* an end, even when wrong entries were removed or released: the pool never wears out.
AcquireReturns == \A t \in Thread : pc[t] = "acquire" ~> pc[t] = "hold"

=============================================================================
