------------------------ MODULE ConnectionPoolProofs ------------------------
(***************************************************************************)
(* Proofs about the database connection pool for any number of threads,    *)
(* any sizes of the pool and any number of failures: an acquired handle is *)
(* never null, and until the wrong entry was removed after a failed        *)
(* reconnect, or a new handle was made at the address of one that another  *)
(* thread has deleted and not replaced yet, two threads never share a      *)
(* session, sessions are not leaked and no place of the pool is lost.      *)
(*                                                                         *)
(* None of the three is inductive alone.  What keeps them is an ownership  *)
(* discipline that no lock enforces: an entry is idle, or lent to one      *)
(* thread, or waiting to be reconnected, or being reconnected by one       *)
(* thread, and only an entry that is lent or idle has a session for        *)
(* certain; one that is being reconnected may name a deleted handle.  The  *)
(* parts of Sound below say that.                                          *)
(***************************************************************************)
EXTENDS ConnectionPool, SequenceLemmas, FiniteSetTheorems

\* An address is in the pool once
EntriesDistinct == \A i, j \in 1..Len(pool) : pool[i] = pool[j] => i = j

\* A thread that reconnects an entry has its address, and the index it found it at
WorkKnown == \A w \in Resetting :
    /\ work[w].conn \in Connection
    /\ w \in Thread => work[w].index >= 1

\* The maintenance thread starts a round with an empty list
RoundOver == pc[Maint] \in {"idle", "expire"} => reconnList = {}

\* What holds in every state
Base ==
    /\ TypeOK /\ EntriesDistinct /\ Len(pool) <= Limit
    /\ WorkKnown /\ RoundOver

\* Entries do not share handles, their handles exist unless they are being reconnected,
\* and no other handle does
HandlesDistinct == \A c, d \in Entries : handle[c] = handle[d] /\ handle[c] # Null => c = d
HandlesOpen == \A c \in Entries : handle[c] # Null =>
    handle[c] \in open \/ \E w \in Resetting : pc[w] = "connect" /\ work[w].conn = c
OpenKnown == open \subseteq {handle[c] : c \in Entries}

\* An idle entry has a session
IdleConnected == \A c \in Entries : ~inUse[c] => handle[c] # Null

\* An entry that waits to be reconnected is in the pool and not idle
ListInUse == \A c \in reconnList : c \in Entries /\ inUse[c]

\* An entry that is reconnected is in the pool, not idle, and belongs to one thread
ResetExclusive == \A w \in Resetting :
    /\ work[w].conn \in Entries /\ inUse[work[w].conn] /\ work[w].conn \notin reconnList
    /\ \A v \in Resetting : work[v].conn = work[w].conn => v = w

\* A thread that reconnects knows whether the entry has a session
ResultKnown == \A w \in Resetting :
    /\ pc[w] \in {"reset", "connect"} => ~work[w].ok
    /\ pc[w] = "connect" => handle[work[w].conn] \notin open
    /\ pc[w] = "relock" => (work[w].ok <=> handle[work[w].conn] # Null)

\* What holds until a wrong entry is removed or a handle is made at a dangling address
Sound ==
    /\ HandlesDistinct /\ HandlesOpen /\ OpenKnown /\ IdleConnected
    /\ ListInUse /\ ResetExclusive /\ ResultKnown
    /\ SessionExclusive /\ NoLostPlace

\* The inductive invariant
IInv == Base /\ (Unmistaken => Sound)

-----------------------------------------------------------------------------
(* The operators on the pool *)

\* The larger of the two sizes bounds the pool.
LEMMA LimitKnown ==
    /\ Limit \in Nat /\ BasePoolSize \in Nat /\ BasePoolSize <= Limit
    /\ MaxPoolSize \in Int /\ MaxPoolSize <= Limit
    /\ Limit <= Addresses /\ Limit <= Sessions
BY SizeAssumption DEF Limit

\* Entries are the elements of the list.
LEMMA EntriesIndexed ==
    ASSUME NEW s \in Seq(Connection)
    PROVE  /\ Range(s) = {s[i] : i \in 1..Len(s)}
           /\ Range(s) \subseteq Connection
BY LenProperties, ElementOfSeq DEF Range

\* The pool without some entries: nothing else is lost, and none is there twice.
LEMMA WithoutProperties ==
    ASSUME NEW S, pool \in Seq(Connection), EntriesDistinct
    PROVE  LET s == Without(S)
           IN /\ s \in Seq(Connection)
              /\ Len(s) <= Len(pool)
              /\ Range(s) = Entries \ S
              /\ \A i, j \in 1..Len(s) : s[i] = s[j] => i = j
<1> DEFINE kept == {i \in 1..Len(pool) : pool[i] \notin S}
           upTo(i) == {j \in kept : j <= i}
           n == Cardinality(kept)
           nth(k) == CHOOSE i \in kept : Cardinality(upTo(i)) = k
           rank == [i \in kept |-> Cardinality(upTo(i))]
           s == [k \in 1..n |-> pool[nth(k)]]
<1>1. Len(pool) \in Nat /\ \A i \in 1..Len(pool) : pool[i] \in Connection
    BY LenProperties, ElementOfSeq
<1>2. IsFiniteSet(kept) /\ n <= Len(pool) /\ n \in Nat
    <2>1. IsFiniteSet(1..Len(pool)) /\ Cardinality(1..Len(pool)) = Len(pool)
        <3>1. PICK l \in Nat : l = Len(pool)
            BY <1>1
        <3>2. IsFiniteSet(1..l) /\ Cardinality(1..l) = IF 1 > l THEN 0 ELSE l - 1 + 1
            BY FS_Interval
        <3>3. Cardinality(1..l) = l
            BY <3>2
        <3> QED BY <3>1, <3>2, <3>3
    <2>2. kept \in SUBSET (1..Len(pool))
        OBVIOUS
    <2> QED BY <2>1, <2>2, FS_Subset, FS_CardinalityType
<1>3. \A i \in kept : IsFiniteSet(upTo(i)) /\ Cardinality(upTo(i)) \in 1..n
    <2> TAKE i \in kept
    <2>1. upTo(i) \in SUBSET kept /\ i \in upTo(i)
        BY <1>1
    <2>2. IsFiniteSet(upTo(i)) /\ Cardinality(upTo(i)) <= n
        BY <1>2, <2>1, FS_Subset
    <2>3. Cardinality(upTo(i)) # 0 /\ Cardinality(upTo(i)) \in Nat
        BY <2>1, <2>2, FS_EmptySet, FS_CardinalityType
    <2> QED BY <1>2, <2>2, <2>3
<1>4. \A i, j \in kept : Cardinality(upTo(i)) = Cardinality(upTo(j)) => i = j
    <2>1. \A i, j \in kept : i < j => Cardinality(upTo(i)) # Cardinality(upTo(j))
        <3> SUFFICES ASSUME NEW i \in kept, NEW j \in kept, i < j,
                            Cardinality(upTo(i)) = Cardinality(upTo(j))
                     PROVE  FALSE
            OBVIOUS
        <3>1. upTo(i) \in SUBSET upTo(j)
            BY <1>1
        <3>2. upTo(i) = upTo(j)
            BY <1>3, <3>1, FS_Subset
        <3>3. j \in upTo(j) /\ j \notin upTo(i)
            BY <1>1
        <3> QED BY <3>2, <3>3
    <2>2. kept \subseteq Int
        BY <1>1
    <2> QED BY <2>1, <2>2
<1>5. \A k \in 1..n : \E i \in kept : Cardinality(upTo(i)) = k
    <2> HIDE DEF kept, upTo, n
    <2>1. rank \in Injection(kept, 1..n)
        BY <1>3, <1>4 DEF Injection, IsInjective
    <2> HIDE DEF rank
    <2>2. IsFiniteSet(1..n) /\ Cardinality(1..n) = n
        BY <1>2, FS_Interval
    <2>3. rank \in Surjection(kept, 1..n)
        BY <2>1, <2>2, FS_Injection DEF n
    <2> QED BY <2>3 DEF Surjection, rank
<1>6. \A k \in 1..n : nth(k) \in kept /\ Cardinality(upTo(nth(k))) = k
    <2> HIDE DEF kept, upTo, n
    <2> QED BY <1>5
<1>7. \A i \in kept : nth(Cardinality(upTo(i))) = i
    <2> HIDE DEF nth, kept, n, upTo
    <2> QED BY <1>3, <1>4, <1>6
<1>8. kept \subseteq 1..Len(pool) /\ \A i \in 1..Len(pool) : i \in kept <=> pool[i] \notin S
    OBVIOUS
<1>9. Without(S) = s
    BY DEF Without
<1> HIDE DEF kept, n, upTo, nth
<1>10. \A k \in 1..n : s[k] = pool[nth(k)] /\ nth(k) \in 1..Len(pool) /\ s[k] \in Connection
    BY <1>1, <1>6, <1>8
<1>11. s \in Seq(Connection) /\ Len(s) = n
    BY <1>2, <1>10
<1>12. \A i, j \in 1..Len(s) : s[i] = s[j] => i = j
    <2>1. \A i, j \in 1..n : nth(i) = nth(j) => i = j
        BY <1>6
    <2>2. \A i, j \in 1..n : s[i] = s[j] => nth(i) = nth(j)
        BY <1>10 DEF EntriesDistinct
    <2> QED BY <1>11, <2>1, <2>2
<1>13. Range(s) = Entries \ S
    <2>1. Range(s) = {s[k] : k \in 1..n} /\ Entries = {pool[i] : i \in 1..Len(pool)}
        BY <1>11, EntriesIndexed DEF Entries
    <2>2. \A k \in 1..n : s[k] \in Entries \ S
        BY <1>6, <1>8, <1>10, <2>1
    <2>3. ASSUME NEW c \in Entries \ S PROVE c \in Range(s)
        <3>1. PICK i \in 1..Len(pool) : c = pool[i]
            BY <2>1
        <3>2. i \in kept
            BY <1>8, <3>1
        <3>3. Cardinality(upTo(i)) \in 1..n /\ s[Cardinality(upTo(i))] = c
            BY <1>3, <1>7, <1>10, <3>1, <3>2
        <3> QED BY <2>1, <3>3
    <2> QED BY <2>1, <2>2, <2>3
<1> QED BY <1>2, <1>9, <1>11, <1>12, <1>13

\* The pool without the entry at an index.
LEMMA RemovedAt ==
    ASSUME NEW i \in 1..Len(pool), pool \in Seq(Connection), EntriesDistinct
    PROVE  LET s == RemoveAt(pool, i)
           IN /\ s \in Seq(Connection)
              /\ Len(s) <= Len(pool)
              /\ Range(s) = Entries \ {pool[i]}
              /\ \A j, k \in 1..Len(s) : s[j] = s[k] => j = k
<1> DEFINE s == RemoveAt(pool, i)
<1>1. /\ s \in Seq(Connection) /\ Len(s) = Len(pool) - 1 /\ Len(pool) \in Nat
      /\ \A j \in 1..(Len(pool) - 1) : s[j] = IF j < i THEN pool[j] ELSE pool[j + 1]
    BY RemoveAtProperties, LenProperties
<1> HIDE DEF s
<1>2. Range(s) = {s[k] : k \in 1..Len(s)} /\ Entries = {pool[k] : k \in 1..Len(pool)}
    BY <1>1, EntriesIndexed DEF Entries
<1>3. \A j, k \in 1..Len(s) : s[j] = s[k] => j = k
    BY <1>1 DEF EntriesDistinct
<1>4. \A k \in 1..Len(s) : s[k] \in Entries \ {pool[i]}
    BY <1>1, <1>2 DEF EntriesDistinct
<1>5. ASSUME NEW c \in Entries \ {pool[i]} PROVE c \in Range(s)
    <2>1. PICK k \in 1..Len(pool) : c = pool[k]
        BY <1>2
    <2>2. CASE k < i
        BY <1>1, <1>2, <2>1, <2>2
    <2>3. CASE k > i
        <3>1. k - 1 \in 1..Len(s) /\ s[k - 1] = pool[k]
            BY <1>1, <2>3
        <3> QED BY <1>2, <2>1, <3>1
    <2> QED BY <2>1, <2>2, <2>3
<1>6. Range(s) = Entries \ {pool[i]}
    BY <1>2, <1>4, <1>5
<1> QED BY <1>1, <1>3, <1>6 DEF s

\* The pool with a new entry at its end.
LEMMA Appended ==
    ASSUME NEW c \in Connection \ Entries, pool \in Seq(Connection), EntriesDistinct
    PROVE  LET s == Append(pool, c)
           IN /\ s \in Seq(Connection)
              /\ Len(s) = Len(pool) + 1
              /\ Range(s) = Entries \cup {c}
              /\ \A j, k \in 1..Len(s) : s[j] = s[k] => j = k
<1> DEFINE s == Append(pool, c)
<1>1. /\ s \in Seq(Connection) /\ Len(s) = Len(pool) + 1 /\ Len(pool) \in Nat
      /\ \A j \in 1..Len(pool) : s[j] = pool[j]
      /\ s[Len(pool) + 1] = c
    BY AppendProperties, LenProperties
<1> HIDE DEF s
<1>2. Range(s) = {s[k] : k \in 1..Len(s)} /\ Entries = {pool[k] : k \in 1..Len(pool)}
    BY <1>1, EntriesIndexed DEF Entries
<1>3. \A k \in 1..Len(pool) : pool[k] # c
    BY <1>2
<1>4. \A j, k \in 1..Len(s) : s[j] = s[k] => j = k
    <2>1. \A k \in 1..Len(s) : k \in 1..Len(pool) \/ k = Len(pool) + 1
        BY <1>1
    <2> QED BY <1>1, <1>3, <2>1 DEF EntriesDistinct
<1>5. \A k \in 1..Len(s) : s[k] \in Entries \cup {c}
    <2>1. \A k \in 1..Len(s) : k \in 1..Len(pool) \/ k = Len(pool) + 1
        BY <1>1
    <2> QED BY <1>1, <1>2, <2>1
<1>6. ASSUME NEW d \in Entries \cup {c} PROVE d \in Range(s)
    <2>1. CASE d = c
        BY <1>1, <1>2, <2>1
    <2>2. CASE d \in Entries
        <3>1. PICK k \in 1..Len(pool) : d = pool[k]
            BY <1>2, <2>2
        <3>2. k \in 1..Len(s) /\ s[k] = d
            BY <1>1, <3>1
        <3> QED BY <1>2, <3>2
    <2> QED BY <2>1, <2>2
<1>7. Range(s) = Entries \cup {c}
    BY <1>2, <1>5, <1>6
<1> QED BY <1>1, <1>4, <1>7 DEF s

-----------------------------------------------------------------------------
(* The initial states *)

\* The pool is filled with idle entries that have a session each.
LEMMA InitIInv == Init => IInv
<1> SUFFICES ASSUME Init PROVE IInv
    OBVIOUS
<1>1. PICK n \in 1..BasePoolSize :
          /\ pool = [i \in 1..n |-> i]
          /\ handle = [c \in Connection |-> IF c <= n THEN c ELSE Null]
          /\ open = 1..n
    BY DEF Init
<1>2. /\ n \in Nat /\ n <= Limit /\ n <= Addresses /\ n <= Sessions
      /\ 1..n \subseteq Connection /\ 1..n \subseteq Handle
    BY SizeAssumption, LimitKnown DEF Connection, Handle
<1>3. pool \in Seq(Connection) /\ Len(pool) = n /\ \A i \in 1..n : pool[i] = i
    BY <1>1, <1>2
<1>4. Entries = 1..n
    BY <1>3, EntriesIndexed, ZenonT(40) DEF Entries
<1>5. handle \in [Connection -> Handle \cup {Null}] /\ \A c \in 1..n : handle[c] = c
    BY <1>1, <1>2, SizeAssumption, LimitKnown DEF Connection, Handle
<1>6. Holding = {} /\ Resetting = {} /\ pc[Maint] = "idle"
    BY DEF Init, Holding, Resetting, Worker
<1>7. TypeOK
    <2>1. /\ inUse \in [Connection -> BOOLEAN] /\ resetOnRelease \in [Connection -> BOOLEAN]
          /\ pc \in [Worker -> {"idle", "acquire", "hold", "reset", "connect", "relock", "expire", "next"}]
          /\ held \in [Thread -> Handle \cup {Null}]
          /\ work \in [Worker -> [conn : Connection, index : 0..Limit, ok : BOOLEAN] \cup {NoWork}]
        BY DEF Init
    <2>2. acquires \in 0..MaxAcquires /\ failures \in 0..MaxFailures /\ rounds \in 0..MaxRounds
        BY SizeAssumption, LimitKnown DEF Init
    <2>3. reconnList = {} /\ misremoved = FALSE /\ aliased = FALSE /\ open \subseteq Handle
        BY <1>1, <1>2 DEF Init
    <2>4. \A t \in Thread : pc[t] # "hold"
        BY <1>6 DEF Holding
    <2> QED BY <1>3, <1>5, <2>1, <2>2, <2>3, <2>4 DEF TypeOK
<1>8. Base
    BY <1>2, <1>3, <1>6, <1>7 DEF Base, EntriesDistinct, WorkKnown, RoundOver, Init
<1>9. \A c \in Entries : ~inUse[c] /\ handle[c] = c /\ c # Null
    BY <1>2, <1>4, <1>5 DEF Init, Null
<1>10. /\ HandlesDistinct /\ HandlesOpen /\ OpenKnown /\ IdleConnected
       /\ ListInUse /\ ResetExclusive /\ ResultKnown /\ SessionExclusive /\ NoLostPlace
    <2>1. HandlesDistinct /\ HandlesOpen /\ IdleConnected /\ NoLostPlace
        BY <1>1, <1>4, <1>9 DEF HandlesDistinct, HandlesOpen, IdleConnected, NoLostPlace
    <2>2. OpenKnown
        BY <1>1, <1>4, <1>9 DEF OpenKnown
    <2>3. ListInUse /\ ResetExclusive /\ ResultKnown /\ SessionExclusive
        BY <1>6 DEF Init, ListInUse, ResetExclusive, ResultKnown, SessionExclusive
    <2> QED BY <2>1, <2>2, <2>3
<1> QED BY <1>8, <1>10 DEF IInv, Sound

-----------------------------------------------------------------------------
(* Steps of the threads *)

\* A worker is at one place, and a thread is not the maintenance thread.
LEMMA Places ==
    ASSUME TypeOK
    PROVE  /\ Holding \subseteq Thread /\ Resetting \subseteq Worker
           /\ Thread \subseteq Worker /\ Maint \in Worker /\ Maint \notin Thread
           /\ \A t \in Thread : t \in Holding <=> pc[t] = "hold"
           /\ \A w \in Worker : w \in Resetting <=> pc[w] \in {"reset", "connect", "relock"}
           /\ Entries \subseteq Connection /\ Null \notin Handle
           /\ Len(pool) \in Nat
BY SizeAssumption, LimitKnown, EntriesIndexed, LenProperties
DEF TypeOK, Holding, Resetting, Worker, Entries, Null, Handle

\* The invariant depends on no counter, and on no thread that has nothing.
LEMMA NothingMoves ==
    ASSUME IInv, UNCHANGED <<entryVars, held, work, reconnList, misremoved, aliased>>,
           Holding' = Holding, Resetting' = Resetting, \A w \in Resetting : pc'[w] = pc[w]
    PROVE  (Unmistaken => Sound)'
<1> SUFFICES ASSUME Unmistaken' PROVE Sound'
    OBVIOUS
<1>1. Sound /\ Unmistaken /\ Entries' = Entries
    BY DEF IInv, Unmistaken, Entries, entryVars
<1>2. (HandlesDistinct /\ HandlesOpen /\ OpenKnown /\ IdleConnected /\ ListInUse)'
    BY <1>1 DEF entryVars, Sound, HandlesDistinct, HandlesOpen, OpenKnown, IdleConnected, ListInUse
<1>3. (ResetExclusive /\ ResultKnown)'
    BY <1>1 DEF entryVars, Sound, ResetExclusive, ResultKnown
<1>4. SessionExclusive' /\ NoLostPlace'
    BY <1>1 DEF entryVars, Sound, SessionExclusive, NoLostPlace
<1> QED BY <1>2, <1>3, <1>4 DEF Sound

\* A call of DBConnectionPoolAcquireConnection begins.
LEMMA BeginIInv ==
    ASSUME IInv, NEW t \in Thread, Begin(t)
    PROVE  IInv'
<1>1. TypeOK
    BY DEF IInv, Base
<1>2. /\ pc' = [pc EXCEPT ![t] = "acquire"] /\ pc[t] = "idle"
      /\ acquires' = acquires + 1 /\ acquires < MaxAcquires
      /\ UNCHANGED <<entryVars, held, work, reconnList, failures, rounds, misremoved, aliased>>
    BY DEF Begin
<1>3. /\ \A w \in Worker : w # t => pc'[w] = pc[w]
      /\ pc'[t] = "acquire" /\ pc'[Maint] = pc[Maint]
      /\ pc' \in [Worker -> {"idle", "acquire", "hold", "reset", "connect", "relock", "expire", "next"}]
    BY <1>1, <1>2, Places DEF TypeOK
<1>4. Holding' = Holding /\ Resetting' = Resetting /\ \A w \in Resetting : pc'[w] = pc[w]
    BY <1>2, <1>3, <1>1, Places DEF Holding, Resetting
<1>5. TypeOK'
    <2>1. acquires' \in 0..MaxAcquires
        BY <1>1, <1>2, SizeAssumption, LimitKnown DEF TypeOK
    <2> QED BY <1>1, <1>2, <1>3, <2>1, Places DEF TypeOK, entryVars
<1>6. Base'
    BY <1>2, <1>3, <1>4, <1>5 DEF IInv, Base, EntriesDistinct, WorkKnown, RoundOver, entryVars
<1> QED BY <1>2, <1>4, <1>6, NothingMoves DEF IInv

\* DBConnectionPoolAcquireConnection takes an idle entry.
LEMMA AcquireIdleIInv ==
    ASSUME IInv, NEW t \in Thread, AcquireIdle(t)
    PROVE  IInv'
<1>1. TypeOK
    BY DEF IInv, Base
<1>2. PICK c \in Idle :
          /\ inUse' = [inUse EXCEPT ![c] = TRUE]
          /\ held' = [held EXCEPT ![t] = handle[c]]
          /\ pc' = [pc EXCEPT ![t] = IF handle[c] # Null THEN "hold" ELSE "acquire"]
    BY DEF AcquireIdle
<1>3. /\ pc[t] = "acquire"
      /\ UNCHANGED <<pool, resetOnRelease, handle, open, work, reconnList, acquires, failures, rounds, misremoved, aliased>>
    BY DEF AcquireIdle
<1>4. /\ c \in Entries /\ c \in Connection /\ ~inUse[c]
      /\ handle[c] \in Handle \cup {Null} /\ Entries' = Entries
    BY <1>1, <1>3, Places DEF Idle, TypeOK, Entries
<1>5. /\ \A w \in Worker : w # t => pc'[w] = pc[w]
      /\ pc'[t] = IF handle[c] # Null THEN "hold" ELSE "acquire"
      /\ pc'[Maint] = pc[Maint]
      /\ pc' \in [Worker -> {"idle", "acquire", "hold", "reset", "connect", "relock", "expire", "next"}]
    BY <1>1, <1>2, Places DEF TypeOK
<1>6. /\ \A u \in Thread : u # t => held'[u] = held[u]
      /\ held'[t] = handle[c] /\ held' \in [Thread -> Handle \cup {Null}]
    BY <1>1, <1>2, <1>4 DEF TypeOK
<1>7. /\ \A d \in Connection : inUse'[d] <=> (inUse[d] \/ d = c)
      /\ inUse' \in [Connection -> BOOLEAN]
    BY <1>1, <1>2, <1>4 DEF TypeOK
<1>8. Resetting' = Resetting /\ \A w \in Resetting : pc'[w] = pc[w]
    BY <1>3, <1>5, <1>1, Places DEF Resetting
<1>9. TypeOK'
    BY <1>1, <1>3, <1>5, <1>6, <1>7, Places DEF TypeOK
<1>10. Base'
    BY <1>3, <1>5, <1>8, <1>9 DEF IInv, Base, EntriesDistinct, WorkKnown, RoundOver
<1>11. ASSUME Unmistaken' PROVE Sound'
    <2>1. Sound /\ Unmistaken /\ Unmistaken'
        BY <1>3, <1>11 DEF IInv, Unmistaken
    <2>2. handle[c] # Null /\ handle[c] \in open
        BY <1>4, <2>1 DEF Sound, IdleConnected, HandlesOpen, ResetExclusive
    <2>3. Holding' = Holding \cup {t} /\ t \notin Holding
        BY <1>3, <1>5, <1>1, <2>2, Places DEF Holding
    <2>4. c \notin reconnList /\ \A w \in Resetting : work[w].conn # c
        BY <1>4, <2>1 DEF Sound, ListInUse, ResetExclusive
    <2>5. \A u \in Holding : held[u] # handle[c]
        BY <1>4, <2>1 DEF Sound, SessionExclusive
    <2>6. \A d \in Entries : handle[d] = handle[c] <=> d = c
        BY <1>4, <2>1, <2>2 DEF Sound, HandlesDistinct
    <2>7. (HandlesDistinct /\ HandlesOpen /\ OpenKnown)'
        BY <1>3, <1>4, <1>8, <2>1 DEF Sound, HandlesDistinct, HandlesOpen, OpenKnown
    <2>8. (IdleConnected /\ ListInUse)'
        BY <1>3, <1>4, <1>7, <2>1, <1>1, Places DEF Sound, IdleConnected, ListInUse
    <2>9. (ResetExclusive /\ ResultKnown)'
        BY <1>3, <1>4, <1>7, <1>8, <2>1, <1>1, Places DEF Sound, ResetExclusive, ResultKnown
    <2>10. SessionExclusive'
        <3> SUFFICES ASSUME NEW u \in Holding'
                     PROVE  (/\ held[u] \in open
                             /\ \A v \in Holding : held[v] = held[u] => v = u
                             /\ \E d \in Entries :
                                   /\ \A e \in Entries : handle[e] = held[u] <=> e = d
                                   /\ inUse[d] /\ d \notin reconnList
                                   /\ \A w \in Resetting : work[w].conn # d)'
            BY DEF SessionExclusive
        <3>1. CASE u = t
            <4>1. \A v \in Holding' : held'[v] = held'[u] => v = u
                BY <1>1, <1>6, <2>3, <2>5, <3>1, Places
            <4>2. /\ \A e \in Entries' : handle'[e] = held'[u] <=> e = c
                  /\ inUse'[c] /\ c \notin reconnList' /\ c \in Entries'
                  /\ \A w \in Resetting' : work'[w].conn # c
                BY <1>3, <1>4, <1>6, <1>7, <1>8, <2>4, <2>6, <3>1
            <4>3. held'[u] \in open'
                BY <1>3, <1>6, <2>2, <3>1
            <4> QED BY <4>1, <4>2, <4>3
        <3>2. CASE u # t
            <4>1. u \in Holding /\ u \in Thread /\ held'[u] = held[u]
                BY <1>1, <1>6, <2>3, <3>2, Places
            <4>2. PICK d \in Entries :
                      /\ \A e \in Entries : handle[e] = held[u] <=> e = d
                      /\ inUse[d] /\ d \notin reconnList
                      /\ \A w \in Resetting : work[w].conn # d
                BY <2>1, <4>1 DEF Sound, SessionExclusive
            <4>3. held[u] \in open /\ \A v \in Holding : held[v] = held[u] => v = u
                BY <2>1, <4>1 DEF Sound, SessionExclusive
            <4>4. \A v \in Holding' : held'[v] = held'[u] => v = u
                BY <1>1, <1>6, <2>3, <2>5, <4>1, <4>3, Places
            <4>5. /\ \A e \in Entries' : handle'[e] = held'[u] <=> e = d
                  /\ inUse'[d] /\ d \notin reconnList' /\ d \in Entries'
                  /\ \A w \in Resetting' : work'[w].conn # d
                BY <1>1, <1>3, <1>4, <1>7, <1>8, <4>1, <4>2, Places
            <4> QED BY <1>3, <4>1, <4>3, <4>4, <4>5
        <3> QED BY <3>1, <3>2
    <2>11. NoLostPlace'
        <3> SUFFICES ASSUME NEW d \in Entries', inUse'[d]
                     PROVE  (\/ \E u \in Holding : held[u] = handle[d]
                             \/ d \in reconnList
                             \/ \E w \in Resetting : work[w].conn = d)'
            BY DEF NoLostPlace
        <3>1. CASE d = c
            BY <1>3, <1>6, <2>3, <3>1
        <3>2. CASE d # c
            <4>1. d \in Entries /\ inUse[d]
                BY <1>1, <1>4, <1>7, <3>2, Places
            <4>2. \/ \E u \in Holding : held[u] = handle[d]
                  \/ d \in reconnList
                  \/ \E w \in Resetting : work[w].conn = d
                BY <2>1, <4>1 DEF Sound, NoLostPlace
            <4> QED BY <1>1, <1>3, <1>6, <1>8, <2>3, <4>2, Places
        <3> QED BY <3>1, <3>2
    <2> QED BY <2>7, <2>8, <2>9, <2>10, <2>11 DEF Sound
<1> QED BY <1>10, <1>11 DEF IInv

\* DBConnectionPoolAcquireConnection adds an entry with a session of its own, or fails to.
LEMMA AcquireNewIInv ==
    ASSUME IInv, NEW t \in Thread, AcquireNew(t)
    PROVE  IInv'
<1>1. TypeOK /\ EntriesDistinct /\ Len(pool) <= Limit
    BY DEF IInv, Base
<1>2. CASE ConnectFails /\ UNCHANGED <<entryVars, held, pc, work, reconnList, acquires, rounds, misremoved, aliased>>
    <2>1. failures' \in 0..MaxFailures
        BY <1>1, <1>2, SizeAssumption, LimitKnown DEF ConnectFails, TypeOK
    <2>2. Holding' = Holding /\ Resetting' = Resetting
        BY <1>2 DEF Holding, Resetting
    <2>3. TypeOK'
        BY <1>1, <1>2, <2>1 DEF TypeOK, entryVars
    <2>4. Base'
        BY <1>2, <2>2, <2>3 DEF IInv, Base, EntriesDistinct, WorkKnown, RoundOver, entryVars
    <2> QED BY <1>2, <2>2, <2>4, NothingMoves DEF IInv
<1>3. CASE /\ \E c \in Connection \ Entries, h \in NewHandle :
                 /\ pool' = Append(pool, c)
                 /\ inUse' = [inUse EXCEPT ![c] = TRUE]
                 /\ resetOnRelease' = [resetOnRelease EXCEPT ![c] = FALSE]
                 /\ handle' = [handle EXCEPT ![c] = h]
                 /\ open' = open \cup {h}
                 /\ held' = [held EXCEPT ![t] = h]
                 /\ aliased' = (aliased \/ h \in Dangling(Worker))
           /\ pc' = [pc EXCEPT ![t] = "hold"]
           /\ UNCHANGED failures
    <2>1. PICK c \in Connection \ Entries, h \in NewHandle :
              /\ pool' = Append(pool, c)
              /\ inUse' = [inUse EXCEPT ![c] = TRUE]
              /\ resetOnRelease' = [resetOnRelease EXCEPT ![c] = FALSE]
              /\ handle' = [handle EXCEPT ![c] = h]
              /\ open' = open \cup {h}
              /\ held' = [held EXCEPT ![t] = h]
              /\ aliased' = (aliased \/ h \in Dangling(Worker))
        BY <1>3
    <2>4. h \in Handle /\ h \notin open /\ h # Null
        BY <1>1, Places DEF NewHandle
    <2>5. /\ pool' \in Seq(Connection) /\ EntriesDistinct' /\ Entries' = Entries \cup {c}
          /\ Len(pool') <= Limit
        <3>1. Len(pool) < Limit /\ Len(pool) \in Nat
            BY <1>1, Places, LimitKnown DEF AcquireNew, MayGrow
        <3>2. pool \in Seq(Connection)
            BY <1>1 DEF TypeOK
        <3>3. /\ pool' \in Seq(Connection) /\ Len(pool') = Len(pool) + 1
              /\ Range(pool') = Entries \cup {c}
              /\ \A j, k \in 1..Len(pool') : pool'[j] = pool'[k] => j = k
            BY <1>1, <2>1, <3>2, Appended
        <3> QED BY <3>1, <3>3, SizeAssumption, LimitKnown DEF EntriesDistinct, Entries
    <2>6. pc[t] = "acquire" /\ UNCHANGED <<work, reconnList, acquires, failures, rounds, misremoved>>
        BY <1>3 DEF AcquireNew
    <2>7. /\ \A w \in Worker : w # t => pc'[w] = pc[w]
          /\ pc'[t] = "hold" /\ pc'[Maint] = pc[Maint]
          /\ pc' \in [Worker -> {"idle", "acquire", "hold", "reset", "connect", "relock", "expire", "next"}]
        BY <1>1, <1>3, Places DEF TypeOK
    <2>8. /\ \A u \in Thread : u # t => held'[u] = held[u]
          /\ held'[t] = h /\ held' \in [Thread -> Handle \cup {Null}]
        BY <1>1, <2>1, <2>4 DEF TypeOK
    <2>9. /\ \A d \in Connection : inUse'[d] <=> (inUse[d] \/ d = c)
          /\ inUse' \in [Connection -> BOOLEAN] /\ resetOnRelease' \in [Connection -> BOOLEAN]
        BY <1>1, <2>1 DEF TypeOK
    <2>10. /\ \A d \in Connection : d # c => handle'[d] = handle[d]
           /\ handle'[c] = h /\ handle' \in [Connection -> Handle \cup {Null}]
        BY <1>1, <2>1, <2>4 DEF TypeOK
    <2>11. open' = open \cup {h} /\ open' \subseteq Handle
        BY <1>1, <2>1, <2>4 DEF TypeOK
    <2>12. Resetting' = Resetting /\ \A w \in Resetting : pc'[w] = pc[w]
        BY <2>6, <2>7, <1>1, Places DEF Resetting
    <2>13. Holding' = Holding \cup {t} /\ t \notin Holding
        BY <2>6, <2>7, <1>1, Places DEF Holding
    <2>14. TypeOK'
        <3>1. \A u \in Thread : pc'[u] = "hold" => held'[u] # Null
            BY <1>1, <2>4, <2>7, <2>8, Places DEF TypeOK
        <3>2. aliased' \in BOOLEAN
            BY <1>1, <2>1 DEF TypeOK
        <3> QED BY <1>1, <2>5, <2>6, <2>7, <2>8, <2>9, <2>10, <2>11, <3>1, <3>2 DEF TypeOK
    <2>15. Base'
        BY <2>5, <2>6, <2>7, <2>12, <2>14 DEF IInv, Base, WorkKnown, RoundOver
    <2>16. ASSUME Unmistaken' PROVE Sound'
        <3>1. Sound /\ Unmistaken
            BY <2>1, <2>6, <2>16 DEF IInv, Unmistaken
        <3>12. \A w \in Resetting : pc[w] = "connect" => handle[work[w].conn] # h
            BY <1>1, <2>1, <2>16, Places DEF Unmistaken, Dangling
        <3>2. /\ \A d \in Entries : d # c /\ d \in Connection
              /\ c \notin reconnList /\ \A w \in Resetting : work[w].conn # c
            BY <1>1, <3>1, Places DEF Sound, ListInUse, ResetExclusive
        <3>3. \A d \in Entries : handle[d] # h
            BY <2>4, <3>1, <3>12 DEF Sound, HandlesOpen
        <3>4. HandlesDistinct'
            BY <2>5, <2>10, <3>1, <3>2, <3>3 DEF Sound, HandlesDistinct
        <3>5. HandlesOpen'
            BY <2>5, <2>6, <2>10, <2>11, <2>12, <3>1, <3>2 DEF Sound, HandlesOpen
        <3>6. OpenKnown'
            <4> SUFFICES ASSUME NEW g \in open' PROVE \E d \in Entries' : g = handle'[d]
                BY DEF OpenKnown
            <4>1. CASE g = h
                BY <2>5, <2>10, <4>1
            <4>2. CASE g \in open
                <5>1. PICK d \in Entries : g = handle[d]
                    BY <3>1, <4>2 DEF Sound, OpenKnown
                <5> QED BY <2>5, <2>10, <3>2, <5>1
            <4> QED BY <2>11, <4>1, <4>2
        <3>7. (IdleConnected /\ ListInUse)'
            BY <2>4, <2>5, <2>6, <2>9, <2>10, <3>1, <3>2 DEF Sound, IdleConnected, ListInUse
        <3>8. ResetExclusive'
            BY <2>5, <2>6, <2>9, <2>12, <3>1, <3>2 DEF Sound, ResetExclusive
        <3>9. ResultKnown'
            <4>1. \A w \in Resetting : work[w].conn \in Entries
                BY <3>1 DEF Sound, ResetExclusive
            <4> QED BY <2>6, <2>10, <2>11, <2>12, <3>1, <3>2, <3>12, <4>1 DEF Sound, ResultKnown
        <3>10. SessionExclusive'
            <4> SUFFICES ASSUME NEW u \in Holding'
                         PROVE  (/\ held[u] \in open
                                 /\ \A v \in Holding : held[v] = held[u] => v = u
                                 /\ \E d \in Entries :
                                       /\ \A e \in Entries : handle[e] = held[u] <=> e = d
                                       /\ inUse[d] /\ d \notin reconnList
                                       /\ \A w \in Resetting : work[w].conn # d)'
                BY DEF SessionExclusive
            <4>1. \A v \in Holding : v \in Thread /\ held[v] \in open /\ held'[v] = held[v] /\ v # t
                BY <1>1, <2>8, <2>13, <3>1, Places DEF Sound, SessionExclusive
            <4>2. CASE u = t
                <5>1. \A v \in Holding' : held'[v] = held'[u] => v = u
                    BY <2>4, <2>8, <2>13, <4>1, <4>2
                <5>2. /\ \A e \in Entries' : handle'[e] = held'[u] <=> e = c
                      /\ inUse'[c] /\ c \notin reconnList' /\ c \in Entries'
                      /\ \A w \in Resetting' : work'[w].conn # c
                    BY <2>5, <2>6, <2>8, <2>9, <2>10, <2>12, <3>2, <3>3, <4>2
                <5> QED BY <2>8, <2>11, <4>2, <5>1, <5>2
            <4>3. CASE u # t
                <5>1. u \in Holding
                    BY <2>13, <4>3
                <5>2. PICK d \in Entries :
                          /\ \A e \in Entries : handle[e] = held[u] <=> e = d
                          /\ inUse[d] /\ d \notin reconnList
                          /\ \A w \in Resetting : work[w].conn # d
                    BY <3>1, <5>1 DEF Sound, SessionExclusive
                <5>3. \A v \in Holding' : held'[v] = held'[u] => v = u
                    BY <2>4, <2>8, <2>13, <3>1, <4>1, <5>1 DEF Sound, SessionExclusive
                <5>4. /\ \A e \in Entries' : handle'[e] = held'[u] <=> e = d
                      /\ inUse'[d] /\ d \notin reconnList' /\ d \in Entries'
                      /\ \A w \in Resetting' : work'[w].conn # d
                    BY <2>4, <2>5, <2>6, <2>9, <2>10, <2>12, <3>2, <4>1, <5>1, <5>2
                <5> QED BY <2>11, <4>1, <5>1, <5>3, <5>4
            <4> QED BY <4>2, <4>3
        <3>11. NoLostPlace'
            <4> SUFFICES ASSUME NEW d \in Entries', inUse'[d]
                         PROVE  (\/ \E u \in Holding : held[u] = handle[d]
                                 \/ d \in reconnList
                                 \/ \E w \in Resetting : work[w].conn = d)'
                BY DEF NoLostPlace
            <4>1. CASE d = c
                BY <2>8, <2>10, <2>13, <4>1
            <4>2. CASE d # c
                <5>1. d \in Entries /\ inUse[d] /\ handle'[d] = handle[d]
                    BY <2>5, <2>9, <2>10, <3>2, <4>2
                <5>2. \/ \E u \in Holding : held[u] = handle[d]
                      \/ d \in reconnList
                      \/ \E w \in Resetting : work[w].conn = d
                    BY <3>1, <5>1 DEF Sound, NoLostPlace
                <5>3. \A u \in Holding : held'[u] = held[u] /\ u \in Holding'
                    BY <1>1, <2>8, <2>13, Places
                <5> QED BY <2>6, <2>12, <5>1, <5>2, <5>3
            <4> QED BY <4>1, <4>2
        <3> QED BY <3>4, <3>5, <3>6, <3>7, <3>8, <3>9, <3>10, <3>11 DEF Sound
    <2> QED BY <2>15, <2>16 DEF IInv
<1> QED BY <1>2, <1>3 DEF AcquireNew

\* DBConnectionPoolReleaseConnection: the entry of the handle becomes idle, or the thread
\* keeps it to reconnect it.
LEMMA ReleaseIInv ==
    ASSUME IInv, NEW t \in Thread, Release(t)
    PROVE  IInv'
<1>1. TypeOK /\ EntriesDistinct /\ Len(pool) <= Limit
    BY DEF IInv, Base
<1>2. PICK found : found = {i \in 1..Len(pool) : handle[pool[i]] = held[t]}
    OBVIOUS
<1>3. /\ pc[t] = "hold"
      /\ \/ /\ found # {}
            /\ ReleaseFound(t, CHOOSE i \in found : \A j \in found : i <= j)
         \/ /\ found = {}
            /\ pc' = [pc EXCEPT ![t] = "idle"]
            /\ UNCHANGED <<inUse, work>>
      /\ held' = [held EXCEPT ![t] = Null]
      /\ UNCHANGED <<pool, resetOnRelease, handle, open, reconnList, acquires, failures, rounds, misremoved, aliased>>
    BY <1>2 DEF Release
<1>4. Entries' = Entries /\ Entries = {pool[i] : i \in 1..Len(pool)} /\ Entries \subseteq Connection
    BY <1>1, <1>3, EntriesIndexed DEF Entries, TypeOK
<1>5. /\ \A u \in Thread : u # t => held'[u] = held[u]
      /\ held' \in [Thread -> Handle \cup {Null}]
    BY <1>1, <1>3 DEF TypeOK
<1>6. t \in Worker /\ Maint # t /\ t \in Holding /\ t \notin Resetting
    BY <1>1, <1>3, Places
<1>7. CASE found = {} /\ pc' = [pc EXCEPT ![t] = "idle"] /\ UNCHANGED <<inUse, work>>
    <2>1. /\ \A w \in Worker : w # t => pc'[w] = pc[w]
          /\ pc'[t] = "idle" /\ pc'[Maint] = pc[Maint]
          /\ pc' \in [Worker -> {"idle", "acquire", "hold", "reset", "connect", "relock", "expire", "next"}]
        BY <1>1, <1>6, <1>7, Places DEF TypeOK
    <2>2. Resetting' = Resetting
        BY <1>1, <1>6, <2>1, Places DEF Resetting
    <2>3. TypeOK'
        <3>1. \A u \in Thread : pc'[u] = "hold" => held'[u] # Null
            BY <1>1, <1>5, <2>1, Places DEF TypeOK
        <3> QED BY <1>1, <1>3, <1>5, <1>7, <2>1, <3>1 DEF TypeOK
    <2>4. Base'
        BY <1>3, <1>7, <2>1, <2>2, <2>3 DEF IInv, Base, EntriesDistinct, WorkKnown, RoundOver
    <2>5. ~Unmistaken
        <3> SUFFICES ASSUME Unmistaken PROVE FALSE
            OBVIOUS
        <3>1. \E c \in Entries : handle[c] = held[t]
            BY <1>6 DEF IInv, Sound, SessionExclusive
        <3> QED BY <1>2, <1>4, <1>7, <3>1
    <2> QED BY <1>3, <2>4, <2>5 DEF IInv, Unmistaken
<1>8. CASE found # {} /\ ReleaseFound(t, CHOOSE i \in found : \A j \in found : i <= j)
    <2>1. PICK i \in found : ReleaseFound(t, i)
        <3>1. found \in SUBSET Nat
            BY <1>2, <1>1, Places
        <3> QED BY <1>8, <3>1, MinProperties DEF Min
    <2>2. PICK c : c = pool[i]
        OBVIOUS
    <2>3. /\ i \in 1..Limit /\ c \in Entries /\ c \in Connection /\ handle[c] = held[t]
        BY <1>1, <1>2, <1>4, <2>2, Places, SizeAssumption, LimitKnown
    <2>4. /\ \A w \in Worker : w # t => pc'[w] = pc[w]
          /\ pc'[t] \in {"idle", "reset"} /\ pc'[Maint] = pc[Maint]
          /\ pc' \in [Worker -> {"idle", "acquire", "hold", "reset", "connect", "relock", "expire", "next"}]
        BY <1>1, <1>6, <2>1, Places DEF TypeOK, ReleaseFound
    <2>5. Holding' = Holding \ {t}
        BY <1>1, <1>6, <2>4, Places DEF Holding
    <2>6. CASE ~resetOnRelease[c]
        <3>1. inUse' = [inUse EXCEPT ![c] = FALSE] /\ UNCHANGED work /\ pc'[t] = "idle"
            BY <1>1, <1>6, <2>1, <2>2, <2>6 DEF ReleaseFound, TypeOK
        <3>2. /\ \A d \in Connection : inUse'[d] <=> (inUse[d] /\ d # c)
              /\ inUse' \in [Connection -> BOOLEAN]
            BY <1>1, <2>3, <3>1 DEF TypeOK
        <3>3. Resetting' = Resetting /\ \A w \in Resetting : pc'[w] = pc[w]
            BY <1>1, <1>6, <2>4, <3>1, Places DEF Resetting
        <3>4. TypeOK'
            <4>1. \A u \in Thread : pc'[u] = "hold" => held'[u] # Null
                BY <1>1, <1>5, <2>4, Places DEF TypeOK
            <4> QED BY <1>1, <1>3, <1>5, <2>4, <3>1, <3>2, <4>1 DEF TypeOK
        <3>5. Base'
            BY <1>3, <2>4, <3>1, <3>3, <3>4 DEF IInv, Base, EntriesDistinct, WorkKnown, RoundOver
        <3>6. ASSUME Unmistaken' PROVE Sound'
            <4>1. Sound /\ Unmistaken
                BY <1>3, <3>6 DEF IInv, Unmistaken
            <4>2. /\ \A d \in Entries : handle[d] = held[t] <=> d = c
                  /\ c \notin reconnList /\ \A w \in Resetting : work[w].conn # c
                  /\ \A u \in Holding : held[u] = held[t] => u = t
                BY <1>6, <2>3, <4>1 DEF Sound, SessionExclusive
            <4>3. (HandlesDistinct /\ HandlesOpen /\ OpenKnown)'
                BY <1>3, <1>4, <3>1, <3>3, <4>1 DEF Sound, HandlesDistinct, HandlesOpen, OpenKnown
            <4>4. IdleConnected'
                BY <1>1, <1>3, <1>4, <2>3, <3>2, <4>1 DEF Sound, IdleConnected, TypeOK
            <4>5. (ListInUse /\ ResetExclusive /\ ResultKnown)'
                BY <1>3, <1>4, <3>1, <3>2, <3>3, <4>1, <4>2
                DEF Sound, ListInUse, ResetExclusive, ResultKnown
            <4>6. \A u \in Holding' : u \in Holding /\ held'[u] = held[u]
                BY <1>1, <1>5, <2>5, Places
            <4>7. SessionExclusive'
                <5> SUFFICES ASSUME NEW u \in Holding'
                             PROVE  (/\ held[u] \in open
                                     /\ \A v \in Holding : held[v] = held[u] => v = u
                                     /\ \E d \in Entries :
                                           /\ \A e \in Entries : handle[e] = held[u] <=> e = d
                                           /\ inUse[d] /\ d \notin reconnList
                                           /\ \A w \in Resetting : work[w].conn # d)'
                    BY DEF SessionExclusive
                <5>1. u \in Holding /\ u # t /\ held[u] # held[t]
                    BY <2>5, <4>2
                <5>2. PICK d \in Entries :
                          /\ \A e \in Entries : handle[e] = held[u] <=> e = d
                          /\ inUse[d] /\ d \notin reconnList
                          /\ \A w \in Resetting : work[w].conn # d
                    BY <4>1, <5>1 DEF Sound, SessionExclusive
                <5>3. d # c
                    BY <2>3, <5>1, <5>2
                <5>4. /\ \A e \in Entries' : handle'[e] = held'[u] <=> e = d
                      /\ inUse'[d] /\ d \notin reconnList' /\ d \in Entries'
                      /\ \A w \in Resetting' : work'[w].conn # d
                    BY <1>3, <1>4, <3>1, <3>2, <3>3, <4>6, <5>2, <5>3
                <5>5. held'[u] \in open' /\ \A v \in Holding' : held'[v] = held'[u] => v = u
                    BY <1>3, <4>1, <4>6 DEF Sound, SessionExclusive
                <5> QED BY <5>4, <5>5
            <4>8. NoLostPlace'
                <5> SUFFICES ASSUME NEW d \in Entries', inUse'[d]
                             PROVE  (\/ \E u \in Holding : held[u] = handle[d]
                                     \/ d \in reconnList
                                     \/ \E w \in Resetting : work[w].conn = d)'
                    BY DEF NoLostPlace
                <5>1. d \in Entries /\ inUse[d] /\ d # c
                    BY <1>4, <3>2
                <5>2. \/ \E u \in Holding : held[u] = handle[d]
                      \/ d \in reconnList
                      \/ \E w \in Resetting : work[w].conn = d
                    BY <4>1, <5>1 DEF Sound, NoLostPlace
                <5>3. \A u \in Holding : held[u] = handle[d] => u \in Holding'
                    BY <2>5, <4>2, <5>1
                <5> QED BY <1>3, <3>1, <3>3, <4>6, <5>2, <5>3
            <4> QED BY <4>3, <4>4, <4>5, <4>7, <4>8 DEF Sound
        <3> QED BY <3>5, <3>6 DEF IInv
    <2>7. CASE resetOnRelease[c]
        <3>1. /\ work' = [work EXCEPT ![t] = [conn |-> c, index |-> i, ok |-> FALSE]]
              /\ UNCHANGED inUse /\ pc'[t] = "reset"
            BY <1>1, <1>6, <2>1, <2>2, <2>7 DEF ReleaseFound, TypeOK
        <3>2. /\ \A w \in Worker : w # t => work'[w] = work[w]
              /\ work'[t] = [conn |-> c, index |-> i, ok |-> FALSE]
              /\ work' \in [Worker -> [conn : Connection, index : 0..Limit, ok : BOOLEAN] \cup {NoWork}]
            BY <1>1, <1>6, <2>3, <3>1 DEF TypeOK
        <3>3. Resetting' = Resetting \cup {t} /\ \A w \in Resetting : pc'[w] = pc[w] /\ work'[w] = work[w]
            BY <1>1, <1>6, <2>4, <3>1, <3>2, Places DEF Resetting
        <3>4. TypeOK'
            <4>1. \A u \in Thread : pc'[u] = "hold" => held'[u] # Null
                BY <1>1, <1>5, <2>4, Places DEF TypeOK
            <4> QED BY <1>1, <1>3, <1>5, <2>4, <3>1, <3>2, <4>1 DEF TypeOK
        <3>5. Base'
            <4>1. WorkKnown'
                BY <2>3, <3>2, <3>3 DEF IInv, Base, WorkKnown
            <4> QED BY <1>3, <2>4, <3>4, <4>1 DEF IInv, Base, EntriesDistinct, RoundOver
        <3>6. ASSUME Unmistaken' PROVE Sound'
            <4>1. Sound /\ Unmistaken
                BY <1>3, <3>6 DEF IInv, Unmistaken
            <4>2. /\ \A d \in Entries : handle[d] = held[t] <=> d = c
                  /\ c \notin reconnList /\ \A w \in Resetting : work[w].conn # c
                  /\ \A u \in Holding : held[u] = held[t] => u = t
                  /\ inUse[c]
                BY <1>6, <2>3, <4>1 DEF Sound, SessionExclusive
            <4>3. (HandlesDistinct /\ HandlesOpen /\ OpenKnown /\ IdleConnected /\ ListInUse)'
                BY <1>3, <1>4, <3>1, <3>3, <4>1
                DEF Sound, HandlesDistinct, HandlesOpen, OpenKnown, IdleConnected, ListInUse
            <4>4. ResetExclusive'
                BY <1>3, <1>4, <2>3, <3>1, <3>2, <3>3, <4>1, <4>2 DEF Sound, ResetExclusive
            <4>5. ResultKnown'
                BY <1>3, <3>1, <3>2, <3>3, <4>1 DEF Sound, ResultKnown
            <4>6. \A u \in Holding' : u \in Holding /\ held'[u] = held[u]
                BY <1>1, <1>5, <2>5, Places
            <4>7. SessionExclusive'
                <5> SUFFICES ASSUME NEW u \in Holding'
                             PROVE  (/\ held[u] \in open
                                     /\ \A v \in Holding : held[v] = held[u] => v = u
                                     /\ \E d \in Entries :
                                           /\ \A e \in Entries : handle[e] = held[u] <=> e = d
                                           /\ inUse[d] /\ d \notin reconnList
                                           /\ \A w \in Resetting : work[w].conn # d)'
                    BY DEF SessionExclusive
                <5>1. u \in Holding /\ u # t /\ held[u] # held[t]
                    BY <2>5, <4>2
                <5>2. PICK d \in Entries :
                          /\ \A e \in Entries : handle[e] = held[u] <=> e = d
                          /\ inUse[d] /\ d \notin reconnList
                          /\ \A w \in Resetting : work[w].conn # d
                    BY <4>1, <5>1 DEF Sound, SessionExclusive
                <5>3. d # c
                    BY <2>3, <5>1, <5>2
                <5>4. /\ \A e \in Entries' : handle'[e] = held'[u] <=> e = d
                      /\ inUse'[d] /\ d \notin reconnList' /\ d \in Entries'
                      /\ \A w \in Resetting' : work'[w].conn # d
                    BY <1>3, <1>4, <3>1, <3>2, <3>3, <4>6, <5>2, <5>3
                <5>5. held'[u] \in open' /\ \A v \in Holding' : held'[v] = held'[u] => v = u
                    BY <1>3, <4>1, <4>6 DEF Sound, SessionExclusive
                <5> QED BY <5>4, <5>5
            <4>8. NoLostPlace'
                <5> SUFFICES ASSUME NEW d \in Entries', inUse'[d]
                             PROVE  (\/ \E u \in Holding : held[u] = handle[d]
                                     \/ d \in reconnList
                                     \/ \E w \in Resetting : work[w].conn = d)'
                    BY DEF NoLostPlace
                <5>1. CASE d = c
                    BY <3>2, <3>3, <5>1
                <5>2. CASE d # c
                    <6>1. d \in Entries /\ inUse[d]
                        BY <1>4, <3>1
                    <6>2. \/ \E u \in Holding : held[u] = handle[d]
                          \/ d \in reconnList
                          \/ \E w \in Resetting : work[w].conn = d
                        BY <4>1, <6>1 DEF Sound, NoLostPlace
                    <6>3. \A u \in Holding : held[u] = handle[d] => u \in Holding'
                        BY <2>5, <4>2, <5>2, <6>1
                    <6> QED BY <1>3, <3>3, <4>6, <6>2, <6>3
                <5> QED BY <5>1, <5>2
            <4> QED BY <4>3, <4>4, <4>5, <4>7, <4>8 DEF Sound
        <3> QED BY <3>5, <3>6 DEF IInv
    <2> QED BY <2>6, <2>7
<1> QED BY <1>3, <1>7, <1>8

\* ResetConnection deletes the handle of an entry that belongs to nobody else.
LEMMA ResetConnectionIInv ==
    ASSUME IInv, NEW w \in Worker, ResetConnection(w)
    PROVE  IInv'
<1>1. TypeOK /\ EntriesDistinct /\ WorkKnown
    BY DEF IInv, Base
<1>2. PICK c : c = work[w].conn
    OBVIOUS
<1>3. /\ pc[w] = "reset" /\ pc' = [pc EXCEPT ![w] = "connect"] /\ open' = open \ {handle[c]}
      /\ UNCHANGED <<pool, inUse, resetOnRelease, handle, held, work, reconnList, acquires, failures, rounds,
                     misremoved, aliased>>
    BY <1>2 DEF ResetConnection
<1>4. w \in Resetting /\ c \in Connection /\ Entries' = Entries
    BY <1>1, <1>2, <1>3, Places DEF WorkKnown, Entries
<1>5. /\ \A v \in Worker : v # w => pc'[v] = pc[v]
      /\ pc'[w] = "connect"
      /\ pc' \in [Worker -> {"idle", "acquire", "hold", "reset", "connect", "relock", "expire", "next"}]
    BY <1>1, <1>3 DEF TypeOK
<1>6. Resetting' = Resetting /\ Holding' = Holding
    BY <1>1, <1>3, <1>5, Places DEF Resetting, Holding
<1>7. TypeOK'
    <2>1. \A t \in Thread : pc'[t] = "hold" => held'[t] # Null
        BY <1>1, <1>3, <1>5, Places DEF TypeOK
    <2>2. open' \subseteq Handle
        BY <1>1, <1>3 DEF TypeOK
    <2> QED BY <1>1, <1>3, <1>5, <2>1, <2>2 DEF TypeOK
<1>8. Base'
    <2>1. WorkKnown'
        BY <1>1, <1>3, <1>6 DEF WorkKnown
    <2>2. RoundOver'
        BY <1>1, <1>3, <1>5, Places DEF IInv, Base, RoundOver
    <2> QED BY <1>3, <1>7, <2>1, <2>2 DEF IInv, Base, EntriesDistinct
<1>9. ASSUME Unmistaken' PROVE Sound'
    <2>1. Sound /\ Unmistaken
        BY <1>3, <1>9 DEF IInv, Unmistaken
    <2>2. /\ c \in Entries /\ inUse[c] /\ c \notin reconnList
          /\ \A v \in Resetting : work[v].conn = c => v = w
        BY <1>2, <1>4, <2>1 DEF Sound, ResetExclusive
    <2>3. \A d \in Entries : d # c /\ handle[d] # Null => handle[d] # handle[c]
        BY <2>1, <2>2 DEF Sound, HandlesDistinct
    <2>4. (HandlesDistinct /\ OpenKnown /\ IdleConnected /\ ListInUse)'
        BY <1>3, <1>4, <2>1 DEF Sound, HandlesDistinct, OpenKnown, IdleConnected, ListInUse
    <2>5. HandlesOpen'
        <3> SUFFICES ASSUME NEW d \in Entries, handle[d] # Null
                     PROVE  handle[d] \in open' \/ \E v \in Resetting' : pc'[v] = "connect" /\ work'[v].conn = d
            BY <1>3, <1>4 DEF HandlesOpen
        <3>1. CASE d = c
            BY <1>2, <1>3, <1>4, <1>5, <1>6, <3>1
        <3>2. CASE d # c /\ handle[d] \in open
            BY <1>3, <2>3, <3>2
        <3>3. CASE \E v \in Resetting : pc[v] = "connect" /\ work[v].conn = d
            <4>1. PICK v \in Resetting : pc[v] = "connect" /\ work[v].conn = d
                BY <3>3
            <4>2. v # w /\ pc'[v] = "connect"
                BY <1>1, <1>3, <1>5, <4>1, Places
            <4> QED BY <1>3, <1>6, <4>1, <4>2
        <3> QED BY <2>1, <3>1, <3>2, <3>3 DEF Sound, HandlesOpen
    <2>6. ResetExclusive'
        BY <1>3, <1>4, <1>6, <2>1 DEF Sound, ResetExclusive
    <2>7. ResultKnown'
        <3>1. ~work[w].ok /\ handle[c] \notin open'
            BY <1>3, <1>4, <2>1 DEF Sound, ResultKnown
        <3>2. ASSUME NEW v \in Resetting, v # w PROVE pc'[v] = pc[v]
            BY <1>1, <1>5, <3>2, Places
        <3> QED BY <1>2, <1>3, <1>5, <1>6, <2>1, <3>1, <3>2 DEF Sound, ResultKnown
    <2>8. SessionExclusive'
        <3> SUFFICES ASSUME NEW u \in Holding'
                     PROVE  (/\ held[u] \in open
                             /\ \A v \in Holding : held[v] = held[u] => v = u
                             /\ \E d \in Entries :
                                   /\ \A e \in Entries : handle[e] = held[u] <=> e = d
                                   /\ inUse[d] /\ d \notin reconnList
                                   /\ \A v \in Resetting : work[v].conn # d)'
            BY DEF SessionExclusive
        <3>1. u \in Holding /\ held[u] \in open
            BY <1>6, <2>1 DEF Sound, SessionExclusive
        <3>2. PICK d \in Entries :
                  /\ \A e \in Entries : handle[e] = held[u] <=> e = d
                  /\ inUse[d] /\ d \notin reconnList
                  /\ \A v \in Resetting : work[v].conn # d
            BY <2>1, <3>1 DEF Sound, SessionExclusive
        <3>3. held[u] # handle[c]
            BY <1>2, <1>4, <2>2, <3>2
        <3> QED BY <1>3, <1>4, <1>6, <2>1, <3>1, <3>2, <3>3 DEF Sound, SessionExclusive
    <2>9. NoLostPlace'
        BY <1>3, <1>4, <1>6, <2>1 DEF Sound, NoLostPlace
    <2> QED BY <2>4, <2>5, <2>6, <2>7, <2>8, <2>9 DEF Sound
<1> QED BY <1>8, <1>9 DEF IInv

\* The rest of ResetConnection gives the entry a new handle, or none.
LEMMA ReconnectIInv ==
    ASSUME IInv, NEW w \in Worker, Reconnect(w)
    PROVE  IInv'
<1>1. TypeOK /\ EntriesDistinct /\ WorkKnown
    BY DEF IInv, Base
<1>2. PICK c : c = work[w].conn
    OBVIOUS
<1>3. /\ pc[w] = "connect" /\ pc' = [pc EXCEPT ![w] = "relock"]
      /\ resetOnRelease' = [resetOnRelease EXCEPT ![c] = FALSE]
      /\ UNCHANGED <<pool, inUse, held, reconnList, acquires, rounds, misremoved>>
    BY <1>2 DEF Reconnect
<1>4. w \in Resetting /\ c \in Connection /\ Entries' = Entries
    BY <1>1, <1>2, <1>3, Places DEF WorkKnown, Entries, TypeOK
<1>5. work[w] \in [conn : Connection, index : 0..Limit, ok : BOOLEAN]
    <2>1. work[w] \in [conn : Connection, index : 0..Limit, ok : BOOLEAN] \cup {NoWork}
        BY <1>1 DEF TypeOK
    <2>2. NoWork.conn \notin Connection
        BY SizeAssumption, LimitKnown DEF NoWork, Connection, Null
    <2> QED BY <1>2, <1>4, <2>1, <2>2
<1>6. \E h \in Handle \cup {Null} :
          /\ h \notin open
          /\ handle' = [handle EXCEPT ![c] = h]
          /\ open' = IF h = Null THEN open ELSE open \cup {h}
          /\ work' = [work EXCEPT ![w].ok = (@ \/ h # Null)]
          /\ failures' \in 0..MaxFailures
          /\ aliased' \in BOOLEAN /\ (~aliased' => ~aliased /\ (h = Null \/ h \notin Dangling(Worker \ {w})))
    <2>1. CASE \E h \in NewHandle :
                   /\ handle' = [handle EXCEPT ![c] = h]
                   /\ open' = open \cup {h}
                   /\ work' = [work EXCEPT ![w].ok = TRUE]
                   /\ aliased' = (aliased \/ h \in Dangling(Worker \ {w}))
                   /\ UNCHANGED failures
        <3>1. PICK h \in NewHandle :
                   /\ handle' = [handle EXCEPT ![c] = h]
                   /\ open' = open \cup {h}
                   /\ work' = [work EXCEPT ![w].ok = TRUE]
                   /\ aliased' = (aliased \/ h \in Dangling(Worker \ {w}))
                   /\ UNCHANGED failures
            BY <2>1
        <3>2. h \in Handle /\ h \notin open /\ h # Null
            BY <1>1, Places DEF NewHandle
        <3>3. work' = [work EXCEPT ![w].ok = (@ \/ h # Null)]
            BY <3>1, <3>2
        <3>4. failures' \in 0..MaxFailures /\ aliased' \in BOOLEAN
            BY <1>1, <3>1 DEF TypeOK
        <3> QED BY <3>1, <3>2, <3>3, <3>4
    <2>2. CASE /\ ConnectFails
               /\ handle' = [handle EXCEPT ![c] = Null]
               /\ UNCHANGED <<open, work, aliased>>
        <3>1. Null \notin open /\ aliased' \in BOOLEAN
            BY <1>1, <2>2, Places DEF TypeOK
        <3>2. work' = [work EXCEPT ![w].ok = (@ \/ Null # Null)]
            BY <1>1, <1>5, <2>2 DEF TypeOK
        <3>3. failures' \in 0..MaxFailures
            BY <1>1, <2>2, SizeAssumption, LimitKnown DEF TypeOK, ConnectFails
        <3> QED BY <2>2, <3>1, <3>2, <3>3
    <2> QED BY <1>2, <2>1, <2>2 DEF Reconnect
<1>7. PICK h \in Handle \cup {Null} :
          /\ h \notin open
          /\ handle' = [handle EXCEPT ![c] = h]
          /\ open' = IF h = Null THEN open ELSE open \cup {h}
          /\ work' = [work EXCEPT ![w].ok = (@ \/ h # Null)]
          /\ failures' \in 0..MaxFailures
          /\ aliased' \in BOOLEAN /\ (~aliased' => ~aliased /\ (h = Null \/ h \notin Dangling(Worker \ {w})))
    BY <1>6
<1>8. /\ \A d \in Connection : d # c => handle'[d] = handle[d]
      /\ handle'[c] = h /\ handle' \in [Connection -> Handle \cup {Null}]
      /\ resetOnRelease' \in [Connection -> BOOLEAN] /\ open' \subseteq Handle
    BY <1>1, <1>3, <1>4, <1>7 DEF TypeOK
<1>9. /\ \A v \in Worker : v # w => pc'[v] = pc[v] /\ work'[v] = work[v]
      /\ pc'[w] = "relock"
      /\ pc' \in [Worker -> {"idle", "acquire", "hold", "reset", "connect", "relock", "expire", "next"}]
    BY <1>1, <1>3, <1>7 DEF TypeOK
<1>10. /\ work'[w].conn = c /\ work'[w].index = work[w].index
       /\ work'[w].ok = (work[w].ok \/ h # Null)
       /\ work' \in [Worker -> [conn : Connection, index : 0..Limit, ok : BOOLEAN] \cup {NoWork}]
    BY <1>1, <1>2, <1>5, <1>7 DEF TypeOK
<1>11. Resetting' = Resetting /\ Holding' = Holding
    BY <1>1, <1>3, <1>9, Places DEF Resetting, Holding
<1>12. \A v \in Resetting : work'[v].conn = work[v].conn /\ work'[v].index = work[v].index
    BY <1>1, <1>2, <1>9, <1>10, Places
<1>13. TypeOK'
    <2>1. \A t \in Thread : pc'[t] = "hold" => held'[t] # Null
        BY <1>1, <1>3, <1>9, Places DEF TypeOK
    <2> QED BY <1>1, <1>3, <1>7, <1>8, <1>9, <1>10, <2>1 DEF TypeOK
<1>14. Base'
    <2>1. WorkKnown'
        BY <1>1, <1>11, <1>12 DEF WorkKnown
    <2>2. RoundOver'
        BY <1>1, <1>3, <1>9, Places DEF IInv, Base, RoundOver
    <2> QED BY <1>3, <1>13, <2>1, <2>2 DEF IInv, Base, EntriesDistinct
<1>15. ASSUME Unmistaken' PROVE Sound'
    <2>1. Sound /\ Unmistaken
        BY <1>3, <1>7, <1>15 DEF IInv, Unmistaken
    <2>2. /\ c \in Entries /\ inUse[c] /\ c \notin reconnList
          /\ \A v \in Resetting : work[v].conn = c => v = w
        BY <1>2, <1>4, <2>1 DEF Sound, ResetExclusive
    <2>3. /\ \A d \in Entries : d \in Connection
          /\ handle[c] \notin open
        BY <1>1, <1>2, <1>3, <1>4, <2>1, Places DEF Sound, ResultKnown
    <2>12. h # Null => \A v \in Resetting : v # w /\ pc[v] = "connect" => handle[work[v].conn] # h
        BY <1>1, <1>7, <1>15, Places DEF Unmistaken, Dangling
    <2>13. ASSUME NEW d \in Entries, d # c, handle[d] # Null
           PROVE  /\ handle[d] # h
                  /\ handle[d] \in open \/ \E v \in Resetting : v # w /\ pc[v] = "connect" /\ work[v].conn = d
        <3>1. handle[d] \in open \/ \E v \in Resetting : pc[v] = "connect" /\ work[v].conn = d
            BY <2>1, <2>13 DEF Sound, HandlesOpen
        <3>2. work[w].conn # d
            BY <1>2, <2>13
        <3> QED BY <1>7, <2>12, <2>13, <3>1, <3>2
    <2>4. HandlesDistinct'
        <3> SUFFICES ASSUME NEW d \in Entries, NEW e \in Entries, handle'[d] = handle'[e], handle'[d] # Null
                     PROVE  d = e
            BY <1>4 DEF HandlesDistinct
        <3>1. CASE d # c /\ e # c
            BY <1>8, <2>1, <2>3, <3>1 DEF Sound, HandlesDistinct
        <3>2. CASE d = c /\ e # c
            BY <1>8, <2>3, <2>13, <3>2
        <3>3. CASE d # c /\ e = c
            BY <1>8, <2>3, <2>13, <3>3
        <3> QED BY <3>1, <3>2, <3>3
    <2>5. HandlesOpen'
        <3> SUFFICES ASSUME NEW d \in Entries, handle'[d] # Null
                     PROVE  handle'[d] \in open' \/ \E v \in Resetting' : pc'[v] = "connect" /\ work'[v].conn = d
            BY <1>4 DEF HandlesOpen
        <3>1. CASE d = c
            BY <1>7, <1>8, <3>1
        <3>2. CASE d # c /\ handle[d] \in open
            BY <1>7, <1>8, <2>3, <3>2
        <3>3. CASE d # c /\ \E v \in Resetting : v # w /\ pc[v] = "connect" /\ work[v].conn = d
            <4>1. PICK v \in Resetting : v # w /\ pc[v] = "connect" /\ work[v].conn = d
                BY <3>3
            <4>2. pc'[v] = "connect" /\ work'[v].conn = d
                BY <1>1, <1>9, <1>12, <4>1, Places
            <4> QED BY <1>11, <4>1, <4>2
        <3> QED BY <1>8, <2>3, <2>13, <3>1, <3>2, <3>3
    <2>6. OpenKnown'
        <3> SUFFICES ASSUME NEW g \in open' PROVE \E d \in Entries' : g = handle'[d]
            BY DEF OpenKnown
        <3>1. CASE g = h
            BY <1>4, <1>8, <2>2, <3>1
        <3>2. CASE g \in open
            <4>1. PICK d \in Entries : g = handle[d]
                BY <2>1, <3>2 DEF Sound, OpenKnown
            <4>2. d # c
                BY <2>3, <3>2, <4>1
            <4> QED BY <1>4, <1>8, <2>3, <4>1, <4>2
        <3> QED BY <1>7, <3>1, <3>2
    <2>7. (IdleConnected /\ ListInUse)'
        BY <1>3, <1>4, <1>8, <2>1, <2>2, <2>3 DEF Sound, IdleConnected, ListInUse
    <2>8. ResetExclusive'
        BY <1>3, <1>4, <1>11, <1>12, <2>1 DEF Sound, ResetExclusive
    <2>9. ResultKnown'
        <3>1. ~work[w].ok
            BY <1>3, <1>4, <2>1 DEF Sound, ResultKnown
        <3>2. \A v \in Resetting : v # w => work[v].conn # c /\ work[v].conn \in Connection /\ v \in Worker
            BY <1>1, <2>2, Places DEF WorkKnown
        <3>3. pc'[w] = "relock" /\ (work'[w].ok <=> handle'[work'[w].conn] # Null)
            BY <1>8, <1>9, <1>10, <3>1
        <3>4. ASSUME NEW v \in Resetting, v # w
              PROVE  pc'[v] = pc[v] /\ work'[v] = work[v] /\ handle'[work[v].conn] = handle[work[v].conn]
            BY <1>8, <1>9, <3>2, <3>4
        <3>6. ASSUME NEW v \in Resetting, v # w, pc[v] = "connect" PROVE handle[work[v].conn] \notin open'
            BY <1>7, <2>1, <2>12, <3>6 DEF Sound, ResultKnown
        <3> QED BY <1>11, <2>1, <3>3, <3>4, <3>6 DEF Sound, ResultKnown
    <2>10. SessionExclusive'
        <3> SUFFICES ASSUME NEW u \in Holding'
                     PROVE  (/\ held[u] \in open
                             /\ \A v \in Holding : held[v] = held[u] => v = u
                             /\ \E d \in Entries :
                                   /\ \A e \in Entries : handle[e] = held[u] <=> e = d
                                   /\ inUse[d] /\ d \notin reconnList
                                   /\ \A v \in Resetting : work[v].conn # d)'
            BY DEF SessionExclusive
        <3>1. u \in Holding /\ held[u] # Null
            BY <1>1, <1>11, Places DEF TypeOK
        <3>2. PICK d \in Entries :
                  /\ \A e \in Entries : handle[e] = held[u] <=> e = d
                  /\ inUse[d] /\ d \notin reconnList
                  /\ \A v \in Resetting : work[v].conn # d
            BY <2>1, <3>1 DEF Sound, SessionExclusive
        <3>3. d # c /\ held[u] \in open /\ held[u] # h
            BY <1>2, <1>4, <1>7, <2>1, <3>1, <3>2 DEF Sound, SessionExclusive
        <3>4. /\ \A e \in Entries' : handle'[e] = held'[u] <=> e = d
              /\ inUse'[d] /\ d \notin reconnList' /\ d \in Entries'
              /\ \A v \in Resetting' : work'[v].conn # d
            BY <1>3, <1>4, <1>8, <1>11, <1>12, <2>3, <3>2, <3>3
        <3>5. held'[u] \in open' /\ \A v \in Holding' : held'[v] = held'[u] => v = u
            BY <1>3, <1>7, <1>11, <2>1, <3>1, <3>3 DEF Sound, SessionExclusive
        <3> QED BY <3>4, <3>5
    <2>11. NoLostPlace'
        <3> SUFFICES ASSUME NEW d \in Entries', inUse'[d]
                     PROVE  (\/ \E u \in Holding : held[u] = handle[d]
                             \/ d \in reconnList
                             \/ \E v \in Resetting : work[v].conn = d)'
            BY DEF NoLostPlace
        <3>1. CASE d = c
            BY <1>4, <1>10, <1>11, <3>1
        <3>2. CASE d # c
            BY <1>3, <1>4, <1>8, <1>11, <1>12, <2>1, <2>3, <3>2 DEF Sound, NoLostPlace
        <3> QED BY <3>1, <3>2
    <2> QED BY <2>4, <2>5, <2>6, <2>7, <2>8, <2>9, <2>10, <2>11 DEF Sound
<1> QED BY <1>14, <1>15 DEF IInv

\* A reconnect ends: the entry becomes idle with a session, or it leaves the pool without.
LEMMA ResetEnded ==
    ASSUME IInv, Unmistaken, NEW w \in Resetting, NEW c, c = work[w].conn, pc[w] = "relock",
           UNCHANGED <<handle, open, held, reconnList>>,
           Holding' = Holding, Resetting' = Resetting \ {w},
           \A v \in Resetting \ {w} : pc'[v] = pc[v] /\ work'[v] = work[v],
           \/ /\ work[w].ok /\ Entries' = Entries
              /\ \A d \in Entries : inUse'[d] <=> (inUse[d] /\ d # c)
           \/ /\ ~work[w].ok /\ Entries' = Entries \ {c}
              /\ \A d \in Entries : inUse'[d] <=> inUse[d]
    PROVE  Sound'
<1>1. Sound /\ TypeOK
    BY DEF IInv, Base
<1>2. /\ c \in Entries /\ inUse[c] /\ c \notin reconnList
      /\ \A v \in Resetting \ {w} : work[v].conn # c
      /\ work[w].ok <=> handle[c] # Null
    BY <1>1 DEF Sound, ResetExclusive, ResultKnown
<1>3. /\ Entries' \subseteq Entries
      /\ \A d \in Entries : d # c => d \in Entries' /\ (inUse'[d] <=> inUse[d])
    BY <1>2
<1>4. (HandlesDistinct /\ HandlesOpen)'
    <2>1. HandlesDistinct'
        BY <1>1, <1>3 DEF Sound, HandlesDistinct
    <2>2. \A v \in Resetting : pc[v] = "connect" => v # w
        OBVIOUS
    <2>3. HandlesOpen'
        BY <1>1, <1>3, <2>2 DEF Sound, HandlesOpen
    <2> QED BY <2>1, <2>3
<1>5. OpenKnown'
    <2>1. \A d \in Entries : handle[d] \in open => d \in Entries'
        <3>1. handle[c] = Null => handle[c] \notin open
            BY <1>1, Places DEF TypeOK
        <3> QED BY <1>2, <1>3, <3>1
    <2> QED BY <1>1, <2>1 DEF Sound, OpenKnown
<1>6. IdleConnected'
    BY <1>1, <1>2, <1>3 DEF Sound, IdleConnected
<1>7. ListInUse'
    BY <1>1, <1>2, <1>3 DEF Sound, ListInUse
<1>8. ResetExclusive'
    BY <1>1, <1>2, <1>3 DEF Sound, ResetExclusive
<1>9. ResultKnown'
    BY <1>1 DEF Sound, ResultKnown
<1>10. SessionExclusive'
    <2> SUFFICES ASSUME NEW u \in Holding'
                 PROVE  (/\ held[u] \in open
                         /\ \A v \in Holding : held[v] = held[u] => v = u
                         /\ \E d \in Entries :
                               /\ \A e \in Entries : handle[e] = held[u] <=> e = d
                               /\ inUse[d] /\ d \notin reconnList
                               /\ \A v \in Resetting : work[v].conn # d)'
        BY DEF SessionExclusive
    <2>1. PICK d \in Entries :
              /\ \A e \in Entries : handle[e] = held[u] <=> e = d
              /\ inUse[d] /\ d \notin reconnList
              /\ \A v \in Resetting : work[v].conn # d
        BY <1>1 DEF Sound, SessionExclusive
    <2>2. /\ \A e \in Entries' : handle'[e] = held'[u] <=> e = d
          /\ inUse'[d] /\ d \notin reconnList' /\ d \in Entries'
          /\ \A v \in Resetting' : work'[v].conn # d
        BY <1>3, <2>1
    <2> QED BY <1>1, <2>2 DEF Sound, SessionExclusive
<1>11. NoLostPlace'
    <2> SUFFICES ASSUME NEW d \in Entries', inUse'[d]
                 PROVE  (\/ \E u \in Holding : held[u] = handle[d]
                         \/ d \in reconnList
                         \/ \E v \in Resetting : work[v].conn = d)'
        BY DEF NoLostPlace
    <2>1. d \in Entries /\ d # c /\ inUse[d]
        BY <1>3
    <2> QED BY <1>1, <2>1 DEF Sound, NoLostPlace
<1> QED BY <1>4, <1>5, <1>6, <1>7, <1>8, <1>9, <1>10, <1>11 DEF Sound

\* The second locked section of DBConnectionPoolReleaseConnection.
LEMMA ReleaseEndIInv ==
    ASSUME IInv, NEW t \in Thread, ReleaseEnd(t)
    PROVE  IInv'
<1>1. TypeOK /\ EntriesDistinct /\ WorkKnown /\ Len(pool) <= Limit /\ RoundOver
    BY DEF IInv, Base
<1>2. PICK c, i : c = work[t].conn /\ i = work[t].index
    OBVIOUS
<1>3. /\ pc[t] = "relock"
      /\ \/ /\ work[t].ok
            /\ inUse' = [inUse EXCEPT ![c] = FALSE]
            /\ UNCHANGED <<pool, misremoved>>
         \/ /\ ~work[t].ok
            /\ pool' = IF i <= Len(pool) THEN RemoveAt(pool, i) ELSE pool
            /\ misremoved' = (misremoved \/ i > Len(pool) \/ pool[i] # c)
            /\ UNCHANGED inUse
      /\ work' = [work EXCEPT ![t] = NoWork]
      /\ pc' = [pc EXCEPT ![t] = "idle"]
      /\ UNCHANGED <<resetOnRelease, handle, open, held, reconnList, acquires, failures, rounds, aliased>>
    BY <1>2 DEF ReleaseEnd
<1>4. t \in Resetting /\ t \in Worker /\ t # Maint
    BY <1>1, <1>3, Places
<1>5. c \in Connection /\ i \in Nat /\ i >= 1
    <2>1. c \in Connection /\ i >= 1
        BY <1>1, <1>2, <1>4 DEF WorkKnown
    <2>2. i \in 0..Limit
        <3>1. work[t] \in [conn : Connection, index : 0..Limit, ok : BOOLEAN] \cup {NoWork}
            BY <1>1, <1>4 DEF TypeOK
        <3>2. NoWork.index \in 0..Limit
            BY SizeAssumption, LimitKnown DEF NoWork
        <3> QED BY <1>2, <3>1, <3>2
    <2> QED BY <2>1, <2>2
<1>6. /\ \A w \in Worker : w # t => pc'[w] = pc[w] /\ work'[w] = work[w]
      /\ pc'[t] = "idle" /\ pc'[Maint] = pc[Maint]
      /\ pc' \in [Worker -> {"idle", "acquire", "hold", "reset", "connect", "relock", "expire", "next"}]
      /\ work' \in [Worker -> [conn : Connection, index : 0..Limit, ok : BOOLEAN] \cup {NoWork}]
    BY <1>1, <1>3, <1>4, Places DEF TypeOK
<1>7. Holding' = Holding /\ Resetting' = Resetting \ {t}
    BY <1>1, <1>3, <1>4, <1>6, Places DEF Holding, Resetting
<1>8. /\ inUse' \in [Connection -> BOOLEAN] /\ misremoved' \in BOOLEAN
      /\ work[t].ok => \A d \in Connection : inUse'[d] <=> (inUse[d] /\ d # c)
    BY <1>1, <1>3, <1>5 DEF TypeOK
<1>9. /\ pool' \in Seq(Connection) /\ Len(pool') <= Limit /\ EntriesDistinct'
      /\ ~misremoved' => Entries' = IF work[t].ok THEN Entries ELSE Entries \ {c}
    <2>1. pool \in Seq(Connection) /\ Len(pool) \in Nat
        BY <1>1, Places DEF TypeOK
    <2>2. CASE work[t].ok \/ i > Len(pool)
        <3>1. UNCHANGED pool
            BY <1>3, <1>5, <2>1, <2>2
        <3>2. work[t].ok \/ misremoved'
            BY <1>3, <2>2, Zenon
        <3> QED BY <1>1, <2>1, <3>1, <3>2 DEF EntriesDistinct, Entries
    <2>3. CASE ~work[t].ok /\ i <= Len(pool)
        <3>1. i \in 1..Len(pool) /\ pool' = RemoveAt(pool, i)
            BY <1>3, <1>5, <2>1, <2>3
        <3>2. /\ pool' \in Seq(Connection) /\ Len(pool') <= Len(pool)
              /\ Range(pool') = Entries \ {pool[i]}
              /\ \A j, k \in 1..Len(pool') : pool'[j] = pool'[k] => j = k
            BY <1>1, <2>1, <3>1, RemovedAt
        <3>3. Len(pool') <= Limit
            BY <1>1, <2>1, <3>2, SizeAssumption, LimitKnown, LenProperties
        <3> QED BY <1>3, <2>3, <3>2, <3>3 DEF EntriesDistinct, Entries
    <2> QED BY <1>5, <2>1, <2>2, <2>3
<1>10. TypeOK'
    <2>1. \A u \in Thread : pc'[u] = "hold" => held'[u] # Null
        BY <1>1, <1>3, <1>6, Places DEF TypeOK
    <2> QED BY <1>1, <1>3, <1>6, <1>8, <1>9, <2>1 DEF TypeOK
<1>11. Base'
    <2>1. WorkKnown'
        BY <1>1, <1>6, <1>7, Places DEF WorkKnown
    <2>2. RoundOver'
        BY <1>1, <1>3, <1>6 DEF RoundOver
    <2> QED BY <1>9, <1>10, <2>1, <2>2 DEF Base
<1>12. ASSUME Unmistaken' PROVE Sound'
    <2>4. ~misremoved' /\ ~aliased
        BY <1>3, <1>12 DEF Unmistaken
    <2>5. ~misremoved
        BY <1>3, <2>4, Zenon
    <2>1. Unmistaken /\ ~misremoved'
        BY <2>4, <2>5 DEF Unmistaken
    <2>2. \A v \in Resetting \ {t} : pc'[v] = pc[v] /\ work'[v] = work[v]
        BY <1>1, <1>6, Places
    <2>3. \/ /\ work[t].ok /\ Entries' = Entries
             /\ \A d \in Entries : inUse'[d] <=> (inUse[d] /\ d # c)
          \/ /\ ~work[t].ok /\ Entries' = Entries \ {c}
             /\ \A d \in Entries : inUse'[d] <=> inUse[d]
        BY <1>1, <1>3, <1>8, <1>9, <2>1, Places
    <2> QED BY <1>2, <1>3, <1>4, <1>7, <2>1, <2>2, <2>3, ResetEnded
<1> QED BY <1>11, <1>12 DEF IInv

-----------------------------------------------------------------------------
(* Steps of the maintenance thread and of the operator *)

\* Idle entries are closed and removed.
LEMMA IdleRemoved ==
    ASSUME IInv, NEW S \in SUBSET Idle, Entries' = Entries \ S, open' = open \ HandlesOf(S),
           UNCHANGED <<inUse, handle, held, work, reconnList, misremoved, aliased>>,
           Holding' = Holding, Resetting' = Resetting, \A w \in Resetting : pc'[w] = pc[w]
    PROVE  (Unmistaken => Sound)'
<1> SUFFICES ASSUME Unmistaken' PROVE Sound'
    OBVIOUS
<1>1. Sound /\ Unmistaken
    BY DEF IInv, Unmistaken
<1>2. \A c \in S : c \in Entries /\ ~inUse[c] /\ handle[c] # Null
    BY <1>1 DEF Idle, Sound, IdleConnected
<1>3. \A c \in Entries' : c \in Entries /\ c \notin S
    OBVIOUS
<1>4. HandlesDistinct'
    BY <1>1, <1>3 DEF Sound, HandlesDistinct
<1>5. HandlesOpen'
    <2> SUFFICES ASSUME NEW c \in Entries', handle'[c] # Null
                 PROVE  handle'[c] \in open' \/ \E w \in Resetting' : pc'[w] = "connect" /\ work'[w].conn = c
        BY DEF HandlesOpen
    <2>1. handle[c] \in open \/ \E w \in Resetting : pc[w] = "connect" /\ work[w].conn = c
        BY <1>1, <1>3 DEF Sound, HandlesOpen
    <2>2. \A d \in S : handle[d] # handle[c]
        BY <1>1, <1>2, <1>3 DEF Sound, HandlesDistinct
    <2> QED BY <2>1, <2>2 DEF HandlesOf
<1>6. OpenKnown'
    <2> SUFFICES ASSUME NEW h \in open' PROVE \E c \in Entries' : h = handle'[c]
        BY DEF OpenKnown
    <2>1. PICK c \in Entries : h = handle[c]
        BY <1>1 DEF Sound, OpenKnown
    <2>2. c \notin S
        BY <2>1 DEF HandlesOf
    <2> QED BY <2>1, <2>2
<1>7. (IdleConnected /\ ListInUse)'
    BY <1>1, <1>2, <1>3 DEF Sound, IdleConnected, ListInUse
<1>8. ResetExclusive'
    BY <1>1, <1>2 DEF Sound, ResetExclusive
<1>9. ResultKnown'
    BY <1>1 DEF Sound, ResultKnown
<1>10. SessionExclusive'
    <2> SUFFICES ASSUME NEW u \in Holding'
                 PROVE  (/\ held[u] \in open
                         /\ \A v \in Holding : held[v] = held[u] => v = u
                         /\ \E d \in Entries :
                               /\ \A e \in Entries : handle[e] = held[u] <=> e = d
                               /\ inUse[d] /\ d \notin reconnList
                               /\ \A w \in Resetting : work[w].conn # d)'
        BY DEF SessionExclusive
    <2>1. PICK d \in Entries :
              /\ \A e \in Entries : handle[e] = held[u] <=> e = d
              /\ inUse[d] /\ d \notin reconnList
              /\ \A w \in Resetting : work[w].conn # d
        BY <1>1 DEF Sound, SessionExclusive
    <2>2. d \in Entries' /\ \A c \in S : handle[c] # held[u]
        BY <1>2, <2>1
    <2>3. held[u] \in open /\ \A v \in Holding : held[v] = held[u] => v = u
        BY <1>1 DEF Sound, SessionExclusive
    <2> QED BY <1>3, <2>1, <2>2, <2>3 DEF HandlesOf
<1>11. NoLostPlace'
    BY <1>1, <1>3 DEF Sound, NoLostPlace
<1> QED BY <1>4, <1>5, <1>6, <1>7, <1>8, <1>9, <1>10, <1>11 DEF Sound

\* DBConnectionPoolShrink closes idle entries above the base size.
LEMMA ShrinkIInv ==
    ASSUME IInv, Shrink
    PROVE  IInv'
<1>1. TypeOK /\ EntriesDistinct /\ WorkKnown /\ Len(pool) <= Limit /\ RoundOver
    BY DEF IInv, Base
<1>2. PICK S \in SUBSET MayShrink : pool' = Without(S) /\ open' = open \ HandlesOf(S)
    BY DEF Shrink
<1>3. /\ pc[Maint] = "idle" /\ pc' = [pc EXCEPT ![Maint] = "expire"]
      /\ rounds < MaxRounds /\ rounds' = rounds + 1
      /\ UNCHANGED <<inUse, resetOnRelease, handle, held, work, reconnList, acquires, failures, misremoved, aliased>>
    BY DEF Shrink
<1>4. S \in SUBSET Idle
    BY <1>2 DEF MayShrink
<1>5. /\ pool' \in Seq(Connection) /\ Len(pool') <= Limit
      /\ Entries' = Entries \ S /\ EntriesDistinct'
    <2>1. pool \in Seq(Connection)
        BY <1>1 DEF TypeOK
    <2>2. /\ pool' \in Seq(Connection) /\ Len(pool') <= Len(pool)
          /\ Range(pool') = Entries \ S
          /\ \A i, j \in 1..Len(pool') : pool'[i] = pool'[j] => i = j
        BY <1>1, <1>2, <2>1, WithoutProperties
    <2> QED BY <1>1, <2>1, <2>2, LenProperties, SizeAssumption, LimitKnown DEF Entries, EntriesDistinct
<1>6. /\ \A w \in Worker : w # Maint => pc'[w] = pc[w]
      /\ pc'[Maint] = "expire"
      /\ pc' \in [Worker -> {"idle", "acquire", "hold", "reset", "connect", "relock", "expire", "next"}]
    BY <1>1, <1>3, Places DEF TypeOK
<1>7. Holding' = Holding /\ Resetting' = Resetting /\ \A w \in Resetting : pc'[w] = pc[w]
    BY <1>1, <1>3, <1>6, Places DEF Holding, Resetting
<1>8. TypeOK'
    <2>1. rounds' \in 0..MaxRounds /\ open' \subseteq Handle
        BY <1>1, <1>2, <1>3, SizeAssumption, LimitKnown DEF TypeOK
    <2>2. \A u \in Thread : pc'[u] = "hold" => held'[u] # Null
        BY <1>1, <1>3, <1>6, Places DEF TypeOK
    <2> QED BY <1>1, <1>3, <1>5, <1>6, <2>1, <2>2 DEF TypeOK
<1>9. Base'
    BY <1>1, <1>3, <1>5, <1>7, <1>8 DEF Base, WorkKnown, RoundOver
<1> QED BY <1>2, <1>3, <1>4, <1>5, <1>7, <1>9, IdleRemoved DEF IInv

\* Idle entries are closed, and some of them get new handles at free addresses.
LEMMA IdleReplaced ==
    ASSUME IInv, NEW S \in SUBSET Idle, NEW K, K = Idle \ S, Entries' = Entries \ S,
           \A c \in K : handle'[c] \in Handle /\ handle'[c] \notin open \ HandlesOf(Idle),
           \A c, d \in K : handle'[c] = handle'[d] => c = d,
           \A c \in Entries \ Idle : handle'[c] = handle[c],
           open' = (open \ HandlesOf(Idle)) \cup {handle'[c] : c \in K},
           ~aliased' => ~aliased /\ \A c \in K : handle'[c] \notin Dangling(Worker),
           UNCHANGED <<inUse, pc, held, work, reconnList, misremoved>>
    PROVE  (Unmistaken => Sound)'
<1> SUFFICES ASSUME Unmistaken' PROVE Sound'
    OBVIOUS
<1>1. Sound /\ Unmistaken /\ TypeOK /\ ~aliased'
    BY DEF IInv, Unmistaken, Base
<1>2. Holding' = Holding /\ Resetting' = Resetting
    BY DEF Holding, Resetting
<1>3. /\ \A c \in Entries : c \in Idle <=> ~inUse[c]
      /\ Idle \subseteq Entries /\ K \subseteq Idle /\ Entries' = (Entries \ Idle) \cup K
    BY DEF Idle
<1>4. \A c \in K : handle'[c] # Null
    BY <1>1, Places
<1>5. \A c \in Idle : handle[c] # Null
    BY <1>1, <1>3 DEF Sound, IdleConnected
<1>6. ASSUME NEW d \in Entries \ Idle, handle[d] # Null
      PROVE  /\ \/ handle[d] \in open \ HandlesOf(Idle)
                \/ \E w \in Resetting : pc[w] = "connect" /\ work[w].conn = d
             /\ \A c \in K : handle'[c] # handle[d]
    <2>1. handle[d] \in open \/ \E w \in Resetting : pc[w] = "connect" /\ work[w].conn = d
        BY <1>1, <1>6 DEF Sound, HandlesOpen
    <2>2. \A c \in Idle : handle[c] # handle[d]
        BY <1>1, <1>3, <1>5 DEF Sound, HandlesDistinct
    <2>3. handle[d] \in open => handle[d] \in open \ HandlesOf(Idle)
        BY <2>2 DEF HandlesOf
    <2>4. ASSUME NEW w \in Resetting, pc[w] = "connect", work[w].conn = d
          PROVE  handle[d] \in Dangling(Worker)
        BY <1>1, <2>4, Places DEF Dangling
    <2> QED BY <1>1, <2>1, <2>3, <2>4
<1>7. HandlesDistinct'
    <2> SUFFICES ASSUME NEW c \in Entries', NEW d \in Entries', handle'[c] = handle'[d], handle'[c] # Null
                 PROVE  c = d
        BY DEF HandlesDistinct
    <2>1. CASE c \in K /\ d \in K
        BY <2>1
    <2>2. CASE c \in K /\ d \in Entries \ Idle
        BY <1>6, <2>2
    <2>3. CASE c \in Entries \ Idle /\ d \in K
        BY <1>6, <2>3
    <2>4. CASE c \in Entries \ Idle /\ d \in Entries \ Idle
        BY <1>1, <2>4 DEF Sound, HandlesDistinct
    <2> QED BY <1>3, <2>1, <2>2, <2>3, <2>4
<1>8. HandlesOpen'
    <2> SUFFICES ASSUME NEW c \in Entries', handle'[c] # Null
                 PROVE  handle'[c] \in open' \/ \E w \in Resetting' : pc'[w] = "connect" /\ work'[w].conn = c
        BY DEF HandlesOpen
    <2>1. CASE c \in K
        BY <2>1
    <2>2. CASE c \in Entries \ Idle
        BY <1>2, <1>6, <2>2
    <2> QED BY <1>3, <2>1, <2>2
<1>9. OpenKnown'
    <2> SUFFICES ASSUME NEW h \in open' PROVE \E c \in Entries' : h = handle'[c]
        BY DEF OpenKnown
    <2>1. CASE h \in open \ HandlesOf(Idle)
        <3>1. PICK c \in Entries : h = handle[c]
            BY <1>1, <2>1 DEF Sound, OpenKnown
        <3>2. c \notin Idle
            BY <2>1, <3>1 DEF HandlesOf
        <3> QED BY <1>3, <3>1, <3>2
    <2>2. CASE h \in {handle'[c] : c \in K}
        BY <1>3, <2>2
    <2> QED BY <2>1, <2>2
<1>10. IdleConnected'
    BY <1>3, <1>4 DEF IdleConnected
<1>11. ListInUse'
    BY <1>1, <1>3 DEF Sound, ListInUse
<1>12. \A w \in Resetting : work[w].conn \in Entries \ Idle
    BY <1>1, <1>3 DEF Sound, ResetExclusive
<1>13. ResetExclusive'
    BY <1>1, <1>2, <1>3, <1>12 DEF Sound, ResetExclusive
<1>14. ResultKnown'
    <2>1. ASSUME NEW w \in Resetting, pc[w] = "connect" PROVE handle'[work[w].conn] \notin open'
        <3>1. handle[work[w].conn] \notin open /\ handle'[work[w].conn] = handle[work[w].conn]
            BY <1>1, <1>12, <2>1 DEF Sound, ResultKnown
        <3>2. \A c \in K : handle'[c] # handle[work[w].conn]
            BY <1>4, <1>6, <1>12
        <3> QED BY <3>1, <3>2
    <2> QED BY <1>1, <1>2, <1>12, <2>1 DEF Sound, ResultKnown
<1>15. SessionExclusive'
    <2> SUFFICES ASSUME NEW u \in Holding'
                 PROVE  (/\ held[u] \in open
                         /\ \A v \in Holding : held[v] = held[u] => v = u
                         /\ \E d \in Entries :
                               /\ \A e \in Entries : handle[e] = held[u] <=> e = d
                               /\ inUse[d] /\ d \notin reconnList
                               /\ \A w \in Resetting : work[w].conn # d)'
        BY DEF SessionExclusive
    <2>1. PICK d \in Entries :
              /\ \A e \in Entries : handle[e] = held[u] <=> e = d
              /\ inUse[d] /\ d \notin reconnList
              /\ \A w \in Resetting : work[w].conn # d
        BY <1>1, <1>2 DEF Sound, SessionExclusive
    <2>2. held[u] \in open /\ \A v \in Holding : held[v] = held[u] => v = u
        BY <1>1, <1>2 DEF Sound, SessionExclusive
    <2>3. d \in Entries \ Idle /\ handle[d] = held[u] /\ held[u] # Null
        BY <1>1, <1>2, <1>3, <2>1, Places DEF TypeOK
    <2>4. held[u] \in open' /\ \A c \in K : handle'[c] # held[u]
        BY <1>6, <2>1, <2>3
    <2>5. \A e \in Entries' : handle'[e] = held[u] <=> e = d
        BY <1>3, <2>1, <2>3, <2>4
    <2> QED BY <1>2, <1>3, <2>1, <2>2, <2>3, <2>4, <2>5
<1>16. NoLostPlace'
    <2> SUFFICES ASSUME NEW d \in Entries', inUse'[d]
                 PROVE  (\/ \E u \in Holding : held[u] = handle[d]
                         \/ d \in reconnList
                         \/ \E w \in Resetting : work[w].conn = d)'
        BY DEF NoLostPlace
    <2>1. d \in Entries \ Idle /\ inUse[d]
        BY <1>3
    <2> QED BY <1>1, <1>2, <2>1 DEF Sound, NoLostPlace
<1> QED BY <1>7, <1>8, <1>9, <1>10, <1>11, <1>13, <1>14, <1>15, <1>16 DEF Sound

\* DBConnectionPoolReset closes idle entries and reconnects others.
LEMMA ResetIInv ==
    ASSUME IInv, Reset
    PROVE  IInv'
<1>1. TypeOK /\ EntriesDistinct /\ WorkKnown /\ Len(pool) <= Limit /\ RoundOver
    BY DEF IInv, Base
<1>2. \E S \in SUBSET Idle, T \in SUBSET Idle : \E new \in [Idle \ S -> Handle \ (open \ HandlesOf(Idle))] :
          /\ failures + Cardinality(T) <= MaxFailures /\ failures' = failures + Cardinality(T)
          /\ \A c, d \in Idle \ S : new[d] = new[c] => d = c
          /\ pool' = Without(S)
          /\ handle' = [c \in Connection |-> IF c \in Idle \ S THEN new[c] ELSE handle[c]]
          /\ open' = (open \ HandlesOf(Idle)) \cup {new[c] : c \in Idle \ S}
          /\ aliased' = (aliased \/ {new[c] : c \in Idle \ S} \cap Dangling(Worker) # {})
    <2> DEFINE excess == {c \in Idle : Cardinality({d \in Idle : Before(d, c)}) < Len(pool) - BasePoolSize}
               left == open \ HandlesOf(Idle)
    <2>1. PICK T \in SUBSET (Idle \ excess) : \E new \in [Idle \ (excess \cup T) -> Handle \ left] :
              /\ failures + Cardinality(T) <= MaxFailures /\ failures' = failures + Cardinality(T)
              /\ \A c \in DOMAIN new : \A d \in Idle :
                    (d \in DOMAIN new /\ new[d] = new[c] => d = c) /\ (Before(c, d) => new[c] # handle[d])
              /\ pool' = Without(excess \cup T)
              /\ handle' = [c \in Connection |-> IF c \in DOMAIN new THEN new[c] ELSE handle[c]]
              /\ open' = left \cup Range(new)
              /\ aliased' = (aliased \/ Range(new) \cap Dangling(Worker) # {})
        BY DEF Reset
    <2> HIDE DEF excess
    <2>2. PICK new \in [Idle \ (excess \cup T) -> Handle \ left] :
              /\ failures + Cardinality(T) <= MaxFailures /\ failures' = failures + Cardinality(T)
              /\ \A c \in DOMAIN new : \A d \in Idle : d \in DOMAIN new /\ new[d] = new[c] => d = c
              /\ pool' = Without(excess \cup T)
              /\ handle' = [c \in Connection |-> IF c \in DOMAIN new THEN new[c] ELSE handle[c]]
              /\ open' = left \cup Range(new)
              /\ aliased' = (aliased \/ Range(new) \cap Dangling(Worker) # {})
        BY <2>1
    <2>3. PICK S : S = excess \cup T
        OBVIOUS
    <2>4. S \in SUBSET Idle /\ T \in SUBSET Idle
        BY <2>3 DEF excess
    <2>5. DOMAIN new = Idle \ S /\ Range(new) = {new[c] : c \in Idle \ S}
        BY <2>3 DEF Range
    <2>6. \A c, d \in Idle \ S : new[d] = new[c] => d = c
        BY <2>2, <2>5
    <2>7. new \in [Idle \ S -> Handle \ (open \ HandlesOf(Idle))]
        BY <2>3
    <2>8. /\ pool' = Without(S)
          /\ handle' = [c \in Connection |-> IF c \in Idle \ S THEN new[c] ELSE handle[c]]
          /\ open' = (open \ HandlesOf(Idle)) \cup {new[c] : c \in Idle \ S}
          /\ aliased' = (aliased \/ {new[c] : c \in Idle \ S} \cap Dangling(Worker) # {})
        BY <2>2, <2>3, <2>5
    <2> USE <2>4, <2>7
    <2> WITNESS S \in SUBSET Idle, T \in SUBSET Idle
    <2> WITNESS new \in [Idle \ S -> Handle \ (open \ HandlesOf(Idle))]
    <2> QED BY <2>2, <2>6, <2>8
<1>3. PICK S \in SUBSET Idle, T \in SUBSET Idle : \E new \in [Idle \ S -> Handle \ (open \ HandlesOf(Idle))] :
          /\ failures + Cardinality(T) <= MaxFailures /\ failures' = failures + Cardinality(T)
          /\ \A c, d \in Idle \ S : new[d] = new[c] => d = c
          /\ pool' = Without(S)
          /\ handle' = [c \in Connection |-> IF c \in Idle \ S THEN new[c] ELSE handle[c]]
          /\ open' = (open \ HandlesOf(Idle)) \cup {new[c] : c \in Idle \ S}
          /\ aliased' = (aliased \/ {new[c] : c \in Idle \ S} \cap Dangling(Worker) # {})
    BY <1>2
<1>4. PICK new \in [Idle \ S -> Handle \ (open \ HandlesOf(Idle))] :
          /\ failures + Cardinality(T) <= MaxFailures /\ failures' = failures + Cardinality(T)
          /\ \A c, d \in Idle \ S : new[d] = new[c] => d = c
          /\ pool' = Without(S)
          /\ handle' = [c \in Connection |-> IF c \in Idle \ S THEN new[c] ELSE handle[c]]
          /\ open' = (open \ HandlesOf(Idle)) \cup {new[c] : c \in Idle \ S}
          /\ aliased' = (aliased \/ {new[c] : c \in Idle \ S} \cap Dangling(Worker) # {})
    BY <1>3
<1>5. /\ rounds < MaxRounds /\ rounds' = rounds + 1 /\ resetOnRelease' = Marked
      /\ UNCHANGED <<inUse, pc, held, work, reconnList, acquires, misremoved>>
    BY DEF Reset
<1>6. /\ pool' \in Seq(Connection) /\ Len(pool') <= Limit
      /\ Entries' = Entries \ S /\ EntriesDistinct'
    <2>1. pool \in Seq(Connection)
        BY <1>1 DEF TypeOK
    <2>2. /\ pool' \in Seq(Connection) /\ Len(pool') <= Len(pool)
          /\ Range(pool') = Entries \ S
          /\ \A i, j \in 1..Len(pool') : pool'[i] = pool'[j] => i = j
        BY <1>1, <1>4, <2>1, WithoutProperties
    <2> QED BY <1>1, <2>1, <2>2, LenProperties, LimitKnown DEF Entries, EntriesDistinct
<1>7. Cardinality(T) \in Nat
    <2>1. IsFiniteSet(Connection)
        BY SizeAssumption, FS_Interval DEF Connection
    <2>2. T \in SUBSET Connection
        BY <1>1, Places DEF Idle
    <2> QED BY <2>1, <2>2, FS_Subset, FS_CardinalityType
<1>8. Holding' = Holding /\ Resetting' = Resetting
    BY <1>5 DEF Holding, Resetting
<1>9. Idle \subseteq Entries /\ Entries \subseteq Connection
    BY <1>1, Places DEF Idle
<1>10. /\ \A c \in Idle \ S : handle'[c] = new[c] /\ new[c] \in Handle /\ new[c] \notin open \ HandlesOf(Idle)
       /\ \A c \in Entries \ Idle : handle'[c] = handle[c]
    BY <1>4, <1>9
<1>11. TypeOK'
    <2>1. rounds' \in 0..MaxRounds /\ failures' \in 0..MaxFailures
        BY <1>1, <1>4, <1>5, <1>7, SizeAssumption DEF TypeOK
    <2>2. resetOnRelease' \in [Connection -> BOOLEAN]
        BY <1>1, <1>5 DEF TypeOK, Marked
    <2>3. open' \subseteq Handle
        BY <1>1, <1>4 DEF TypeOK
    <2>4. handle' \in [Connection -> Handle \cup {Null}]
        BY <1>1, <1>4 DEF TypeOK
    <2>5. aliased' \in BOOLEAN
        BY <1>1, <1>4 DEF TypeOK
    <2> QED BY <1>1, <1>5, <1>6, <2>1, <2>2, <2>3, <2>4, <2>5 DEF TypeOK
<1>12. Base'
    BY <1>1, <1>5, <1>6, <1>8, <1>11 DEF Base, WorkKnown, RoundOver
<1>13. (Unmistaken => Sound)'
    <2>1. PICK K : K = Idle \ S
        OBVIOUS
    <2>2. \A c \in K : handle'[c] \in Handle /\ handle'[c] \notin open \ HandlesOf(Idle)
        BY <1>10, <2>1
    <2>3. \A c, d \in K : handle'[c] = handle'[d] => c = d
        BY <1>4, <1>10, <2>1
    <2>4. open' = (open \ HandlesOf(Idle)) \cup {handle'[c] : c \in K}
        BY <1>4, <1>10, <2>1
    <2>5. ~aliased' => ~aliased /\ \A c \in K : handle'[c] \notin Dangling(Worker)
        BY <1>4, <1>10, <2>1
    <2> QED BY <1>5, <1>6, <1>10, <2>1, <2>2, <2>3, <2>4, <2>5, IdleReplaced
<1> QED BY <1>12, <1>13 DEF IInv

\* ResetExpiredConnections takes idle entries out of use.
LEMMA ExpireIInv ==
    ASSUME IInv, Expire
    PROVE  IInv'
<1>1. TypeOK /\ EntriesDistinct /\ WorkKnown /\ RoundOver
    BY DEF IInv, Base
<1>2. PICK S \in SUBSET Idle : reconnList' = S /\ inUse' = [c \in Connection |-> inUse[c] \/ c \in S]
    BY DEF Expire
<1>3. /\ pc[Maint] = "expire" /\ pc' = [pc EXCEPT ![Maint] = "next"]
      /\ UNCHANGED <<pool, resetOnRelease, handle, open, held, work, acquires, failures, rounds, misremoved, aliased>>
    BY DEF Expire
<1>4. /\ \A c \in S : c \in Entries /\ c \in Connection /\ ~inUse[c]
      /\ Entries' = Entries /\ Entries \subseteq Connection /\ reconnList = {}
    BY <1>1, <1>3, Places DEF Idle, Entries, RoundOver
<1>5. /\ inUse' \in [Connection -> BOOLEAN]
      /\ \A c \in Connection : inUse'[c] <=> (inUse[c] \/ c \in S)
    BY <1>1, <1>2 DEF TypeOK
<1>6. /\ \A w \in Worker : w # Maint => pc'[w] = pc[w]
      /\ pc'[Maint] = "next"
      /\ pc' \in [Worker -> {"idle", "acquire", "hold", "reset", "connect", "relock", "expire", "next"}]
    BY <1>1, <1>3, Places DEF TypeOK
<1>7. Holding' = Holding /\ Resetting' = Resetting /\ \A w \in Resetting : pc'[w] = pc[w]
    BY <1>1, <1>3, <1>6, Places DEF Holding, Resetting
<1>8. TypeOK'
    <2>1. \A u \in Thread : pc'[u] = "hold" => held'[u] # Null
        BY <1>1, <1>3, <1>6, Places DEF TypeOK
    <2>2. reconnList' \subseteq Connection
        BY <1>2, <1>4
    <2> QED BY <1>1, <1>3, <1>5, <1>6, <2>1, <2>2 DEF TypeOK
<1>9. Base'
    BY <1>3, <1>6, <1>7, <1>8 DEF IInv, Base, EntriesDistinct, WorkKnown, RoundOver
<1>10. ASSUME Unmistaken' PROVE Sound'
    <2>1. Sound /\ Unmistaken
        BY <1>3, <1>10 DEF IInv, Unmistaken
    <2>2. (HandlesDistinct /\ HandlesOpen /\ OpenKnown)'
        BY <1>3, <1>4, <1>7, <2>1 DEF Sound, HandlesDistinct, HandlesOpen, OpenKnown
    <2>3. (IdleConnected /\ ListInUse)'
        BY <1>2, <1>3, <1>4, <1>5, <2>1 DEF Sound, IdleConnected, ListInUse
    <2>4. \A w \in Resetting : work[w].conn \notin S
        BY <1>4, <2>1 DEF Sound, ResetExclusive
    <2>5. (ResetExclusive /\ ResultKnown)'
        BY <1>2, <1>3, <1>4, <1>5, <1>7, <2>1, <2>4 DEF Sound, ResetExclusive, ResultKnown
    <2>6. SessionExclusive'
        <3> SUFFICES ASSUME NEW u \in Holding'
                     PROVE  (/\ held[u] \in open
                             /\ \A v \in Holding : held[v] = held[u] => v = u
                             /\ \E d \in Entries :
                                   /\ \A e \in Entries : handle[e] = held[u] <=> e = d
                                   /\ inUse[d] /\ d \notin reconnList
                                   /\ \A w \in Resetting : work[w].conn # d)'
            BY DEF SessionExclusive
        <3>1. PICK d \in Entries :
                  /\ \A e \in Entries : handle[e] = held[u] <=> e = d
                  /\ inUse[d] /\ d \notin reconnList
                  /\ \A w \in Resetting : work[w].conn # d
            BY <1>7, <2>1 DEF Sound, SessionExclusive
        <3>2. /\ \A e \in Entries' : handle'[e] = held'[u] <=> e = d
              /\ inUse'[d] /\ d \notin reconnList' /\ d \in Entries'
              /\ \A w \in Resetting' : work'[w].conn # d
            BY <1>2, <1>3, <1>4, <1>5, <1>7, <3>1
        <3>3. held'[u] \in open' /\ \A v \in Holding' : held'[v] = held'[u] => v = u
            BY <1>3, <1>7, <2>1 DEF Sound, SessionExclusive
        <3> QED BY <3>2, <3>3
    <2>7. NoLostPlace'
        BY <1>2, <1>3, <1>4, <1>5, <1>7, <2>1 DEF Sound, NoLostPlace
    <2> QED BY <2>2, <2>3, <2>5, <2>6, <2>7 DEF Sound
<1> QED BY <1>9, <1>10 DEF IInv

\* ResetExpiredConnections goes on with the next entry of its list.
LEMMA MaintNextIInv ==
    ASSUME IInv, MaintNext
    PROVE  IInv'
<1>1. TypeOK /\ EntriesDistinct /\ WorkKnown
    BY DEF IInv, Base
<1>2. pc[Maint] = "next" /\ UNCHANGED <<entryVars, held, acquires, failures, rounds, misremoved, aliased>>
    BY DEF MaintNext
<1>3. Maint \in Worker /\ Maint \notin Thread /\ Maint \notin Resetting /\ Entries' = Entries
    BY <1>1, <1>2, Places DEF Entries, entryVars
<1>4. CASE reconnList = {} /\ pc' = [pc EXCEPT ![Maint] = "idle"] /\ UNCHANGED <<work, reconnList>>
    <2>1. /\ \A w \in Worker : w # Maint => pc'[w] = pc[w]
          /\ pc'[Maint] = "idle"
          /\ pc' \in [Worker -> {"idle", "acquire", "hold", "reset", "connect", "relock", "expire", "next"}]
        BY <1>1, <1>3, <1>4 DEF TypeOK
    <2>2. Holding' = Holding /\ Resetting' = Resetting /\ \A w \in Resetting : pc'[w] = pc[w]
        BY <1>1, <1>2, <1>3, <2>1, Places DEF Holding, Resetting
    <2>3. TypeOK'
        <3>1. \A u \in Thread : pc'[u] = "hold" => held'[u] # Null
            BY <1>1, <1>2, <1>3, <2>1, Places DEF TypeOK
        <3> QED BY <1>1, <1>2, <1>4, <2>1, <3>1 DEF TypeOK, entryVars
    <2>4. Base'
        BY <1>2, <1>4, <2>2, <2>3 DEF IInv, Base, EntriesDistinct, WorkKnown, RoundOver, entryVars
    <2> QED BY <1>2, <1>4, <2>2, <2>4, NothingMoves DEF IInv
<1>5. ASSUME NEW c \in reconnList,
             work' = [work EXCEPT ![Maint] = [conn |-> c, index |-> 0, ok |-> FALSE]],
             reconnList' = reconnList \ {c}, pc' = [pc EXCEPT ![Maint] = "reset"]
      PROVE  IInv'
    <2>1. /\ \A w \in Worker : w # Maint => pc'[w] = pc[w] /\ work'[w] = work[w]
          /\ pc'[Maint] = "reset"
          /\ pc' \in [Worker -> {"idle", "acquire", "hold", "reset", "connect", "relock", "expire", "next"}]
        BY <1>1, <1>3, <1>5 DEF TypeOK
    <2>2. /\ c \in Connection /\ work'[Maint] = [conn |-> c, index |-> 0, ok |-> FALSE]
          /\ work' \in [Worker -> [conn : Connection, index : 0..Limit, ok : BOOLEAN] \cup {NoWork}]
        <3>1. c \in Connection /\ 0 \in 0..Limit
            BY <1>1, SizeAssumption, LimitKnown DEF TypeOK
        <3> QED BY <1>1, <1>3, <1>5, <3>1 DEF TypeOK
    <2>3. Holding' = Holding /\ Resetting' = Resetting \cup {Maint}
        BY <1>1, <1>2, <1>3, <2>1, Places DEF Holding, Resetting
    <2>4. \A w \in Resetting : pc'[w] = pc[w] /\ work'[w] = work[w]
        BY <1>1, <1>3, <2>1, Places
    <2>5. TypeOK'
        <3>1. \A u \in Thread : pc'[u] = "hold" => held'[u] # Null
            BY <1>1, <1>2, <1>3, <2>1, Places DEF TypeOK
        <3>2. reconnList' \subseteq Connection
            BY <1>1, <1>5 DEF TypeOK
        <3> QED BY <1>1, <1>2, <2>1, <2>2, <3>1, <3>2 DEF TypeOK, entryVars
    <2>6. Base'
        <3>1. WorkKnown'
            BY <1>1, <1>3, <2>2, <2>3, <2>4 DEF WorkKnown
        <3> QED BY <1>2, <2>1, <2>5, <3>1 DEF IInv, Base, EntriesDistinct, RoundOver, entryVars
    <2>7. ASSUME Unmistaken' PROVE Sound'
        <3>1. Sound /\ Unmistaken
            BY <1>2, <2>7 DEF IInv, Unmistaken
        <3>2. c \in Entries /\ inUse[c] /\ \A w \in Resetting : work[w].conn # c
            BY <3>1, <1>5 DEF Sound, ListInUse, ResetExclusive
        <3>3. (HandlesDistinct /\ HandlesOpen /\ OpenKnown /\ IdleConnected)'
            BY <1>2, <1>3, <2>3, <2>4, <3>1
            DEF Sound, HandlesDistinct, HandlesOpen, OpenKnown, IdleConnected, entryVars
        <3>4. ListInUse'
            BY <1>2, <1>3, <1>5, <3>1 DEF Sound, ListInUse, entryVars
        <3>5. ResetExclusive'
            BY <1>2, <1>3, <1>5, <2>2, <2>3, <2>4, <3>1, <3>2 DEF Sound, ResetExclusive, entryVars
        <3>6. ResultKnown'
            BY <1>2, <2>1, <2>2, <2>3, <2>4, <3>1 DEF Sound, ResultKnown, entryVars
        <3>7. SessionExclusive'
            <4> SUFFICES ASSUME NEW u \in Holding'
                         PROVE  (/\ held[u] \in open
                                 /\ \A v \in Holding : held[v] = held[u] => v = u
                                 /\ \E d \in Entries :
                                       /\ \A e \in Entries : handle[e] = held[u] <=> e = d
                                       /\ inUse[d] /\ d \notin reconnList
                                       /\ \A w \in Resetting : work[w].conn # d)'
                BY DEF SessionExclusive
            <4>1. PICK d \in Entries :
                      /\ \A e \in Entries : handle[e] = held[u] <=> e = d
                      /\ inUse[d] /\ d \notin reconnList
                      /\ \A w \in Resetting : work[w].conn # d
                BY <2>3, <3>1 DEF Sound, SessionExclusive
            <4>2. /\ \A e \in Entries' : handle'[e] = held'[u] <=> e = d
                  /\ inUse'[d] /\ d \notin reconnList' /\ d \in Entries'
                  /\ \A w \in Resetting' : work'[w].conn # d
                BY <1>2, <1>3, <1>5, <2>2, <2>3, <2>4, <4>1 DEF entryVars
            <4>3. held'[u] \in open' /\ \A v \in Holding' : held'[v] = held'[u] => v = u
                BY <1>2, <2>3, <3>1 DEF Sound, SessionExclusive, entryVars
            <4> QED BY <4>2, <4>3
        <3>8. NoLostPlace'
            <4> SUFFICES ASSUME NEW d \in Entries', inUse'[d]
                         PROVE  (\/ \E u \in Holding : held[u] = handle[d]
                                 \/ d \in reconnList
                                 \/ \E w \in Resetting : work[w].conn = d)'
                BY DEF NoLostPlace
            <4>1. CASE d = c
                BY <2>2, <2>3, <4>1
            <4>2. CASE d # c
                BY <1>2, <1>3, <1>5, <2>3, <2>4, <3>1, <4>2 DEF Sound, NoLostPlace, entryVars
            <4> QED BY <4>1, <4>2
        <3> QED BY <3>3, <3>4, <3>5, <3>6, <3>7, <3>8 DEF Sound
    <2> QED BY <2>6, <2>7 DEF IInv
<1> QED BY <1>4, <1>5 DEF MaintNext

\* ResetExpiredConnections after a reconnect.
LEMMA MaintEndIInv ==
    ASSUME IInv, MaintEnd
    PROVE  IInv'
<1>1. TypeOK /\ EntriesDistinct /\ WorkKnown /\ Len(pool) <= Limit /\ RoundOver
    BY DEF IInv, Base
<1>2. PICK c : c = work[Maint].conn
    OBVIOUS
<1>3. /\ pc[Maint] = "relock"
      /\ \/ /\ work[Maint].ok
            /\ inUse' = [inUse EXCEPT ![c] = FALSE]
            /\ UNCHANGED pool
         \/ /\ ~work[Maint].ok
            /\ pool' = Without({c})
            /\ UNCHANGED inUse
      /\ work' = [work EXCEPT ![Maint] = NoWork]
      /\ pc' = [pc EXCEPT ![Maint] = "next"]
      /\ UNCHANGED <<resetOnRelease, handle, open, held, reconnList, acquires, failures, rounds, misremoved, aliased>>
    BY <1>2 DEF MaintEnd
<1>4. Maint \in Resetting /\ Maint \in Worker /\ Maint \notin Thread /\ c \in Connection
    BY <1>1, <1>2, <1>3, Places DEF WorkKnown
<1>5. /\ \A w \in Worker : w # Maint => pc'[w] = pc[w] /\ work'[w] = work[w]
      /\ pc'[Maint] = "next"
      /\ pc' \in [Worker -> {"idle", "acquire", "hold", "reset", "connect", "relock", "expire", "next"}]
      /\ work' \in [Worker -> [conn : Connection, index : 0..Limit, ok : BOOLEAN] \cup {NoWork}]
    BY <1>1, <1>3, <1>4 DEF TypeOK
<1>6. Holding' = Holding /\ Resetting' = Resetting \ {Maint}
    BY <1>1, <1>3, <1>4, <1>5, Places DEF Holding, Resetting
<1>7. /\ inUse' \in [Connection -> BOOLEAN]
      /\ work[Maint].ok => \A d \in Connection : inUse'[d] <=> (inUse[d] /\ d # c)
    BY <1>1, <1>3, <1>4 DEF TypeOK
<1>8. /\ pool' \in Seq(Connection) /\ Len(pool') <= Limit /\ EntriesDistinct'
      /\ Entries' = IF work[Maint].ok THEN Entries ELSE Entries \ {c}
    <2>1. pool \in Seq(Connection)
        BY <1>1 DEF TypeOK
    <2>2. CASE work[Maint].ok
        BY <1>1, <1>3, <2>1, <2>2 DEF EntriesDistinct, Entries
    <2>3. CASE ~work[Maint].ok
        <3>1. /\ pool' \in Seq(Connection) /\ Len(pool') <= Len(pool)
              /\ Range(pool') = Entries \ {c}
              /\ \A i, j \in 1..Len(pool') : pool'[i] = pool'[j] => i = j
            BY <1>1, <1>3, <2>1, <2>3, WithoutProperties
        <3> QED BY <1>1, <2>1, <2>3, <3>1, LenProperties, SizeAssumption, LimitKnown DEF Entries, EntriesDistinct
    <2> QED BY <2>2, <2>3
<1>9. TypeOK'
    <2>1. \A u \in Thread : pc'[u] = "hold" => held'[u] # Null
        BY <1>1, <1>3, <1>4, <1>5, Places DEF TypeOK
    <2> QED BY <1>1, <1>3, <1>5, <1>7, <1>8, <2>1 DEF TypeOK
<1>10. Base'
    <2>1. WorkKnown'
        BY <1>1, <1>5, <1>6, Places DEF WorkKnown
    <2> QED BY <1>5, <1>8, <1>9, <2>1 DEF Base, RoundOver
<1>11. ASSUME Unmistaken' PROVE Sound'
    <2>1. Unmistaken
        BY <1>3, <1>11 DEF Unmistaken
    <2>2. \A v \in Resetting \ {Maint} : pc'[v] = pc[v] /\ work'[v] = work[v]
        BY <1>1, <1>5, Places
    <2>3. \/ /\ work[Maint].ok /\ Entries' = Entries
             /\ \A d \in Entries : inUse'[d] <=> (inUse[d] /\ d # c)
          \/ /\ ~work[Maint].ok /\ Entries' = Entries \ {c}
             /\ \A d \in Entries : inUse'[d] <=> inUse[d]
        BY <1>1, <1>3, <1>7, <1>8, Places
    <2> QED BY <1>2, <1>3, <1>4, <1>6, <2>1, <2>2, <2>3, ResetEnded
<1> QED BY <1>10, <1>11 DEF IInv

-----------------------------------------------------------------------------
(* The theorems *)

\* Every step preserves the invariant.
LEMMA NextIInv == IInv /\ [Next]_vars => IInv'
<1> SUFFICES ASSUME IInv, [Next]_vars PROVE IInv'
    OBVIOUS
<1>1. ASSUME NEW t \in Thread, Begin(t) \/ AcquireIdle(t) \/ AcquireNew(t) \/ Release(t) \/ ReleaseEnd(t)
      PROVE  IInv'
    BY <1>1, BeginIInv, AcquireIdleIInv, AcquireNewIInv, ReleaseIInv, ReleaseEndIInv
<1>2. ASSUME NEW w \in Worker, ResetConnection(w) \/ Reconnect(w) PROVE IInv'
    BY <1>2, ResetConnectionIInv, ReconnectIInv
<1>3. CASE Shrink \/ Expire \/ MaintNext \/ MaintEnd \/ Reset
    BY <1>3, ShrinkIInv, ExpireIInv, MaintNextIInv, MaintEndIInv, ResetIInv
<1>4. CASE UNCHANGED vars
    <2>1. Holding' = Holding /\ Resetting' = Resetting
        BY <1>4 DEF vars, Holding, Resetting
    <2>2. Base'
        BY <1>4, <2>1 DEF vars, IInv, Base, TypeOK, EntriesDistinct, WorkKnown, RoundOver
    <2>3. UNCHANGED <<entryVars, held, work, reconnList, misremoved, aliased>> /\ UNCHANGED pc
        BY <1>4 DEF vars, entryVars
    <2> QED BY <2>1, <2>2, <2>3, NothingMoves DEF IInv
<1> QED BY <1>1, <1>2, <1>3, <1>4 DEF Next

\* The invariant holds in every reachable state.
LEMMA Invariance == Spec => []IInv
BY InitIInv, NextIInv, PTL DEF Spec

\* Every behaviour of the connection pool keeps the types, and a thread that has acquired
\* a connection never has a null handle, even after wrong entries were removed.
THEOREM TypeCorrect == Spec => []TypeOK
<1>1. IInv => TypeOK
    BY DEF IInv, Base
<1> QED BY <1>1, Invariance, PTL

\* Until a wrong entry is removed or a handle made at a dangling address, two threads never
\* use the same session, and the entry of a lent session is there when it is given back, in
\* use and untouched by reconnects.
THEOREM SessionsExclusive == Spec => []SessionExclusive
<1>1. IInv => SessionExclusive
    BY DEF IInv, Sound, SessionExclusive
<1> QED BY <1>1, Invariance, PTL

\* The pool never outgrows the larger of its base size and its maximum; in open sessions,
\* until a wrong entry is removed or a handle made at a dangling address.
THEOREM PoolBounded == Spec => []SessionsBounded
<1>1. IInv => SessionsBounded
    <2> SUFFICES ASSUME IInv PROVE SessionsBounded
        OBVIOUS
    <2>1. Len(pool) <= Limit /\ TypeOK
        BY DEF IInv, Base
    <2>2. ASSUME Unmistaken
          PROVE  open \subseteq {handle[c] : c \in Entries} /\ Cardinality(open) <= Limit
        <3>1. open \subseteq {handle[c] : c \in Entries}
            BY <2>2 DEF IInv, Sound, OpenKnown
        <3> DEFINE H == {handle[pool[i]] : i \in 1..Len(pool)}
                   f == [i \in 1..Len(pool) |-> handle[pool[i]]]
        <3>2. Entries = {pool[i] : i \in 1..Len(pool)} /\ Len(pool) \in Nat
            BY <2>1, EntriesIndexed, Places DEF Entries, TypeOK
        <3>3. open \in SUBSET H
            BY <3>1, <3>2
        <3>4. f \in Surjection(1..Len(pool), H)
            BY DEF Surjection
        <3> HIDE DEF H, f
        <3>5. IsFiniteSet(1..Len(pool)) /\ Cardinality(1..Len(pool)) = Len(pool)
            BY <3>2, FS_Interval, SMTT(30)
        <3>6. IsFiniteSet(H) /\ Cardinality(H) <= Len(pool)
            BY <3>4, <3>5, FS_Surjection
        <3>7. Cardinality(open) <= Cardinality(H) /\ Cardinality(open) \in Nat /\ Cardinality(H) \in Nat
            BY <3>3, <3>6, FS_Subset, FS_CardinalityType
        <3> QED BY <2>1, <3>1, <3>2, <3>6, <3>7, SizeAssumption, LimitKnown
    <2> QED BY <2>1, <2>2 DEF SessionsBounded
<1> QED BY <1>1, Invariance, PTL

\* Until a wrong entry is removed or a handle made at a dangling address, an entry in use
\* always belongs to a thread that will give it back.
THEOREM NoPlaceLost == Spec => []NoLostPlace
<1>1. IInv => NoLostPlace
    BY DEF IInv, Sound, NoLostPlace
<1> QED BY <1>1, Invariance, PTL

=============================================================================
