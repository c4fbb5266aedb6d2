----------------------- MODULE AgentConnectionProofs -----------------------
(***************************************************************************)
(* Proofs about requests to an agent and the message wait queue, for any   *)
(* number of threads, requests and output messages.  The invariants are    *)
(* not inductive on their own.  That a thread is only given messages of    *)
(* its own request follows from what is known of every message in flight   *)
(* and from the keys of the waiters; that the output of a command is       *)
(* complete follows from where its messages are: what the thread has taken *)
(* and what is still unclaimed are, together and in order, what the agent  *)
(* has sent so far.                                                        *)
(***************************************************************************)
EXTENDS AgentConnection, SequenceLemmas

Waiting == {"blocked", "leaving"}

\* Request IDs are never used again.
IdsFresh ==
    /\ requestId = started
    /\ \A r \in 1..started : idOf[r] = r

\* Every thread has a request of its own.
OwnRequest ==
    /\ \A c \in Client : current[c] <= started
    /\ \A c, d \in Client : current[c] = current[d] /\ current[c] # 0 => c = d

\* What is known of a message in flight: it answers a request that was sent.
Genuine(m) ==
    /\ m.rq <= started /\ m.id = m.rq
    /\ m.code = "completed" <=> m.n = 0
    /\ \A c \in Client : pc[c] = "send" => current[c] # m.rq

\* The entry of a waiter says what the thread waits for, and a message is in it only as
\* long as the thread waits.
EntriesCurrent ==
    \A c \in Client :
        /\ pc[c] \in Waiting => want[c] = [code |-> stage[c], id |-> current[c]]
        /\ slot[c] # None => pc[c] \in Waiting
        /\ pc[c] = "leaving" /\ result[c] # None => slot[c] = result[c]
        /\ \A m \in Held(c) : Genuine(m) /\ m.rq = current[c] /\ m.code = stage[c]

\* The unclaimed messages of a request are in the order in which they were sent.
QueueOrdered ==
    /\ \A i \in 1..Len(unclaimed) : Genuine(unclaimed[i])
    /\ \A i, j \in 1..Len(unclaimed) :
          i < j /\ unclaimed[i].rq = unclaimed[j].rq => unclaimed[i].n < unclaimed[j].n
    /\ \A i \in 1..Len(unclaimed) :
          pending[unclaimed[i].rq] # -1 => unclaimed[i].n < pending[unclaimed[i].rq]

\* The agent answers only requests that were sent.
PendingSent ==
    \A r \in Request : pending[r] # -1 =>
        r <= started /\ \A c \in Client : pc[c] = "send" => current[c] # r

\* A call that has not returned has no result yet, and its output begins after the response.
CallOpen ==
    \A c \in Client :
        /\ pc[c] # "idle" => outcome[c] = "none"
        /\ pc[c] # "idle" /\ stage[c] = "completed" => got[c] = <<>>
        /\ pc[c] = "send" => stage[c] = "completed"

InQueue(r, k) == \E i \in 1..Len(unclaimed) : unclaimed[i].rq = r /\ unclaimed[i].n = k

\* Number of output messages a thread has taken from the queue
Taken(c) == Len(got[c]) + (IF stage[c] = "output" /\ Held(c) # {} THEN 1 ELSE 0)

\* The thread may still get its whole output: it has not run into a timeout
Collecting(c) ==
    /\ current[c] \notin expired
    /\ pc[c] \in {"wait", "blocked", "leaving"} \/ (pc[c] = "returned" /\ result[c] # None)

\* What a thread has taken and what is unclaimed are together what was sent.
Stream(c) ==
    /\ stage[c] = "output" => \A m \in Held(c) : m.n = Len(got[c]) + 1
    /\ \A i \in 1..Len(unclaimed) : unclaimed[i].rq = current[c] /\ unclaimed[i].n > 0 =>
          /\ Taken(c) < unclaimed[i].n
          /\ \A k \in (Taken(c) + 1)..unclaimed[i].n : InQueue(current[c], k)
    /\ pending[current[c]] = 0 => Taken(c) = 0
    /\ pending[current[c]] > 0 =>
          /\ Taken(c) < pending[current[c]]
          /\ \A k \in (Taken(c) + 1)..(pending[current[c]] - 1) : InQueue(current[c], k)

StreamsWhole == \A c \in Client : Collecting(c) => Stream(c)

IInv ==
    /\ TypeOK /\ WaitersAlive /\ NoMissedMatch
    /\ IdsFresh /\ OwnRequest /\ EntriesCurrent /\ QueueOrdered /\ PendingSent /\ CallOpen
    /\ StreamsWhole /\ OutputComplete

-----------------------------------------------------------------------------
(* The operations of the queue *)

\* The minimum of a set of indices is one of them.
LEMMA FirstIndex ==
    ASSUME NEW n \in Nat, NEW I \in SUBSET (1..n), I # {}
    PROVE  Min(I) \in I /\ \A j \in I : Min(I) <= j
BY MinProperties

\* What put does: the message goes to a waiter that wants it, or to the end of the
\* unclaimed messages if nobody does; the n oldest messages are gone.
LEMMA PutEffect ==
    ASSUME TypeOK, NEW m \in Messages, NEW n \in 0..Len(unclaimed), Put(m, n)
    PROVE  /\ UNCHANGED <<want, pc, result>>
           /\ unclaimed' \in Seq(Messages)
           /\ \A i \in (n + 1)..Len(unclaimed) : i - n \in 1..Len(unclaimed') /\ unclaimed'[i - n] = unclaimed[i]
           /\ \/ /\ UNCHANGED <<slot, waiters>>
                 /\ \A j \in 1..Len(waiters) : ~Matches(m, want[waiters[j]])
                 /\ Len(unclaimed') = Len(unclaimed) - n + 1
                 /\ unclaimed'[Len(unclaimed')] = m
                 /\ \A j \in 1..(Len(unclaimed') - 1) : unclaimed'[j] = unclaimed[j + n]
              \/ /\ Len(unclaimed') = Len(unclaimed) - n
                 /\ \A j \in 1..Len(unclaimed') : unclaimed'[j] = unclaimed[j + n]
                 /\ \E i \in 1..Len(waiters) :
                       /\ Matches(m, want[waiters[i]])
                       /\ slot' = [slot EXCEPT ![waiters[i]] = m]
                       /\ waiters' = RemoveAt(waiters, i)
<1> DEFINE kept == SubSeq(unclaimed, n + 1, Len(unclaimed))
           I == {j \in 1..Len(waiters) : Matches(m, want[waiters[j]])}
           i == IF I # {} THEN Min(I) ELSE 0
<1>1. unclaimed \in Seq(Messages) /\ waiters \in Seq(Client)
    BY DEF TypeOK
<1>2. Len(unclaimed) \in Nat /\ Len(waiters) \in Nat
    BY <1>1, LenProperties
<1>3. /\ kept \in Seq(Messages) /\ Len(kept) = Len(unclaimed) - n
      /\ \A j \in 1..(Len(unclaimed) - n) : kept[j] = unclaimed[j + n]
    <2>1. \A j \in (n + 1)..Len(unclaimed) : unclaimed[j] \in Messages
        BY <1>1, <1>2, ElementOfSeq
    <2>2. /\ kept \in Seq(Messages)
          /\ Len(kept) = IF n + 1 <= Len(unclaimed) THEN Len(unclaimed) - (n + 1) + 1 ELSE 0
          /\ \A j \in 1..(Len(unclaimed) - (n + 1) + 1) : kept[j] = unclaimed[(n + 1) + j - 1]
        BY <1>2, <2>1, SubSeqProperties
    <2> QED BY <1>2, <2>2
<1>4. /\ IF i # 0 THEN slot' = [slot EXCEPT ![waiters[i]] = m] /\ waiters' = RemoveAt(waiters, i) /\ unclaimed' = kept
                  ELSE unclaimed' = Append(kept, m) /\ UNCHANGED <<slot, waiters>>
      /\ UNCHANGED <<want, pc, result>>
    BY Zenon DEF Put, SelectInSeq
<1>5. I # {} => i \in I
    BY <1>2, FirstIndex
<1>6. I \subseteq 1..Len(waiters)
    OBVIOUS
<1> HIDE DEF kept, i
<1>7. CASE I = {}
    <2>1. i = 0
        BY <1>7 DEF i
    <2>2. /\ Append(kept, m) \in Seq(Messages) /\ Len(Append(kept, m)) = Len(kept) + 1
          /\ \A j \in 1..Len(kept) : Append(kept, m)[j] = kept[j]
          /\ Append(kept, m)[Len(kept) + 1] = m
        BY <1>3, AppendProperties
    <2>3. unclaimed' = Append(kept, m) /\ UNCHANGED <<slot, waiters, want, pc, result>>
        BY <1>4, <2>1
    <2>4. \A j \in 1..Len(waiters) : ~Matches(m, want[waiters[j]])
        BY <1>7
    <2> HIDE DEF I
    <2>5. /\ unclaimed' \in Seq(Messages) /\ Len(unclaimed') = Len(unclaimed) - n + 1
          /\ unclaimed'[Len(unclaimed')] = m
          /\ \A j \in 1..(Len(unclaimed') - 1) : unclaimed'[j] = unclaimed[j + n]
        BY <1>2, <1>3, <2>2, <2>3
    <2>6. ASSUME NEW j \in (n + 1)..Len(unclaimed)
          PROVE  j - n \in 1..Len(unclaimed') /\ unclaimed'[j - n] = unclaimed[j]
        <3>1. PICK k : k = j - n
            OBVIOUS
        <3>2. k \in 1..(Len(unclaimed') - 1) /\ k \in 1..Len(unclaimed') /\ k + n = j
            BY <1>2, <2>5, <3>1
        <3>3. unclaimed'[k] = unclaimed[k + n]
            BY <2>5, <3>2
        <3> QED BY <3>1, <3>2, <3>3
    <2> QED BY <2>3, <2>4, <2>5, <2>6
<1>8. CASE I # {}
    <2>1. i \in 1..Len(waiters) /\ i # 0 /\ Matches(m, want[waiters[i]])
        BY <1>5, <1>8
    <2>2. unclaimed' = kept /\ slot' = [slot EXCEPT ![waiters[i]] = m] /\ waiters' = RemoveAt(waiters, i)
        BY <1>4, <2>1
    <2> HIDE DEF I
    <2>3. /\ unclaimed' \in Seq(Messages) /\ Len(unclaimed') = Len(unclaimed) - n
          /\ \A j \in 1..Len(unclaimed') : unclaimed'[j] = unclaimed[j + n]
        BY <1>2, <1>3, <2>2
    <2>4. \A j \in (n + 1)..Len(unclaimed) : j - n \in 1..Len(unclaimed') /\ unclaimed'[j - n] = unclaimed[j]
        BY <1>2, <2>3
    <2> QED BY <1>4, <2>1, <2>2, <2>3, <2>4
<1> QED BY <1>7, <1>8

\* What the first part of waitForMessage does: it takes the oldest message that matches,
\* or registers the thread as a waiter if there is none.
LEMMA WaitBeginEffect ==
    ASSUME TypeOK, NEW c \in Client, NEW k, WaitBegin(c, k)
    PROVE  \/ \E i \in 1..Len(unclaimed) :
                 /\ Matches(unclaimed[i], k)
                 /\ \A j \in 1..(i - 1) : ~Matches(unclaimed[j], k)
                 /\ result' = [result EXCEPT ![c] = unclaimed[i]]
                 /\ unclaimed' = RemoveAt(unclaimed, i)
                 /\ pc' = [pc EXCEPT ![c] = "returned"]
                 /\ UNCHANGED <<waiters, want, slot>>
           \/ /\ \A i \in 1..Len(unclaimed) : ~Matches(unclaimed[i], k)
              /\ want' = [want EXCEPT ![c] = k]
              /\ slot' = [slot EXCEPT ![c] = None]
              /\ waiters' = <<c>> \o waiters
              /\ pc' = [pc EXCEPT ![c] = "blocked"]
              /\ UNCHANGED <<unclaimed, result>>
<1> DEFINE I == {j \in 1..Len(unclaimed) : Matches(unclaimed[j], k)}
           i == IF I # {} THEN Min(I) ELSE 0
<1>1. Len(unclaimed) \in Nat
    BY LenProperties DEF TypeOK
<1>2. I # {} => i \in I /\ \A j \in I : i <= j
    BY <1>1, FirstIndex
<1>3. \/ /\ i # 0
         /\ result' = [result EXCEPT ![c] = unclaimed[i]]
         /\ unclaimed' = RemoveAt(unclaimed, i)
         /\ pc' = [pc EXCEPT ![c] = "returned"]
         /\ UNCHANGED <<waiters, want, slot>>
      \/ /\ i = 0
         /\ want' = [want EXCEPT ![c] = k]
         /\ slot' = [slot EXCEPT ![c] = None]
         /\ waiters' = <<c>> \o waiters
         /\ pc' = [pc EXCEPT ![c] = "blocked"]
         /\ UNCHANGED <<unclaimed, result>>
    BY Zenon DEF WaitBegin, SelectInSeq
<1>4. I = {} => i = 0
    OBVIOUS
<1>5. I \subseteq 1..Len(unclaimed)
    OBVIOUS
<1> HIDE DEF i
<1>6. CASE I = {}
    <2>1. \A j \in 1..Len(unclaimed) : ~Matches(unclaimed[j], k)
        BY <1>6
    <2> HIDE DEF I
    <2> QED BY <1>3, <1>4, <1>6, <2>1
<1>7. CASE I # {}
    <2>1. i \in 1..Len(unclaimed) /\ i # 0 /\ Matches(unclaimed[i], k)
        BY <1>1, <1>2, <1>7
    <2>2. \A j \in 1..(i - 1) : ~Matches(unclaimed[j], k)
        BY <1>1, <1>2, <1>7, <2>1
    <2> HIDE DEF I
    <2> QED BY <1>3, <2>1, <2>2
<1> QED BY <1>6, <1>7

\* RemoveFirst, as waitForMessage uses it: the list without the thread, if it is there.
LEMMA RemoveFirstEffect ==
    ASSUME NEW s \in Seq(Client), NEW c \in Client
    PROVE  \/ RemoveFirst(s, c) = s /\ \A j \in 1..Len(s) : s[j] # c
           \/ \E i \in 1..Len(s) : s[i] = c /\ RemoveFirst(s, c) = RemoveAt(s, i)
<1> DEFINE I == {j \in 1..Len(s) : s[j] = c}
           i == IF I # {} THEN Min(I) ELSE 0
<1>1. Len(s) \in Nat
    BY LenProperties
<1>2. I # {} => i \in I
    BY <1>1, FirstIndex
<1>3. RemoveFirst(s, c) = IF \E j \in 1..Len(s) : s[j] = c THEN RemoveAt(s, i) ELSE s
    BY Zenon DEF RemoveFirst, SelectInSeq
<1> HIDE DEF i
<1>4. CASE \E j \in 1..Len(s) : s[j] = c
    <2>1. i \in 1..Len(s) /\ s[i] = c
        BY <1>2, <1>4
    <2> QED BY <1>3, <1>4, <2>1
<1>5. CASE ~ \E j \in 1..Len(s) : s[j] = c
    BY <1>3, <1>5
<1> QED BY <1>4, <1>5

-----------------------------------------------------------------------------
(* The inductive invariant *)

\* No thread waits and no request has been made: every part of the invariant is empty.
LEMMA InitIInv == Init => IInv
<1> SUFFICES ASSUME Init PROVE IInv
    OBVIOUS
<1> USE NumberAssumption DEF Init, QueueInit
<1>1. TypeOK
    BY EmptySeq DEF TypeOK, Request
<1>2. Len(unclaimed) = 0 /\ Len(waiters) = 0
    BY EmptySeq
<1>3. WaitersAlive /\ NoMissedMatch
    BY <1>2 DEF WaitersAlive, NoMissedMatch
<1>4. IdsFresh /\ OwnRequest /\ PendingSent /\ CallOpen
    BY DEF IdsFresh, OwnRequest, PendingSent, CallOpen
<1>5. EntriesCurrent /\ QueueOrdered
    BY <1>2 DEF EntriesCurrent, QueueOrdered, Held, Waiting
<1>6. StreamsWhole
    BY DEF StreamsWhole, Collecting
<1>7. OutputComplete
    BY EmptySeq DEF OutputComplete
<1> QED BY <1>1, <1>3, <1>4, <1>5, <1>6, <1>7 DEF IInv

\* What the types say of the elements of the queues and of the fields of messages.
LEMMA Elements ==
    ASSUME TypeOK
    PROVE  /\ Len(unclaimed) \in Nat /\ Len(waiters) \in Nat
           /\ \A i \in 1..Len(unclaimed) : unclaimed[i] \in Messages
           /\ \A i \in 1..Len(waiters) : waiters[i] \in Client
           /\ \A m \in Messages : m.rq \in Request /\ m.rq \in Nat \ {0} /\ m.n \in 0..OutputLength /\ m.n \in Nat
           /\ \A c \in Client : Held(c) \subseteq Messages
           /\ \A c \in Client : Len(got[c]) \in Nat /\ Taken(c) \in Nat /\ current[c] \in Nat
           /\ \A c \in Client : pc[c] # "idle" => current[c] \in Request /\ current[c] # 0
           /\ \A r \in Request : pending[r] \in Int /\ r \in Nat
           /\ started \in Nat
<1> USE NumberAssumption DEF Request
<1>1. unclaimed \in Seq(Messages) /\ waiters \in Seq(Client)
    BY DEF TypeOK
<1>2. \A m \in Messages : m.rq \in Request /\ m.rq \in Nat \ {0} /\ m.n \in 0..OutputLength /\ m.n \in Nat
    BY DEF Messages
<1>3. \A c \in Client : Held(c) \subseteq Messages
    BY DEF Held, TypeOK
<1>4. \A c \in Client : Len(got[c]) \in Nat
    BY LenProperties DEF TypeOK
<1>5. \A c \in Client : Taken(c) \in Nat
    <2> TAKE c \in Client
    <2> DEFINE h == IF stage[c] = "output" /\ Held(c) # {} THEN 1 ELSE 0
    <2>1. h \in Nat
        OBVIOUS
    <2>2. Taken(c) = Len(got[c]) + h
        BY DEF Taken
    <2> HIDE DEF h
    <2> QED BY <1>4, <2>1, <2>2
<1>6. /\ \A c \in Client : current[c] \in Nat
      /\ \A c \in Client : pc[c] # "idle" => current[c] \in Request /\ current[c] # 0
      /\ \A r \in Request : pending[r] \in Int /\ r \in Nat
      /\ started \in Nat
    BY DEF TypeOK
<1> QED BY <1>1, <1>2, <1>3, <1>4, <1>5, <1>6, LenProperties, ElementOfSeq

\* A thread that does not wait has no entry in the list of waiters.
LEMMA NotWaiting ==
    ASSUME IInv, NEW c \in Client, pc[c] \notin Waiting
    PROVE  /\ slot[c] = None
           /\ \A i \in 1..Len(waiters) : waiters[i] # c
BY DEF IInv, EntriesCurrent, WaitersAlive, Waiting

\* Steps of a thread outside the queue leave the list of waiters as it should be.
LEMMA ThreadFrame ==
    ASSUME IInv, NEW c \in Client, pc[c] \notin Waiting,
           UNCHANGED <<unclaimed, waiters, want, slot>>,
           \A d \in Client : d # c => pc'[d] = pc[d]
    PROVE  WaitersAlive' /\ NoMissedMatch'
<1>1. \A i \in 1..Len(waiters) : waiters[i] # c /\ waiters[i] \in Client
    BY NotWaiting, Elements DEF IInv
<1>2. WaitersAlive'
    BY <1>1 DEF IInv, WaitersAlive
<1>3. NoMissedMatch'
    BY DEF IInv, NoMissedMatch, Matches
<1> QED BY <1>2, <1>3

\* A new request: its number and its ID are new, so nothing in flight belongs to it.
LEMMA BeginIInv ==
    ASSUME IInv, NEW c \in Client, NEW output \in BOOLEAN, Begin(c, output)
    PROVE  IInv'
<1>1. /\ pc[c] = "idle" /\ pc' = [pc EXCEPT ![c] = "send"]
      /\ started \in Nat /\ started' = started + 1 /\ started + 1 \in Request
      /\ requestId' = requestId + 1 /\ idOf' = [idOf EXCEPT ![started + 1] = requestId + 1]
      /\ current' = [current EXCEPT ![c] = started + 1]
      /\ withOutput' \in {withOutput, withOutput \cup {started + 1}}
      /\ got' = [got EXCEPT ![c] = <<>>] /\ outcome' = [outcome EXCEPT ![c] = "none"]
      /\ expired' = expired \ {current[c]} /\ stage' = [stage EXCEPT ![c] = "completed"]
      /\ UNCHANGED <<unclaimed, waiters, want, slot, result, connected, pending>>
    BY NumberAssumption DEF IInv, TypeOK, Begin, GenerateRequestId, Request
<1>2. TypeOK
    BY DEF IInv
<1>3. TypeOK'
    <2>1. /\ unclaimed' \in Seq(Messages) /\ waiters' \in Seq(Client)
          /\ want' \in [Client -> Keys \cup {None}]
          /\ slot' \in [Client -> Messages \cup {None}] /\ result' \in [Client -> Messages \cup {None}]
          /\ connected' \in BOOLEAN /\ pending' \in [Request -> -1..OutputLength]
        BY <1>1, <1>2 DEF TypeOK
    <2>2. /\ pc' \in [Client -> {"idle", "send", "wait", "blocked", "leaving", "returned"}]
          /\ stage' \in [Client -> {"completed", "output"}]
          /\ outcome' \in [Client -> {"none", "broken", "timeout", "success", "error"}]
          /\ got' \in [Client -> Seq(1..OutputLength)]
        BY <1>1, <1>2, EmptySeq DEF TypeOK
    <2>3. /\ requestId' \in Nat /\ started' \in 0..MaxRequests
          /\ idOf' \in [Request -> Nat] /\ current' \in [Client -> 0..MaxRequests]
        BY <1>1, <1>2, NumberAssumption DEF TypeOK, Request
    <2>5. withOutput' \in SUBSET Request /\ expired' \in SUBSET Request
        BY <1>1, <1>2 DEF TypeOK
    <2>4. /\ \A d \in Client : pc'[d] # "idle" => current'[d] \in Request
          /\ \A d \in Client : result'[d] # None => pc'[d] \in {"leaving", "returned"}
        BY <1>1, <1>2 DEF TypeOK
    <2> QED BY <2>1, <2>2, <2>3, <2>4, <2>5 DEF TypeOK
<1>4. /\ \A d \in Client : d # c => /\ pc'[d] = pc[d] /\ current'[d] = current[d] /\ stage'[d] = stage[d]
                                    /\ got'[d] = got[d] /\ outcome'[d] = outcome[d]
      /\ pc'[c] = "send" /\ current'[c] = started + 1 /\ stage'[c] = "completed" /\ got'[c] = <<>>
      /\ outcome'[c] = "none" /\ result[c] = None
    BY <1>1, <1>2 DEF TypeOK
<1>a. /\ pc[c] \notin Waiting /\ slot[c] = None
      /\ \A d \in Client : current[d] \in Nat /\ current[d] <= started
    BY <1>1, <1>2, NotWaiting, Elements DEF IInv, OwnRequest, Waiting
<1>5. WaitersAlive' /\ NoMissedMatch'
    BY <1>1, <1>4, <1>a, ThreadFrame
<1>6. IdsFresh' /\ OwnRequest'
    <2>1. IdsFresh'
        BY <1>1, <1>2 DEF IInv, IdsFresh, TypeOK, Request
    <2>2. OwnRequest'
        BY <1>1, <1>4, <1>a DEF IInv, OwnRequest
    <2> QED BY <2>1, <2>2
<1>7. \A m \in Messages : Genuine(m) => Genuine(m)'
    BY <1>1, <1>4 DEF Genuine, Messages, Request
<1>8. EntriesCurrent'
    <2>1. SUFFICES ASSUME NEW d \in Client
                   PROVE  /\ pc'[d] \in Waiting => want'[d] = [code |-> stage'[d], id |-> current'[d]]
                          /\ slot'[d] # None => pc'[d] \in Waiting
                          /\ pc'[d] = "leaving" /\ result'[d] # None => slot'[d] = result'[d]
                          /\ \A m \in Held(d)' : Genuine(m)' /\ m.rq = current'[d] /\ m.code = stage'[d]
        BY DEF EntriesCurrent
    <2>2. Held(d)' = Held(d) /\ Held(d) \subseteq Messages /\ Held(c) = {}
        BY <1>1, <1>2, <1>4, <1>a DEF Held, TypeOK
    <2>3. CASE d = c
        BY <1>1, <1>4, <1>a, <2>2, <2>3 DEF Waiting
    <2>4. CASE d # c
        BY <1>1, <1>4, <1>7, <2>2, <2>4 DEF IInv, EntriesCurrent
    <2> QED BY <2>3, <2>4
<1>9. QueueOrdered'
    BY <1>1, <1>2, <1>7, ElementOfSeq DEF IInv, QueueOrdered, TypeOK
<1>10. PendingSent' /\ CallOpen'
    BY <1>1, <1>4 DEF IInv, PendingSent, CallOpen, Request
<1>11. StreamsWhole'
    <2>1. SUFFICES ASSUME NEW d \in Client, Collecting(d)' PROVE Stream(d)'
        BY DEF StreamsWhole
    <2>2. d # c
        BY <1>4, <2>1 DEF Collecting
    <2>3. current[d] # 0
        BY <1>2, <1>4, <2>1, <2>2, Elements DEF Collecting
    <2>4. Collecting(d)
        BY <1>1, <1>2, <1>4, <2>1, <2>2, <2>3 DEF Collecting, IInv, OwnRequest
    <2>5. Taken(d)' = Taken(d) /\ Held(d)' = Held(d)
        BY <1>1, <1>4, <2>2 DEF Taken, Held
    <2> QED BY <1>1, <1>4, <2>2, <2>4, <2>5 DEF IInv, StreamsWhole, Stream, InQueue
<1>12. OutputComplete'
    <2>1. SUFFICES ASSUME NEW d \in Client, current'[d] \notin expired'
                   PROVE  /\ \A i \in 1..Len(got'[d]) : got'[d][i] = i
                          /\ outcome'[d] = "success" /\ current'[d] \in withOutput' => Len(got'[d]) = OutputLength
        BY DEF OutputComplete
    <2>2. CASE d = c
        BY <1>4, <2>2, EmptySeq
    <2>3. CASE d # c
        <3>1. current[d] \notin expired
            BY <1>1, <1>2, <1>4, <2>1, <2>3, NumberAssumption DEF IInv, OwnRequest, TypeOK, Request
        <3> QED BY <1>1, <1>4, <1>a, <2>3, <3>1 DEF IInv, OutputComplete
    <2> QED BY <2>2, <2>3
<1> QED BY <1>3, <1>5, <1>6, <1>8, <1>9, <1>10, <1>11, <1>12 DEF IInv

\* What a thread that does not wait may do between Begin and the return of the call: it
\* gives up the message it holds and leaves the queue and the other threads alone.
CallStep(c) ==
    /\ pc[c] \in {"send", "returned"} /\ pc' = [pc EXCEPT ![c] = pc'[c]] /\ pc'[c] \in {"idle", "wait"}
    /\ result' = [result EXCEPT ![c] = None]
    /\ stage' = [stage EXCEPT ![c] = stage'[c]] /\ got' = [got EXCEPT ![c] = got'[c]]
    /\ outcome' = [outcome EXCEPT ![c] = outcome'[c]]
    /\ pending' = [pending EXCEPT ![current[c]] = pending'[current[c]]]
    /\ UNCHANGED <<unclaimed, waiters, want, slot, connected, requestVars, expired>>

\* Such a step preserves everything that is not about the call itself.
LEMMA CallFrame ==
    ASSUME IInv, NEW c \in Client, CallStep(c)
    PROVE  /\ WaitersAlive' /\ NoMissedMatch' /\ IdsFresh' /\ OwnRequest' /\ EntriesCurrent'
           /\ \A m \in Messages : Genuine(m) => Genuine(m)'
           /\ slot[c] = None /\ Held(c)' = {}
           /\ \A d \in Client : d # c => (Collecting(d)' => Stream(d)')
<1>1. TypeOK
    BY DEF IInv
<1>2. /\ \A d \in Client : d # c => /\ pc'[d] = pc[d] /\ stage'[d] = stage[d] /\ got'[d] = got[d]
                                    /\ outcome'[d] = outcome[d] /\ result'[d] = result[d]
      /\ result'[c] = None /\ UNCHANGED <<slot, current, started, requestId, idOf, expired>>
      /\ current[c] \in Request /\ pc[c] \notin Waiting
      /\ \A r \in Request : r # current[c] => pending'[r] = pending[r]
    BY <1>1 DEF CallStep, TypeOK, requestVars, Waiting
<1>3. slot[c] = None
    BY <1>2, NotWaiting
<1>4. WaitersAlive' /\ NoMissedMatch'
    BY <1>2, ThreadFrame DEF CallStep
<1>5. IdsFresh' /\ OwnRequest'
    BY <1>2 DEF IInv, IdsFresh, OwnRequest
<1>6. \A m \in Messages : Genuine(m) => Genuine(m)'
    BY <1>2 DEF Genuine, CallStep
<1>7. Held(c)' = {} /\ \A d \in Client : d # c => Held(d)' = Held(d)
    BY <1>2, <1>3 DEF Held
<1>8. EntriesCurrent'
    <2>1. SUFFICES ASSUME NEW d \in Client
                   PROVE  /\ pc'[d] \in Waiting => want'[d] = [code |-> stage'[d], id |-> current'[d]]
                          /\ slot'[d] # None => pc'[d] \in Waiting
                          /\ pc'[d] = "leaving" /\ result'[d] # None => slot'[d] = result'[d]
                          /\ \A m \in Held(d)' : Genuine(m)' /\ m.rq = current'[d] /\ m.code = stage'[d]
        BY DEF EntriesCurrent
    <2>2. CASE d = c
        BY <1>2, <1>3, <1>7, <2>2 DEF CallStep, Waiting
    <2>3. CASE d # c
        <3>1. want' = want /\ Held(d) \subseteq Messages
            BY <1>1, Elements DEF CallStep
        <3> QED BY <1>2, <1>6, <1>7, <2>3, <3>1 DEF IInv, EntriesCurrent
    <2> QED BY <2>2, <2>3
<1>9. ASSUME NEW d \in Client, d # c, Collecting(d)' PROVE Stream(d)'
    <2>1. Collecting(d)
        BY <1>2, <1>9 DEF Collecting
    <2>2. current[d] \in Request /\ current[d] # current[c]
        BY <1>1, <1>9, <2>1, Elements DEF Collecting, IInv, OwnRequest
    <2>3. Taken(d)' = Taken(d) /\ Held(d)' = Held(d) /\ pending'[current[d]] = pending[current[d]]
        BY <1>2, <1>7, <1>9, <2>2 DEF Taken
    <2>4. unclaimed' = unclaimed
        BY DEF CallStep
    <2> QED BY <1>2, <1>9, <2>1, <2>3, <2>4 DEF IInv, StreamsWhole, Stream, InQueue
<1> QED BY <1>3, <1>4, <1>5, <1>6, <1>7, <1>8, <1>9

\* The parts of the invariant that the steps of a call still have to be checked for.
LEMMA CallIInv ==
    ASSUME IInv, NEW c \in Client, CallStep(c), TypeOK', CallOpen',
           QueueOrdered', PendingSent', Collecting(c)' => Stream(c)',
           current[c] \notin expired =>
               /\ \A i \in 1..Len(got'[c]) : got'[c][i] = i
               /\ outcome'[c] = "success" /\ current[c] \in withOutput => Len(got'[c]) = OutputLength
    PROVE  IInv'
<1>1. StreamsWhole'
    BY CallFrame DEF StreamsWhole
<1>2. OutputComplete'
    <2>1. /\ \A d \in Client : d # c => got'[d] = got[d] /\ outcome'[d] = outcome[d]
          /\ UNCHANGED <<current, expired, withOutput>>
        BY DEF CallStep, IInv, TypeOK, requestVars
    <2> QED BY <2>1 DEF IInv, OutputComplete
<1> QED BY <1>1, <1>2, CallFrame DEF IInv

\* The request is sent: the agent may answer it from now on, and no message of it is
\* anywhere yet.
LEMMA SendIInv ==
    ASSUME IInv, NEW c \in Client, Send(c)
    PROVE  IInv'
<1>1. TypeOK /\ pc[c] = "send" /\ result[c] = None /\ current[c] \in Request
    BY DEF IInv, Send, TypeOK
<1>2. CallStep(c)
    BY <1>1 DEF Send, Return, CallStep, TypeOK
<1>3. TypeOK'
    <2>1. pending' \in [Request -> -1..OutputLength]
        <3>1. 0 \in -1..OutputLength
            BY NumberAssumption
        <3> QED BY <1>1, <3>1 DEF Send, TypeOK
    <2> QED BY <1>1, <2>1 DEF Send, Return, TypeOK, requestVars
<1>4. /\ UNCHANGED <<unclaimed, stage, got, current, started, expired, withOutput>>
      /\ \A d \in Client : d # c => pc'[d] = pc[d] /\ outcome'[d] = outcome[d]
      /\ pc'[c] \in {"wait", "idle"} /\ (pc'[c] = "wait" => outcome'[c] = outcome[c])
      /\ pc'[c] = "wait" => pending'[current[c]] = 0
      /\ outcome'[c] \in {"none", "broken"}
      /\ pending' = pending \/ pending' = [pending EXCEPT ![current[c]] = 0]
    BY <1>1 DEF IInv, CallOpen, Send, Return, TypeOK, requestVars
<1>5. \A i \in 1..Len(unclaimed) : unclaimed[i].rq # current[c]
    BY <1>1 DEF IInv, QueueOrdered, Genuine
<1>6. CallOpen'
    BY <1>1, <1>4 DEF IInv, CallOpen
<1>7. QueueOrdered'
    <2>1. \A i \in 1..Len(unclaimed) : unclaimed[i] \in Messages /\ unclaimed[i].rq \in Request
        BY <1>1, Elements
    <2>2. \A i \in 1..Len(unclaimed) : pending'[unclaimed[i].rq] = pending[unclaimed[i].rq]
        BY <1>1, <1>4, <1>5, <2>1 DEF TypeOK
    <2> QED BY <1>2, <1>4, <2>1, <2>2, CallFrame DEF IInv, QueueOrdered
<1>8. PendingSent'
    <2>1. \A d \in Client : d # c => current[d] # current[c]
        BY <1>1, Elements DEF IInv, OwnRequest
    <2>2. ASSUME NEW r \in Request, pending'[r] # -1
          PROVE  r <= started /\ \A d \in Client : pc'[d] = "send" => current[d] # r
        <3>1. CASE r = current[c]
            BY <1>4, <2>1, <3>1 DEF IInv, OwnRequest
        <3>2. CASE r # current[c]
            <4>1. pending'[r] = pending[r]
                BY <1>1, <1>4, <3>2 DEF TypeOK
            <4> QED BY <1>4, <2>2, <4>1 DEF IInv, PendingSent
        <3> QED BY <3>1, <3>2
    <2> QED BY <1>4, <2>2 DEF PendingSent
<1>9. ASSUME Collecting(c)' PROVE Stream(c)'
    <2>1. pc'[c] = "wait" /\ pending'[current[c]] = 0
        BY <1>2, <1>4, <1>9 DEF Collecting, CallStep
    <2>2. got'[c] = <<>> /\ stage'[c] = "completed"
        BY <1>1, <1>4 DEF IInv, CallOpen
    <2>3. Taken(c)' = 0
        BY <2>2, EmptySeq DEF Taken
    <2> QED BY <1>4, <1>5, <2>1, <2>2, <2>3 DEF Stream
<1>10. got'[c] = <<>>
    BY <1>1, <1>4 DEF IInv, CallOpen
<1> QED BY <1>2, <1>3, <1>4, <1>6, <1>7, <1>8, <1>9, <1>10, EmptySeq, CallIInv

\* The call returns after a timeout; whatever the thread had taken stays in order.
LEMMA TimeoutIInv ==
    ASSUME IInv, NEW c \in Client, Timeout(c)
    PROVE  IInv'
<1>1. TypeOK /\ pc[c] = "returned" /\ result[c] = None
    BY DEF IInv, Timeout
<1>2. CallStep(c)
    BY <1>1 DEF Timeout, Return, CallStep, TypeOK
<1>3. TypeOK'
    BY <1>1 DEF Timeout, Return, TypeOK, requestVars
<1>4. /\ UNCHANGED <<unclaimed, stage, got, current, started, expired, withOutput, pending>>
      /\ \A d \in Client : d # c => pc'[d] = pc[d] /\ outcome'[d] = outcome[d]
      /\ pc'[c] = "idle" /\ outcome'[c] = "timeout"
    BY <1>1 DEF Timeout, Return, TypeOK, requestVars
<1>5. CallOpen' /\ PendingSent'
    BY <1>4 DEF IInv, CallOpen, PendingSent
<1>6. QueueOrdered'
    BY <1>1, <1>2, <1>4, Elements, CallFrame DEF IInv, QueueOrdered
<1>7. ~Collecting(c)'
    BY <1>4 DEF Collecting
<1>8. current[c] \notin expired => \A i \in 1..Len(got'[c]) : got'[c][i] = i
    BY <1>4 DEF IInv, OutputComplete
<1> QED BY <1>2, <1>3, <1>4, <1>5, <1>6, <1>7, <1>8, CallIInv

\* The response is handled: a successful one is followed by the output, of which nothing
\* has been taken yet.
LEMMA ResponseIInv ==
    ASSUME IInv, NEW c \in Client, Response(c)
    PROVE  IInv'
<1>1. TypeOK /\ pc[c] = "returned" /\ result[c] # None /\ stage[c] = "completed"
    BY DEF IInv, Response
<1>2. CallStep(c)
    BY <1>1 DEF Response, Return, CallStep, TypeOK
<1>3. TypeOK'
    BY <1>1 DEF Response, Return, TypeOK, requestVars
<1>4. /\ UNCHANGED <<unclaimed, got, current, started, expired, withOutput, pending>>
      /\ \A d \in Client : d # c => pc'[d] = pc[d] /\ outcome'[d] = outcome[d] /\ stage'[d] = stage[d]
      /\ \/ pc'[c] = "idle" /\ stage'[c] = "completed" /\ (current[c] \in withOutput => outcome'[c] # "success")
         \/ pc'[c] = "wait" /\ stage'[c] = "output" /\ outcome'[c] = outcome[c]
    BY <1>1 DEF Response, Return, TypeOK, requestVars
<1>5. got[c] = <<>> /\ got'[c] = <<>> /\ outcome[c] = "none"
    BY <1>1, <1>4 DEF IInv, CallOpen
<1>6. CallOpen' /\ PendingSent'
    BY <1>4, <1>5 DEF IInv, CallOpen, PendingSent
<1>7. QueueOrdered'
    BY <1>1, <1>2, <1>4, Elements, CallFrame DEF IInv, QueueOrdered
<1>8. ASSUME Collecting(c)' PROVE Stream(c)'
    <2>1. Collecting(c)
        BY <1>1, <1>4, <1>8 DEF Collecting
    <2>2. Taken(c) = 0 /\ Taken(c)' = 0 /\ Held(c)' = {}
        BY <1>1, <1>2, <1>5, EmptySeq, CallFrame DEF Taken
    <2> QED BY <1>4, <2>1, <2>2 DEF IInv, StreamsWhole, Stream, InQueue
<1> QED BY <1>2, <1>3, <1>4, <1>5, <1>6, <1>7, <1>8, EmptySeq, CallIInv

\* An output message is given to the callback: it is the next one, and the last one ends
\* the call.
LEMMA OutputIInv ==
    ASSUME IInv, NEW c \in Client, Output(c)
    PROVE  IInv'
<1> DEFINE m == result[c]
<1>1. TypeOK /\ pc[c] = "returned" /\ m # None /\ stage[c] = "output"
    BY DEF IInv, Output
<1>2. m \in Messages /\ m \in Held(c) /\ m.n \in 1..OutputLength /\ m.n \in Nat
    <2>1. m \in Held(c)
        BY <1>1 DEF Held
    <2>2. Genuine(m) /\ m.code = "output"
        BY <1>1, <2>1 DEF IInv, EntriesCurrent
    <2>3. m \in Messages /\ m.n \in 0..OutputLength /\ m.n \in Nat
        BY <1>1, <2>1, Elements
    <2> QED BY <2>1, <2>2, <2>3, NumberAssumption DEF Genuine
<1>3. got' = [got EXCEPT ![c] = Append(got[c], m.n)]
    BY DEF Output
<1>4. CallStep(c)
    BY <1>1 DEF Output, Return, CallStep, TypeOK
<1>5. /\ got'[c] \in Seq(1..OutputLength) /\ Len(got'[c]) = Len(got[c]) + 1 /\ Len(got[c]) \in Nat
      /\ \A i \in 1..Len(got[c]) : got'[c][i] = got[c][i]
      /\ got'[c][Len(got[c]) + 1] = m.n
    <2>1. got[c] \in Seq(1..OutputLength) /\ got'[c] = Append(got[c], m.n)
        BY <1>1, <1>3 DEF TypeOK
    <2> QED BY <1>1, <1>2, <2>1, AppendProperties, Elements
<1>6. TypeOK'
    <2>1. got' \in [Client -> Seq(1..OutputLength)]
        BY <1>1, <1>3, <1>5 DEF TypeOK
    <2> HIDE DEF m
    <2> QED BY <1>1, <2>1 DEF Output, Return, TypeOK, requestVars
<1>7. /\ UNCHANGED <<unclaimed, stage, current, started, expired, withOutput, pending>>
      /\ \A d \in Client : d # c => pc'[d] = pc[d] /\ outcome'[d] = outcome[d] /\ got'[d] = got[d]
      /\ \/ pc'[c] = "idle" /\ m.n = OutputLength
         \/ pc'[c] = "wait" /\ outcome'[c] = outcome[c]
    BY <1>1 DEF Output, Return, TypeOK, requestVars
<1>8. CallOpen' /\ PendingSent'
    BY <1>1, <1>7 DEF IInv, CallOpen, PendingSent
<1>9. QueueOrdered'
    BY <1>1, <1>4, <1>7, Elements, CallFrame DEF IInv, QueueOrdered
<1>10. current[c] \notin expired => m.n = Len(got[c]) + 1
    BY <1>1, <1>2 DEF IInv, StreamsWhole, Collecting, Stream
<1>11. ASSUME Collecting(c)' PROVE Stream(c)'
    <2>1. Collecting(c)
        BY <1>1, <1>7, <1>11 DEF Collecting
    <2>2. Taken(c)' = Len(got'[c]) /\ Taken(c) = Len(got[c]) + 1 /\ Held(c)' = {}
        <3>1. Held(c)' = {} /\ Held(c) # {}
            BY <1>2, <1>4, CallFrame
        <3> QED BY <1>1, <1>5, <3>1 DEF Taken
    <2>3. Taken(c)' = Taken(c)
        BY <1>5, <2>2
    <2>4. UNCHANGED <<unclaimed, stage, current, pending>>
        BY <1>7
    <2>5. Stream(c)
        BY <2>1 DEF IInv, StreamsWhole
    <2> QED BY <2>2, <2>3, <2>4, <2>5 DEF Stream, InQueue
<1>12. ASSUME current[c] \notin expired
       PROVE  /\ \A i \in 1..Len(got'[c]) : got'[c][i] = i
              /\ outcome'[c] = "success" /\ current[c] \in withOutput => Len(got'[c]) = OutputLength
    <2>1. \A i \in 1..Len(got[c]) : got[c][i] = i
        BY <1>12 DEF IInv, OutputComplete
    <2>2. \A i \in 1..Len(got'[c]) : got'[c][i] = i
        BY <1>5, <1>10, <1>12, <2>1
    <2>3. outcome[c] = "none"
        BY <1>1 DEF IInv, CallOpen
    <2> QED BY <1>5, <1>7, <1>10, <1>12, <2>2, <2>3
<1> QED BY <1>4, <1>6, <1>7, <1>8, <1>9, <1>11, <1>12, CallIInv

\* The channel is closed or opened: what is in the queue stays there.
LEMMA ChannelIInv ==
    ASSUME IInv, Disconnect \/ Connect
    PROVE  IInv'
<1>1. /\ UNCHANGED <<unclaimed, waiters, want, slot, pc, result, requestId, started, idOf, current,
                     withOutput, stage, got, outcome, expired>>
      /\ \A r \in Request : pending'[r] \in {pending[r], -1}
    BY DEF IInv, TypeOK, Disconnect, Connect, queueVars, requestVars
<1>2. TypeOK /\ TypeOK'
    <2>1. -1 \in -1..OutputLength
        BY NumberAssumption
    <2>2. pending' \in [Request -> -1..OutputLength] /\ connected' \in BOOLEAN
        BY <2>1 DEF IInv, TypeOK, Disconnect, Connect
    <2> QED BY <1>1, <2>2 DEF IInv, TypeOK
<1>3. WaitersAlive' /\ NoMissedMatch' /\ IdsFresh' /\ OwnRequest' /\ CallOpen' /\ OutputComplete'
    BY <1>1 DEF IInv, WaitersAlive, NoMissedMatch, Matches, IdsFresh, OwnRequest, CallOpen, OutputComplete
<1>4. EntriesCurrent'
    BY <1>1 DEF IInv, EntriesCurrent, Held, Genuine
<1>5. QueueOrdered' /\ PendingSent'
    BY <1>1, <1>2, Elements DEF IInv, QueueOrdered, PendingSent, Genuine
<1>6. StreamsWhole'
    <2>1. SUFFICES ASSUME NEW c \in Client, Collecting(c) PROVE Stream(c)'
        BY <1>1 DEF StreamsWhole, Collecting
    <2>2. Taken(c)' = Taken(c) /\ Held(c)' = Held(c)
        BY <1>1 DEF Taken, Held
    <2>3. current[c] \in Request
        BY <1>2, <2>1, Elements DEF Collecting
    <2>4. pending'[current[c]] = pending[current[c]] \/ pending'[current[c]] = -1
        BY <1>1, <2>3
    <2> QED BY <1>1, <2>1, <2>2, <2>4 DEF IInv, StreamsWhole, Stream, InQueue
<1> QED BY <1>2, <1>3, <1>4, <1>5, <1>6 DEF IInv

\* The list of waiters without one of its entries.
LEMMA ListWithout ==
    ASSUME NEW s \in Seq(Client), NEW i \in 1..Len(s),
           \A j, k \in 1..Len(s) : s[j] = s[k] => j = k
    PROVE  /\ RemoveAt(s, i) \in Seq(Client)
           /\ Len(RemoveAt(s, i)) \in Nat
           /\ \A j, k \in 1..Len(RemoveAt(s, i)) : RemoveAt(s, i)[j] = RemoveAt(s, i)[k] => j = k
           /\ \A j \in 1..Len(RemoveAt(s, i)) :
                 RemoveAt(s, i)[j] # s[i] /\ \E k \in 1..Len(s) : RemoveAt(s, i)[j] = s[k]
<1> DEFINE t == RemoveAt(s, i)
<1>1. /\ t \in Seq(Client) /\ Len(t) = Len(s) - 1 /\ Len(s) \in Nat
      /\ \A j \in 1..(Len(s) - 1) : t[j] = IF j < i THEN s[j] ELSE s[j + 1]
    BY RemoveAtProperties, LenProperties
<1> HIDE DEF t
<1>2. \A j, k \in 1..Len(t) : t[j] = t[k] => j = k
    BY <1>1
<1>3. \A j \in 1..Len(t) : t[j] # s[i] /\ \E k \in 1..Len(s) : t[j] = s[k]
    BY <1>1
<1> QED BY <1>1, <1>2, <1>3 DEF t

\* The entry is read: the thread has now what was in its entry.
LEMMA WaitEndIInv ==
    ASSUME IInv, NEW c \in Client, WaitEnd(c),
           UNCHANGED <<connected, requestVars, stage, pending, got, outcome, expired>>
    PROVE  IInv'
<1>1. TypeOK /\ pc[c] = "blocked" /\ result[c] = None
    BY DEF IInv, TypeOK, WaitEnd
<1>2. /\ UNCHANGED <<unclaimed, waiters, want, slot, started, requestId, idOf, current, withOutput>>
      /\ \A d \in Client : d # c => pc'[d] = pc[d] /\ result'[d] = result[d]
      /\ pc'[c] = "leaving" /\ result'[c] = slot[c]
    BY <1>1 DEF WaitEnd, TypeOK, requestVars
<1>3. TypeOK'
    BY <1>1, <1>2 DEF WaitEnd, TypeOK
<1>4. \A d \in Client : Held(d)' = Held(d)
    BY <1>1, <1>2 DEF Held
<1>5. WaitersAlive' /\ NoMissedMatch'
    <2>1. \A i \in 1..Len(waiters) : waiters[i] \in Client
        BY <1>1, Elements
    <2>2. WaitersAlive'
        BY <1>2, <2>1 DEF IInv, WaitersAlive
    <2> QED BY <1>2, <2>2 DEF IInv, NoMissedMatch, Matches
<1>6. IdsFresh' /\ OwnRequest' /\ CallOpen' /\ PendingSent' /\ OutputComplete'
    BY <1>1, <1>2 DEF IInv, IdsFresh, OwnRequest, CallOpen, PendingSent, OutputComplete
<1>7. \A m \in Messages : Genuine(m) => Genuine(m)'
    BY <1>2 DEF Genuine
<1>8. EntriesCurrent'
    <2>1. \A d \in Client : Held(d) \subseteq Messages
        BY <1>1, Elements
    <2> QED BY <1>1, <1>2, <1>4, <1>7, <2>1 DEF IInv, EntriesCurrent, Waiting
<1>9. QueueOrdered'
    BY <1>1, <1>2, <1>7, Elements DEF IInv, QueueOrdered
<1>10. StreamsWhole'
    <2>1. SUFFICES ASSUME NEW d \in Client, Collecting(d)' PROVE Stream(d)'
        BY DEF StreamsWhole
    <2>2. Collecting(d) /\ Taken(d)' = Taken(d)
        BY <1>1, <1>2, <1>4, <2>1 DEF Collecting, Taken
    <2> QED BY <1>2, <1>4, <2>2 DEF IInv, StreamsWhole, Stream, InQueue
<1> QED BY <1>3, <1>5, <1>6, <1>8, <1>9, <1>10 DEF IInv

\* The waiter leaves the list.  If it takes a message with it that came too late, the
\* call will report a timeout.
LEMMA WaitLeaveIInv ==
    ASSUME IInv, NEW c \in Client, WaitLeave(c),
           UNCHANGED <<connected, requestVars, stage, pending, got, outcome, expired>>
    PROVE  IInv'
<1>1. TypeOK /\ pc[c] = "leaving"
    BY DEF IInv, TypeOK, WaitLeave
<1>2. /\ UNCHANGED <<unclaimed, result, started, requestId, idOf, current, withOutput>>
      /\ \A d \in Client : d # c => pc'[d] = pc[d] /\ slot'[d] = slot[d] /\ want'[d] = want[d]
      /\ pc'[c] = "returned" /\ slot'[c] = None /\ waiters' = RemoveFirst(waiters, c)
    BY <1>1 DEF WaitLeave, TypeOK, requestVars
<1>3. /\ waiters' \in Seq(Client) /\ Len(waiters') \in Nat
      /\ \A j, k \in 1..Len(waiters') : waiters'[j] = waiters'[k] => j = k
      /\ \A j \in 1..Len(waiters') : waiters'[j] # c /\ \E k \in 1..Len(waiters) : waiters'[j] = waiters[k]
    <2>1. waiters \in Seq(Client) /\ \A j, k \in 1..Len(waiters) : waiters[j] = waiters[k] => j = k
        BY <1>1 DEF IInv, TypeOK, WaitersAlive
    <2>2. CASE RemoveFirst(waiters, c) = waiters /\ \A j \in 1..Len(waiters) : waiters[j] # c
        BY <1>2, <2>1, <2>2, LenProperties
    <2>3. CASE \E i \in 1..Len(waiters) : waiters[i] = c /\ RemoveFirst(waiters, c) = RemoveAt(waiters, i)
        BY <1>2, <2>1, <2>3, ListWithout
    <2> QED BY <2>1, <2>2, <2>3, RemoveFirstEffect
<1>4. TypeOK'
    BY <1>1, <1>2, <1>3 DEF WaitLeave, TypeOK
<1>5. WaitersAlive' /\ NoMissedMatch'
    <2>1. \A j \in 1..Len(waiters) : waiters[j] \in Client
        BY <1>1, Elements
    <2>2. WaitersAlive'
        BY <1>2, <1>3, <2>1 DEF IInv, WaitersAlive
    <2>3. NoMissedMatch'
        <3>1. SUFFICES ASSUME NEW i \in 1..Len(unclaimed), NEW j \in 1..Len(waiters')
                       PROVE  ~Matches(unclaimed[i], want'[waiters'[j]])
            BY <1>2 DEF NoMissedMatch, Matches
        <3>2. PICK k \in 1..Len(waiters) : waiters'[j] = waiters[k]
            BY <1>3
        <3>3. want'[waiters'[j]] = want[waiters[k]]
            BY <1>2, <1>3, <2>1, <3>2
        <3> QED BY <3>3 DEF IInv, NoMissedMatch
    <2> QED BY <2>2, <2>3
<1>6. IdsFresh' /\ OwnRequest' /\ CallOpen' /\ PendingSent' /\ OutputComplete'
    BY <1>1, <1>2 DEF IInv, IdsFresh, OwnRequest, CallOpen, PendingSent, OutputComplete
<1>7. \A m \in Messages : Genuine(m) => Genuine(m)'
    BY <1>2 DEF Genuine
<1>8. /\ \A d \in Client : d # c => Held(d)' = Held(d)
      /\ Held(c)' \subseteq Held(c)
      /\ result[c] # None => Held(c)' = Held(c)
    BY <1>1, <1>2 DEF Held, IInv, EntriesCurrent
<1>9. EntriesCurrent'
    <2>1. SUFFICES ASSUME NEW d \in Client
                   PROVE  /\ pc'[d] \in Waiting => want'[d] = [code |-> stage'[d], id |-> current'[d]]
                          /\ slot'[d] # None => pc'[d] \in Waiting
                          /\ pc'[d] = "leaving" /\ result'[d] # None => slot'[d] = result'[d]
                          /\ \A m \in Held(d)' : Genuine(m)' /\ m.rq = current'[d] /\ m.code = stage'[d]
        BY DEF EntriesCurrent
    <2>2. Held(d) \subseteq Messages /\ Held(d)' \subseteq Held(d)
        BY <1>1, <1>8, Elements
    <2>3. \A m \in Held(d)' : Genuine(m)' /\ m.rq = current'[d] /\ m.code = stage'[d]
        BY <1>2, <1>7, <2>2 DEF IInv, EntriesCurrent
    <2> QED BY <1>2, <2>3 DEF IInv, EntriesCurrent, Waiting
<1>10. QueueOrdered'
    BY <1>1, <1>2, <1>7, Elements DEF IInv, QueueOrdered
<1>11. StreamsWhole'
    <2>1. SUFFICES ASSUME NEW d \in Client, Collecting(d)' PROVE Stream(d)'
        BY DEF StreamsWhole
    <2>2. Held(d)' = Held(d)
        BY <1>2, <1>8, <2>1 DEF Collecting
    <2>3. Collecting(d) /\ Taken(d)' = Taken(d)
        BY <1>1, <1>2, <2>1, <2>2 DEF Collecting, Taken
    <2> QED BY <1>2, <2>2, <2>3 DEF IInv, StreamsWhole, Stream, InQueue
<1> QED BY <1>4, <1>5, <1>6, <1>9, <1>10, <1>11 DEF IInv

\* The first part of waitForMessage finds a message: it is the oldest one for the thread,
\* and so the next one of its output.
LEMMA ClaimIInv ==
    ASSUME IInv, NEW c \in Client, pc[c] = "wait",
           NEW i \in 1..Len(unclaimed),
           Matches(unclaimed[i], [code |-> stage[c], id |-> current[c]]),
           \A j \in 1..(i - 1) : ~Matches(unclaimed[j], [code |-> stage[c], id |-> current[c]]),
           result' = [result EXCEPT ![c] = unclaimed[i]],
           unclaimed' = RemoveAt(unclaimed, i),
           pc' = [pc EXCEPT ![c] = "returned"],
           UNCHANGED <<waiters, want, slot, connected, requestVars, stage, pending, got, outcome, expired>>
    PROVE  IInv'
<1> DEFINE m == unclaimed[i]
<1>1. TypeOK /\ m \in Messages /\ Genuine(m) /\ m.rq = current[c] /\ m.code = stage[c] /\ m # None
    BY Elements, NoneAssumption DEF IInv, QueueOrdered, Genuine, Matches
<1>2. /\ UNCHANGED <<started, requestId, idOf, current, withOutput>>
      /\ \A d \in Client : d # c => pc'[d] = pc[d] /\ result'[d] = result[d]
      /\ pc'[c] = "returned" /\ result'[c] = m /\ result[c] = None /\ slot[c] = None
    BY <1>1, NotWaiting DEF TypeOK, requestVars, Waiting
<1>3. /\ unclaimed' \in Seq(Messages) /\ Len(unclaimed') = Len(unclaimed) - 1 /\ Len(unclaimed) \in Nat
      /\ \A j \in 1..Len(unclaimed') : unclaimed'[j] = IF j < i THEN unclaimed[j] ELSE unclaimed[j + 1]
    <2>1. unclaimed \in Seq(Messages)
        BY <1>1 DEF TypeOK
    <2> QED BY <2>1, RemoveAtProperties, LenProperties
<1>4. \A j \in 1..Len(unclaimed') :
          \E k \in 1..Len(unclaimed) : k # i /\ unclaimed'[j] = unclaimed[k]
    BY <1>3
<1>5. \A k \in 1..Len(unclaimed) : k # i =>
          \E j \in 1..Len(unclaimed') : unclaimed'[j] = unclaimed[k]
    <2>1. SUFFICES ASSUME NEW k \in 1..Len(unclaimed), k # i
                   PROVE  \E j \in 1..Len(unclaimed') : unclaimed'[j] = unclaimed[k]
        OBVIOUS
    <2>2. CASE k < i
        BY <1>3, <2>2
    <2>3. CASE k > i
        <3>1. k - 1 \in 1..Len(unclaimed') /\ unclaimed'[k - 1] = unclaimed[k]
            BY <1>3, <2>3
        <3> QED BY <3>1
    <2> QED BY <1>3, <2>1, <2>2, <2>3
<1>6. TypeOK'
    BY <1>1, <1>2, <1>3, Elements DEF TypeOK
<1>7. WaitersAlive' /\ NoMissedMatch'
    <2>1. \A j \in 1..Len(waiters) : waiters[j] # c /\ waiters[j] \in Client
        BY <1>1, NotWaiting, Elements DEF Waiting
    <2>2. WaitersAlive'
        BY <1>2, <2>1 DEF IInv, WaitersAlive
    <2>3. NoMissedMatch'
        <3>1. SUFFICES ASSUME NEW j \in 1..Len(unclaimed'), NEW l \in 1..Len(waiters')
                       PROVE  ~Matches(unclaimed'[j], want[waiters[l]])
            BY <1>2 DEF NoMissedMatch, Matches
        <3>2. PICK k \in 1..Len(unclaimed) : unclaimed'[j] = unclaimed[k]
            BY <1>4
        <3>3. l \in 1..Len(waiters)
            BY <1>2
        <3> QED BY <3>2, <3>3 DEF IInv, NoMissedMatch
    <2> QED BY <2>2, <2>3
<1>8. IdsFresh' /\ OwnRequest' /\ CallOpen' /\ PendingSent' /\ OutputComplete'
    BY <1>2 DEF IInv, IdsFresh, OwnRequest, CallOpen, PendingSent, OutputComplete
<1>9. \A x \in Messages : Genuine(x) => Genuine(x)'
    BY <1>2 DEF Genuine
<1>10. Held(c) = {} /\ Held(c)' = {m} /\ \A d \in Client : d # c => Held(d)' = Held(d)
    BY <1>1, <1>2 DEF Held
<1>11. EntriesCurrent'
    <2>1. SUFFICES ASSUME NEW d \in Client
                   PROVE  /\ pc'[d] \in Waiting => want'[d] = [code |-> stage'[d], id |-> current'[d]]
                          /\ slot'[d] # None => pc'[d] \in Waiting
                          /\ pc'[d] = "leaving" /\ result'[d] # None => slot'[d] = result'[d]
                          /\ \A x \in Held(d)' : Genuine(x)' /\ x.rq = current'[d] /\ x.code = stage'[d]
        BY DEF EntriesCurrent
    <2>2. CASE d = c
        BY <1>1, <1>2, <1>9, <1>10, <2>2 DEF Waiting
    <2>3. CASE d # c
        <3>1. Held(d) \subseteq Messages
            BY <1>1, Elements
        <3> QED BY <1>2, <1>9, <1>10, <2>3, <3>1 DEF IInv, EntriesCurrent
    <2> QED BY <2>2, <2>3
<1>12. QueueOrdered'
    <2>1. \A j \in 1..Len(unclaimed') : Genuine(unclaimed[j])'
        <3>1. SUFFICES ASSUME NEW j \in 1..Len(unclaimed') PROVE Genuine(unclaimed[j])'
            OBVIOUS
        <3>2. PICK k \in 1..Len(unclaimed) : unclaimed'[j] = unclaimed[k]
            BY <1>4
        <3>3. Genuine(unclaimed[k]) /\ unclaimed[k] \in Messages
            BY <1>1, Elements DEF IInv, QueueOrdered
        <3> QED BY <1>2, <3>2, <3>3 DEF Genuine
    <2>2. \A j, k \in 1..Len(unclaimed') :
              j < k /\ unclaimed'[j].rq = unclaimed'[k].rq => unclaimed'[j].n < unclaimed'[k].n
        <3>1. SUFFICES ASSUME NEW j \in 1..Len(unclaimed'), NEW k \in 1..Len(unclaimed'),
                              j < k, unclaimed'[j].rq = unclaimed'[k].rq
                       PROVE  unclaimed'[j].n < unclaimed'[k].n
            OBVIOUS
        <3>2. PICK a \in 1..Len(unclaimed) : a = IF j < i THEN j ELSE j + 1
            BY <1>3
        <3>3. PICK b \in 1..Len(unclaimed) : b = IF k < i THEN k ELSE k + 1
            BY <1>3
        <3>4. a < b
            BY <1>3, <3>1, <3>2, <3>3
        <3>5. unclaimed'[j] = unclaimed[a] /\ unclaimed'[k] = unclaimed[b]
            BY <1>3, <3>2, <3>3
        <3> QED BY <3>1, <3>4, <3>5 DEF IInv, QueueOrdered
    <2>3. \A j \in 1..Len(unclaimed') :
              pending'[unclaimed'[j].rq] # -1 => unclaimed'[j].n < pending'[unclaimed'[j].rq]
        BY <1>2, <1>4 DEF IInv, QueueOrdered
    <2> QED BY <2>1, <2>2, <2>3 DEF QueueOrdered
<1>13. StreamsWhole'
    <2>1. SUFFICES ASSUME NEW d \in Client, Collecting(d)' PROVE Stream(d)'
        BY DEF StreamsWhole
    <2>2. Collecting(d) /\ Stream(d)
        BY <1>2, <2>1 DEF Collecting, IInv, StreamsWhole
    <2>3. CASE d # c
        <3>1. Taken(d)' = Taken(d) /\ Held(d)' = Held(d)
            BY <1>10, <2>3 DEF Taken
        <3>2. current[d] # current[c]
            BY <1>1, <2>2, <2>3, Elements DEF Collecting, IInv, OwnRequest
        <3>3. \A k : InQueue(current[d], k) => InQueue(current[d], k)'
            BY <1>1, <1>2, <1>5, <3>2 DEF InQueue
        <3> QED BY <1>2, <1>4, <2>2, <3>1, <3>3 DEF Stream
    <2>4. CASE d = c /\ stage[c] = "completed"
        <3>1. m.n = 0 /\ got[c] = <<>>
            BY <1>1, <2>4 DEF Genuine, IInv, CallOpen
        <3>2. Taken(c)' = Taken(c)
            BY <2>4 DEF Taken
        <3>3. \A k \in Nat \ {0} : InQueue(current[c], k) => InQueue(current[c], k)'
            BY <1>2, <1>5, <3>1 DEF InQueue
        <3>4. Taken(c) \in Nat /\ current[c] \in Request /\ pending[current[c]] \in Int
            BY <1>1, <2>2, <2>4, Elements DEF Collecting
        <3>5. \A j \in 1..Len(unclaimed') : unclaimed'[j].rq = current[c] /\ unclaimed'[j].n > 0 =>
                  /\ Taken(c) < unclaimed'[j].n
                  /\ \A k \in (Taken(c) + 1)..unclaimed'[j].n : InQueue(current[c], k)'
            <4>1. SUFFICES ASSUME NEW j \in 1..Len(unclaimed'), unclaimed'[j].rq = current[c], unclaimed'[j].n > 0
                           PROVE  /\ Taken(c) < unclaimed'[j].n
                                  /\ \A k \in (Taken(c) + 1)..unclaimed'[j].n : InQueue(current[c], k)'
                OBVIOUS
            <4>2. PICK l \in 1..Len(unclaimed) : unclaimed'[j] = unclaimed[l]
                BY <1>4
            <4>3. /\ Taken(c) < unclaimed[l].n /\ unclaimed[l].n \in Nat
                  /\ \A k \in (Taken(c) + 1)..unclaimed[l].n : InQueue(current[c], k)
                BY <1>1, <2>2, <2>4, <4>1, <4>2, Elements DEF Stream
            <4> QED BY <3>3, <3>4, <4>2, <4>3
        <3>6. pending[current[c]] > 0 =>
                  \A k \in (Taken(c) + 1)..(pending[current[c]] - 1) : InQueue(current[c], k)'
            BY <2>2, <2>4, <3>3, <3>4 DEF Stream
        <3>7. UNCHANGED <<current, pending, stage, got>>
            BY <1>2
        <3> QED BY <2>2, <2>4, <3>2, <3>5, <3>6, <3>7 DEF Stream
    <2>5. CASE d = c /\ stage[c] = "output"
        <3> DEFINE t == Len(got[c])
        <3>1. t \in Nat /\ Taken(c) = t /\ Taken(c)' = t + 1
            BY <1>1, <1>10, <2>5, Elements DEF Taken
        <3>2. m.n \in Nat /\ m.n > 0
            BY <1>1, <2>5, Elements DEF Genuine
        <3>3. m.n = t + 1
            <4>1. SUFFICES ASSUME m.n > t + 1 PROVE FALSE
                BY <1>1, <2>2, <2>5, <3>1, <3>2 DEF Stream
            <4>2. PICK j \in 1..Len(unclaimed) : unclaimed[j].rq = current[c] /\ unclaimed[j].n = t + 1
                <5>1. \A k \in (t + 1)..m.n : InQueue(current[c], k)
                    BY <1>1, <2>2, <2>5, <3>1, <3>2 DEF Stream
                <5>2. t + 1 \in (t + 1)..m.n
                    BY <3>1, <3>2, <4>1
                <5> QED BY <5>1, <5>2 DEF InQueue
            <4>3. j < i
                BY <1>1, <1>3, <3>1, <3>2, <4>1, <4>2 DEF IInv, QueueOrdered
            <4>4. Genuine(unclaimed[j]) /\ unclaimed[j] \in Messages
                BY <1>1, Elements DEF IInv, QueueOrdered
            <4>5. Matches(unclaimed[j], [code |-> stage[c], id |-> current[c]])
                BY <2>5, <3>1, <4>2, <4>4 DEF Matches, Genuine, Messages
            <4> QED BY <1>3, <4>3, <4>5
        <3>4. \A k \in (t + 2)..OutputLength : InQueue(current[c], k) => InQueue(current[c], k)'
            BY <1>2, <1>5, <3>1, <3>3, SMTT(30) DEF InQueue
        <3>5. \A j \in 1..Len(unclaimed) : j # i /\ unclaimed[j].rq = current[c] => unclaimed[j].n # m.n
            BY <1>1, <1>3, <3>2, Elements, SMTT(30) DEF IInv, QueueOrdered
        <3>6. /\ current[c] \in Request /\ pending[current[c]] \in -1..OutputLength
              /\ \A j \in 1..Len(unclaimed) : unclaimed[j].n \in 0..OutputLength
            BY <1>1, <2>2, <2>5, Elements DEF Collecting, TypeOK
        <3>7. \A j \in 1..Len(unclaimed') : unclaimed'[j].rq = current[c] /\ unclaimed'[j].n > 0 =>
                  /\ t + 1 < unclaimed'[j].n
                  /\ \A k \in (t + 2)..unclaimed'[j].n : InQueue(current[c], k)'
            <4>1. SUFFICES ASSUME NEW j \in 1..Len(unclaimed'), unclaimed'[j].rq = current[c], unclaimed'[j].n > 0
                           PROVE  /\ t + 1 < unclaimed'[j].n
                                  /\ \A k \in (t + 2)..unclaimed'[j].n : InQueue(current[c], k)'
                OBVIOUS
            <4>2. PICK l \in 1..Len(unclaimed) : l # i /\ unclaimed'[j] = unclaimed[l]
                BY <1>4
            <4>3. t < unclaimed[l].n /\ \A k \in (t + 1)..unclaimed[l].n : InQueue(current[c], k)
                BY <2>2, <2>5, <3>1, <4>1, <4>2 DEF Stream
            <4>4. unclaimed[l].n # t + 1 /\ unclaimed[l].n \in 0..OutputLength
                BY <3>3, <3>5, <3>6, <4>1, <4>2
            <4>5. \A k \in (t + 2)..unclaimed[l].n : k \in (t + 2)..OutputLength /\ k \in (t + 1)..unclaimed[l].n
                BY <3>1, <4>4, NumberAssumption, SMTT(30)
            <4>6. \A k \in (t + 2)..unclaimed[l].n : InQueue(current[c], k)'
                BY <3>4, <4>3, <4>5
            <4>7. t + 1 < unclaimed[l].n
                BY <3>1, <4>3, <4>4
            <4> QED BY <4>2, <4>6, <4>7
        <3>8. pending[current[c]] # -1 => m.n < pending[current[c]]
            BY <1>1 DEF IInv, QueueOrdered
        <3>9. pending[current[c]] > 0 =>
                  /\ t + 1 < pending[current[c]]
                  /\ \A k \in (t + 2)..(pending[current[c]] - 1) : InQueue(current[c], k)'
            <4> DEFINE p == pending[current[c]]
            <4>1. SUFFICES ASSUME p > 0
                           PROVE  t + 1 < p /\ \A k \in (t + 2)..(p - 1) : InQueue(current[c], k)'
                OBVIOUS
            <4>2. \A k \in (t + 1)..(p - 1) : InQueue(current[c], k)
                BY <2>2, <2>5, <3>1, <4>1 DEF Stream
            <4>3. t + 1 < p /\ p \in -1..OutputLength
                BY <3>3, <3>6, <3>8, <4>1
            <4> HIDE DEF p
            <4>4. \A k \in (t + 2)..(p - 1) : k \in (t + 2)..OutputLength /\ k \in (t + 1)..(p - 1)
                BY <3>1, <4>3, NumberAssumption
            <4> QED BY <3>4, <4>2, <4>3, <4>4
        <3> QED BY <1>2, <1>10, <2>5, <3>1, <3>3, <3>6, <3>7, <3>8, <3>9 DEF Stream
    <2>6. stage[c] \in {"completed", "output"}
        BY <1>1 DEF TypeOK
    <2> QED BY <2>3, <2>4, <2>5, <2>6
<1> QED BY <1>6, <1>7, <1>8, <1>11, <1>12, <1>13 DEF IInv

\* The first part of waitForMessage finds nothing: the thread is in the list before the
\* lock is released, so the next put sees it.
LEMMA RegisterIInv ==
    ASSUME IInv, NEW c \in Client, pc[c] = "wait",
           \A i \in 1..Len(unclaimed) : ~Matches(unclaimed[i], [code |-> stage[c], id |-> current[c]]),
           want' = [want EXCEPT ![c] = [code |-> stage[c], id |-> current[c]]],
           slot' = [slot EXCEPT ![c] = None],
           waiters' = <<c>> \o waiters,
           pc' = [pc EXCEPT ![c] = "blocked"],
           UNCHANGED <<unclaimed, result, connected, requestVars, stage, pending, got, outcome, expired>>
    PROVE  IInv'
<1> DEFINE k == [code |-> stage[c], id |-> current[c]]
<1>1. TypeOK /\ slot[c] = None /\ result[c] = None /\ \A j \in 1..Len(waiters) : waiters[j] # c
    BY NotWaiting DEF IInv, TypeOK, Waiting
<1>2. /\ UNCHANGED <<slot, started, requestId, idOf, current, withOutput>>
      /\ \A d \in Client : d # c => pc'[d] = pc[d] /\ want'[d] = want[d]
      /\ pc'[c] = "blocked" /\ want'[c] = k
    BY <1>1 DEF TypeOK, requestVars
<1>3. /\ waiters' \in Seq(Client) /\ Len(waiters') = Len(waiters) + 1 /\ Len(waiters) \in Nat
      /\ waiters'[1] = c /\ \A j \in 1..Len(waiters) : waiters'[j + 1] = waiters[j] /\ waiters[j] \in Client
      /\ \A j \in 2..Len(waiters') : waiters'[j] = waiters[j - 1]
    <2>1. waiters \in Seq(Client) /\ <<c>> \in Seq(Client) /\ Len(<<c>>) = 1 /\ <<c>>[1] = c
        BY <1>1 DEF TypeOK
    <2>2. /\ <<c>> \o waiters \in Seq(Client) /\ Len(<<c>> \o waiters) = Len(<<c>>) + Len(waiters)
          /\ \A j \in 1..(Len(<<c>>) + Len(waiters)) :
                (<<c>> \o waiters)[j] = IF j <= Len(<<c>>) THEN <<c>>[j] ELSE waiters[j - Len(<<c>>)]
        BY <2>1, ConcatProperties
    <2> HIDE DEF k
    <2>3. /\ waiters' \in Seq(Client) /\ Len(waiters') = 1 + Len(waiters) /\ Len(waiters) \in Nat
          /\ \A j \in 1..(1 + Len(waiters)) : waiters'[j] = IF j <= 1 THEN c ELSE waiters[j - 1]
        BY <2>1, <2>2, LenProperties
    <2>4. \A j \in 1..Len(waiters) : waiters[j] \in Client
        BY <2>1, ElementOfSeq
    <2> QED BY <2>3, <2>4
<1>4. TypeOK'
    <2>1. k \in Keys
        BY <1>1, NumberAssumption DEF TypeOK, Keys
    <2>2. want' \in [Client -> Keys \cup {None}]
        BY <1>1, <2>1 DEF TypeOK
    <2> QED BY <1>1, <1>2, <1>3, <2>2 DEF TypeOK
<1>5. WaitersAlive'
    <2>1. \A i, j \in 1..Len(waiters') : waiters'[i] = waiters'[j] => i = j
        BY <1>1, <1>3 DEF IInv, WaitersAlive
    <2>2. \A i \in 1..Len(waiters') : pc'[waiters'[i]] \in {"blocked", "leaving"} /\ slot'[waiters'[i]] = None
        <3>1. SUFFICES ASSUME NEW i \in 1..Len(waiters')
                       PROVE  pc'[waiters'[i]] \in {"blocked", "leaving"} /\ slot'[waiters'[i]] = None
            OBVIOUS
        <3>2. CASE i = 1
            BY <1>1, <1>2, <1>3, <3>2
        <3>3. CASE i # 1
            <4>1. i - 1 \in 1..Len(waiters) /\ waiters'[i] = waiters[i - 1]
                BY <1>3, <3>3
            <4> QED BY <1>1, <1>2, <1>3, <4>1 DEF IInv, WaitersAlive
        <3> QED BY <3>2, <3>3
    <2> QED BY <2>1, <2>2 DEF WaitersAlive
<1>6. NoMissedMatch'
    <2>1. SUFFICES ASSUME NEW i \in 1..Len(unclaimed), NEW j \in 1..Len(waiters')
                   PROVE  ~Matches(unclaimed[i], want'[waiters'[j]])
        BY DEF NoMissedMatch, Matches
    <2>2. CASE j = 1
        BY <1>2, <1>3, <2>2
    <2>3. CASE j # 1
        <3>1. j - 1 \in 1..Len(waiters) /\ waiters'[j] = waiters[j - 1]
            BY <1>3, <2>3
        <3>2. want'[waiters'[j]] = want[waiters[j - 1]]
            BY <1>1, <1>2, <1>3, <3>1
        <3> QED BY <3>1, <3>2 DEF IInv, NoMissedMatch
    <2> QED BY <2>2, <2>3
<1>7. IdsFresh' /\ OwnRequest' /\ CallOpen' /\ PendingSent' /\ OutputComplete'
    BY <1>2 DEF IInv, IdsFresh, OwnRequest, CallOpen, PendingSent, OutputComplete
<1>8. \A m \in Messages : Genuine(m) => Genuine(m)'
    BY <1>2 DEF Genuine
<1>9. \A d \in Client : Held(d)' = Held(d) /\ Held(d) \subseteq Messages
    BY <1>1, <1>2, Elements DEF Held
<1>10. EntriesCurrent'
    BY <1>1, <1>2, <1>8, <1>9 DEF IInv, EntriesCurrent, Waiting
<1>11. QueueOrdered'
    BY <1>1, <1>8, Elements DEF IInv, QueueOrdered
<1>12. StreamsWhole'
    <2>1. SUFFICES ASSUME NEW d \in Client, Collecting(d)' PROVE Stream(d)'
        BY DEF StreamsWhole
    <2>2. Collecting(d) /\ Taken(d)' = Taken(d)
        BY <1>1, <1>2, <1>9, <2>1 DEF Collecting, Taken
    <2>3. Stream(d)
        BY <2>2 DEF IInv, StreamsWhole
    <2> QED BY <1>2, <1>9, <2>2, <2>3 DEF Stream, InQueue
<1> QED BY <1>4, <1>5, <1>6, <1>7, <1>10, <1>11, <1>12 DEF IInv

\* waitForMessage, first part.
LEMMA WaitIInv ==
    ASSUME IInv, NEW c \in Client, Wait(c)
    PROVE  IInv'
<1>1. TypeOK /\ pc[c] = "wait" /\ idOf[current[c]] = current[c]
    BY Elements DEF IInv, Wait, IdsFresh, OwnRequest
<1>2. /\ WaitBegin(c, [code |-> stage[c], id |-> current[c]])
      /\ UNCHANGED <<connected, requestVars, stage, pending, got, outcome, expired>>
    BY <1>1 DEF Wait
<1> QED BY <1>1, <1>2, WaitBeginEffect, ClaimIInv, RegisterIInv

\* The message that ReadMessage puts into the queue
NewMessage(r, ok) ==
    [code |-> IF pending[r] = 0 THEN "completed" ELSE "output", id |-> idOf[r],
     rq |-> r, n |-> pending[r], ok |-> ok]

\* A message of the agent arrives.  If a thread waits for it, nothing else is in the queue
\* for that thread, so it is the next message of its output.
LEMMA ReadMessageIInv ==
    ASSUME IInv, NEW r \in Request, NEW ok \in BOOLEAN, NEW n \in 0..Len(unclaimed),
           ReadMessage(r, ok, n)
    PROVE  IInv'
<1> DEFINE AtEnd == Len(unclaimed) - n + 1
<1>0. PICK p : p = pending[r]
    OBVIOUS
<1>1. /\ TypeOK /\ p = pending[r] /\ p \in 0..OutputLength /\ r <= started /\ idOf[r] = r /\ r \in Nat \ {0}
      /\ \A c \in Client : pc[c] = "send" => current[c] # r
    <2>1. p \in -1..OutputLength /\ p # -1
        BY <1>0 DEF IInv, TypeOK, ReadMessage
    <2>2. r <= started /\ \A c \in Client : pc[c] = "send" => current[c] # r
        BY <1>0, <2>1 DEF IInv, PendingSent
    <2>3. r \in Nat \ {0} /\ started \in Nat /\ TypeOK
        BY NumberAssumption, Elements DEF IInv, Request
    <2>4. idOf[r] = r
        BY <2>2, <2>3 DEF IInv, IdsFresh
    <2> QED BY <1>0, <2>1, <2>2, <2>3, <2>4, NumberAssumption
<1>a. NewMessage(r, ok) \in Messages
    BY <1>1 DEF NewMessage, Messages
<1>b. PICK m \in Messages : m = NewMessage(r, ok)
    BY <1>a
<1>2. /\ m.rq = r /\ m.id = r /\ m.n = p /\ m # None /\ m.code \in {"completed", "output"}
      /\ m.code = "completed" <=> p = 0
    BY <1>1, <1>b, NoneAssumption DEF NewMessage
<1>3. /\ Put(m, n)
      /\ pending' = [pending EXCEPT ![r] = IF p = OutputLength \/ ~ok \/ r \notin withOutput THEN -1 ELSE p + 1]
      /\ expired' = expired \cup ({unclaimed[i].rq : i \in 1..n} \cap {current[c] : c \in Client})
      /\ UNCHANGED <<connected, requestId, started, idOf, current, withOutput, stage, got, outcome>>
    BY <1>0, <1>b DEF ReadMessage, NewMessage, requestVars
<1>4. /\ UNCHANGED <<want, pc, result>>
      /\ unclaimed' \in Seq(Messages)
      /\ \A i \in (n + 1)..Len(unclaimed) : i - n \in 1..Len(unclaimed') /\ unclaimed'[i - n] = unclaimed[i]
      /\ \/ /\ UNCHANGED <<slot, waiters>>
            /\ \A j \in 1..Len(waiters) : ~Matches(m, want[waiters[j]])
            /\ Len(unclaimed') = AtEnd
            /\ unclaimed'[AtEnd] = m
            /\ \A j \in 1..(AtEnd - 1) : unclaimed'[j] = unclaimed[j + n]
         \/ /\ Len(unclaimed') = AtEnd - 1
            /\ \A j \in 1..Len(unclaimed') : unclaimed'[j] = unclaimed[j + n]
            /\ \E i \in 1..Len(waiters) :
                  /\ Matches(m, want[waiters[i]])
                  /\ slot' = [slot EXCEPT ![waiters[i]] = m]
                  /\ waiters' = RemoveAt(waiters, i)
    <2>1. Len(unclaimed) \in Nat
        BY <1>1, Elements
    <2>2. TypeOK /\ Put(m, n)
        BY <1>1, <1>3
    <2>3. Len(unclaimed) - n + 1 - 1 = Len(unclaimed) - n
        BY <2>1
    <2> HIDE DEF AtEnd
    <2>4. AtEnd = Len(unclaimed) - n + 1 /\ AtEnd - 1 = Len(unclaimed) - n
        BY <2>3 DEF AtEnd
    <2> QED BY <1>b, <2>2, <2>4, PutEffect
<1>5. Len(unclaimed) \in Nat /\ n \in Nat /\ Len(waiters) \in Nat
    BY <1>1, Elements
<1>6. \A j \in 1..Len(unclaimed') :
          \/ j \in 1..(AtEnd - 1) /\ j + n \in 1..Len(unclaimed) /\ unclaimed'[j] = unclaimed[j + n]
          \/ j = AtEnd /\ unclaimed'[j] = m
    <2>1. CASE /\ Len(unclaimed') = AtEnd /\ unclaimed'[AtEnd] = m
               /\ \A j \in 1..(AtEnd - 1) : unclaimed'[j] = unclaimed[j + n]
        BY <1>5, <2>1, SMTT(30)
    <2>2. CASE /\ Len(unclaimed') = AtEnd - 1
               /\ \A j \in 1..Len(unclaimed') : unclaimed'[j] = unclaimed[j + n]
        BY <1>5, <2>2
    <2> QED BY <1>4, <2>1, <2>2
<1>7. /\ pending' \in [Request -> -1..OutputLength]
      /\ pending'[r] = -1 \/ pending'[r] = p + 1
      /\ \A q \in Request : q # r => pending'[q] = pending[q]
    <2>1. (IF p = OutputLength \/ ~ok \/ r \notin withOutput THEN -1 ELSE p + 1) \in -1..OutputLength
        BY <1>1, NumberAssumption
    <2> QED BY <1>1, <1>3, <2>1 DEF TypeOK
<1>8. \A x \in Messages : Genuine(x) => Genuine(x)'
    BY <1>3, <1>4 DEF Genuine
<1>9. Genuine(m) /\ Genuine(m)'
    <2>1. Genuine(m)
        BY <1>1, <1>2 DEF Genuine
    <2> QED BY <1>2, <1>8, <2>1
<1>10. IdsFresh' /\ OwnRequest' /\ CallOpen' /\ OutputComplete'
    BY <1>3, <1>4 DEF IInv, IdsFresh, OwnRequest, CallOpen, OutputComplete
<1>11. PendingSent'
    BY <1>1, <1>3, <1>4, <1>7 DEF IInv, PendingSent
<1>12. QueueOrdered'
    <2>0. \A i \in 1..Len(unclaimed) : unclaimed[i] \in Messages /\ unclaimed[i].rq \in Request /\ unclaimed[i].n \in Nat
        BY <1>1, Elements
    <2>1. ASSUME NEW j \in 1..Len(unclaimed') PROVE Genuine(unclaimed[j])'
        <3>1. CASE unclaimed'[j] = m
            BY <1>9, <3>1 DEF Genuine
        <3>2. CASE j + n \in 1..Len(unclaimed) /\ unclaimed'[j] = unclaimed[j + n]
            <4>1. Genuine(unclaimed[j + n])
                BY <3>2 DEF IInv, QueueOrdered
            <4> QED BY <1>3, <1>4, <3>2, <4>1 DEF Genuine
        <3> QED BY <1>6, <3>1, <3>2
    <2>2. ASSUME NEW j \in 1..Len(unclaimed'), NEW k \in 1..Len(unclaimed'), j < k,
                 unclaimed'[j].rq = unclaimed'[k].rq
          PROVE  unclaimed'[j].n < unclaimed'[k].n
        <3>0. j # AtEnd
            <4>1. k = AtEnd \/ k \in 1..(AtEnd - 1)
                BY <1>6
            <4>2. AtEnd \in Int
                BY <1>5
            <4> HIDE DEF AtEnd
            <4> QED BY <2>2, <4>1, <4>2
        <3>1. j \in 1..(AtEnd - 1) /\ j + n \in 1..Len(unclaimed) /\ unclaimed'[j] = unclaimed[j + n]
            BY <1>6, <3>0
        <3>2. CASE k = AtEnd /\ unclaimed'[k] = m
            <4>1. unclaimed[j + n].rq = r
                BY <1>2, <2>2, <3>1, <3>2
            <4>2. unclaimed[j + n].n < p
                <5>1. pending[unclaimed[j + n].rq] = p /\ p # -1
                    BY <1>1, <4>1
                <5> QED BY <3>1, <5>1 DEF IInv, QueueOrdered
            <4> QED BY <1>2, <3>1, <3>2, <4>2
        <3>3. CASE k + n \in 1..Len(unclaimed) /\ unclaimed'[k] = unclaimed[k + n]
            <4>1. j + n < k + n
                BY <1>5, <2>2
            <4> QED BY <2>2, <3>1, <3>3, <4>1 DEF IInv, QueueOrdered
        <3> QED BY <1>6, <3>2, <3>3
    <2>3. ASSUME NEW j \in 1..Len(unclaimed'), pending'[unclaimed'[j].rq] # -1
          PROVE  unclaimed'[j].n < pending'[unclaimed'[j].rq]
        <3>1. CASE unclaimed'[j] = m
            BY <1>1, <1>2, <1>7, <2>3, <3>1
        <3>2. CASE j + n \in 1..Len(unclaimed) /\ unclaimed'[j] = unclaimed[j + n]
            <4>1. unclaimed[j + n].rq = r => unclaimed[j + n].n < p
                BY <1>1, <3>2 DEF IInv, QueueOrdered
            <4>2. unclaimed[j + n].rq # r => pending'[unclaimed[j + n].rq] = pending[unclaimed[j + n].rq]
                BY <1>7, <2>0, <3>2
            <4>3. pending[unclaimed[j + n].rq] # -1 => unclaimed[j + n].n < pending[unclaimed[j + n].rq]
                BY <3>2 DEF IInv, QueueOrdered
            <4> QED BY <1>1, <1>7, <2>0, <2>3, <3>2, <4>1, <4>2, <4>3
        <3> QED BY <1>6, <3>1, <3>2
    <2> QED BY <2>1, <2>2, <2>3 DEF QueueOrdered
<1>13. /\ expired \subseteq expired' /\ expired' \in SUBSET Request
       /\ \A d \in Client : current[d] \notin expired' => \A i \in 1..n : unclaimed[i].rq # current[d]
    <2>1. \A i \in 1..n : i \in 1..Len(unclaimed)
        BY <1>5
    <2>2. \A i \in 1..n : unclaimed[i].rq \in Request
        BY <1>1, <2>1, Elements
    <2>3. expired \subseteq expired' /\ expired' \in SUBSET Request
        <3>1. expired \in SUBSET Request
            BY <1>1 DEF TypeOK
        <3>2. {unclaimed[i].rq : i \in 1..n} \subseteq Request
            BY <2>2
        <3> QED BY <1>3, <3>1, <3>2
    <2>4. \A d \in Client : current[d] \notin expired' => \A i \in 1..n : unclaimed[i].rq # current[d]
        BY <1>3
    <2> QED BY <2>3, <2>4
<1>14. ASSUME NEW d \in Client, Collecting(d)'
       PROVE  /\ Collecting(d) /\ Stream(d) /\ current[d] \in Request /\ current[d] # 0
              /\ \A k : InQueue(current[d], k) => InQueue(current[d], k)'
    <2>1. Collecting(d)
        BY <1>3, <1>4, <1>13, <1>14 DEF Collecting
    <2>2. current[d] \in Request /\ current[d] # 0
        BY <1>1, <2>1, Elements DEF Collecting
    <2>3. \A i \in 1..n : unclaimed[i].rq # current[d]
        BY <1>3, <1>13, <1>14 DEF Collecting
    <2>4. ASSUME NEW k, InQueue(current[d], k) PROVE InQueue(current[d], k)'
        <3>1. PICK i \in 1..Len(unclaimed) : unclaimed[i].rq = current[d] /\ unclaimed[i].n = k
            BY <2>4 DEF InQueue
        <3>2. i \in (n + 1)..Len(unclaimed)
            BY <1>5, <2>3, <3>1
        <3>3. i - n \in 1..Len(unclaimed') /\ unclaimed'[i - n] = unclaimed[i]
            BY <1>4, <3>2
        <3> QED BY <1>3, <3>1, <3>3 DEF InQueue
    <2> QED BY <2>1, <2>2, <2>4 DEF IInv, StreamsWhole
\* The two outcomes of put
<1>15. CASE /\ UNCHANGED <<slot, waiters>>
            /\ \A j \in 1..Len(waiters) : ~Matches(m, want[waiters[j]])
            /\ Len(unclaimed') = AtEnd /\ unclaimed'[AtEnd] = m
    <2>1. TypeOK'
        BY <1>1, <1>3, <1>4, <1>7, <1>13, <1>15 DEF TypeOK
    <2>2. WaitersAlive'
        BY <1>4, <1>15 DEF IInv, WaitersAlive
    <2>3. NoMissedMatch'
        <3>1. SUFFICES ASSUME NEW j \in 1..Len(unclaimed'), NEW k \in 1..Len(waiters)
                       PROVE  ~Matches(unclaimed'[j], want[waiters[k]])
            BY <1>4, <1>15 DEF NoMissedMatch, Matches
        <3>2. CASE unclaimed'[j] = m
            BY <1>15, <3>2
        <3>3. CASE j + n \in 1..Len(unclaimed) /\ unclaimed'[j] = unclaimed[j + n]
            BY <3>3 DEF IInv, NoMissedMatch
        <3> QED BY <1>6, <3>2, <3>3
    <2>4. \A d \in Client : Held(d)' = Held(d) /\ Taken(d)' = Taken(d) /\ Held(d) \subseteq Messages
        BY <1>1, <1>3, <1>4, <1>15, Elements DEF Held, Taken
    <2>5. EntriesCurrent'
        BY <1>3, <1>4, <1>8, <1>15, <2>4 DEF IInv, EntriesCurrent
    <2>6. ASSUME NEW d \in Client, Collecting(d)' PROVE Stream(d)'
        <3> DEFINE t == Taken(d)
        <3>1. /\ Stream(d) /\ current[d] \in Request /\ t \in Nat /\ Taken(d)' = t
              /\ \A k : InQueue(current[d], k) => InQueue(current[d], k)'
              /\ UNCHANGED <<current, stage, got>> /\ Held(d)' = Held(d)
            BY <1>1, <1>3, <1>14, <2>4, <2>6, Elements
        <3>2. CASE current[d] # r
            <4>1. pending'[current[d]] = pending[current[d]]
                BY <1>7, <3>1, <3>2
            <4>2. \A i \in 1..Len(unclaimed') : unclaimed'[i].rq = current[d] /\ unclaimed'[i].n > 0 =>
                      /\ t < unclaimed'[i].n
                      /\ \A k \in (t + 1)..unclaimed'[i].n : InQueue(current[d], k)'
                BY <1>2, <1>6, <3>1, <3>2 DEF Stream
            <4> QED BY <3>1, <4>1, <4>2 DEF Stream
        <3>3. CASE current[d] = r
            <4>1. InQueue(current[d], p)'
                <5>1. AtEnd \in 1..Len(unclaimed')
                    BY <1>5, <1>15
                <5> QED BY <1>2, <1>3, <1>15, <3>3, <5>1 DEF InQueue
            <4>2. p > 0 => t < p
                BY <1>1, <3>1, <3>3 DEF Stream
            <4>3. \A k \in (t + 1)..p : InQueue(current[d], k)'
                <5>1. ASSUME NEW k \in (t + 1)..p PROVE InQueue(current[d], k)'
                    <6>1. CASE k = p
                        BY <4>1, <6>1
                    <6>2. CASE k # p
                        <7>1. p > 0 /\ k \in (t + 1)..(p - 1)
                            BY <1>1, <3>1, <6>2
                        <7> QED BY <1>1, <3>1, <3>3, <7>1 DEF Stream
                    <6> QED BY <6>1, <6>2
                <5> QED BY <5>1
            <4>4. \A i \in 1..Len(unclaimed') : unclaimed'[i].rq = current[d] /\ unclaimed'[i].n > 0 =>
                      /\ t < unclaimed'[i].n
                      /\ \A k \in (t + 1)..unclaimed'[i].n : InQueue(current[d], k)'
                BY <1>2, <1>6, <3>1, <4>2, <4>3 DEF Stream
            <4>5. t < p + 1
                BY <1>1, <3>1, <3>3, <4>2 DEF Stream
            <4>6. pending'[current[d]] > 0 => pending'[current[d]] = p + 1
                BY <1>7, <3>3
            <4>7. pending'[current[d]] # 0
                BY <1>1, <1>7, <3>3
            <4>8. p + 1 - 1 = p
                BY <1>1
            <4>9. pending'[current[d]] > 0 =>
                      /\ t < pending'[current[d]]
                      /\ \A k \in (t + 1)..(pending'[current[d]] - 1) : InQueue(current[d], k)'
                <5>1. SUFFICES ASSUME pending'[current[d]] > 0
                               PROVE  /\ t < pending'[current[d]]
                                      /\ \A k \in (t + 1)..(pending'[current[d]] - 1) : InQueue(current[d], k)'
                    OBVIOUS
                <5>2. pending'[current[d]] = p + 1 /\ pending'[current[d]] - 1 = p
                    BY <1>1, <4>6, <5>1
                <5> QED BY <4>3, <4>5, <5>2
            <4> HIDE DEF t
            <4> QED BY <3>1, <4>4, <4>7, <4>9 DEF Stream
        <3> QED BY <3>2, <3>3
    <2> QED BY <1>10, <1>11, <1>12, <2>1, <2>2, <2>3, <2>5, <2>6 DEF IInv, StreamsWhole
<1>16. CASE \E i \in 1..Len(waiters) :
                /\ Len(unclaimed') = AtEnd - 1 /\ Matches(m, want[waiters[i]])
                /\ slot' = [slot EXCEPT ![waiters[i]] = m]
                /\ waiters' = RemoveAt(waiters, i)
    <2>1. PICK i \in 1..Len(waiters) :
              /\ Len(unclaimed') = AtEnd - 1 /\ Matches(m, want[waiters[i]])
              /\ slot' = [slot EXCEPT ![waiters[i]] = m]
              /\ waiters' = RemoveAt(waiters, i)
        BY <1>16
    <2>a. PICK c \in Client : c = waiters[i]
        BY <1>1, Elements
    <2>2. /\ pc[c] \in Waiting /\ slot[c] = None /\ result[c] = None
          /\ stage[c] = m.code /\ current[c] = r
        <3>1. pc[c] \in Waiting /\ slot[c] = None
            BY <2>a DEF IInv, WaitersAlive, Waiting
        <3>2. result[c] = None
            BY <1>1, <3>1 DEF IInv, EntriesCurrent, TypeOK, Waiting
        <3>3. want[c] = [code |-> stage[c], id |-> current[c]]
            BY <3>1 DEF IInv, EntriesCurrent
        <3> QED BY <1>2, <2>1, <2>a, <3>1, <3>2, <3>3 DEF Matches
    <2>3. /\ slot'[c] = m /\ \A d \in Client : d # c => slot'[d] = slot[d]
          /\ slot' \in [Client -> Messages \cup {None}]
        BY <1>1, <2>1, <2>a DEF TypeOK
    <2>4. /\ waiters' \in Seq(Client)
          /\ \A j, k \in 1..Len(waiters') : waiters'[j] = waiters'[k] => j = k
          /\ \A j \in 1..Len(waiters') :
                waiters'[j] # c /\ \E k \in 1..Len(waiters) : waiters'[j] = waiters[k]
        <3>1. waiters \in Seq(Client) /\ \A j, k \in 1..Len(waiters) : waiters[j] = waiters[k] => j = k
            BY <1>1 DEF IInv, TypeOK, WaitersAlive
        <3> DEFINE l == RemoveAt(waiters, i)
        <3>2. /\ l \in Seq(Client)
              /\ \A j, k \in 1..Len(l) : l[j] = l[k] => j = k
              /\ \A j \in 1..Len(l) : l[j] # waiters[i] /\ \E k \in 1..Len(waiters) : l[j] = waiters[k]
            BY <3>1, ListWithout
        <3>3. waiters' = l
            BY <2>1
        <3> HIDE DEF l
        <3> QED BY <2>a, <3>2, <3>3
    <2>b. ASSUME NEW j \in 1..Len(unclaimed')
          PROVE  j + n \in 1..Len(unclaimed) /\ unclaimed'[j] = unclaimed[j + n]
        <3>1. Len(unclaimed') = AtEnd - 1 /\ AtEnd \in Int
            BY <1>5, <2>1
        <3> HIDE DEF AtEnd
        <3>2. j # AtEnd
            BY <3>1
        <3> QED BY <1>6, <3>2
    <2>5. TypeOK'
        BY <1>1, <1>3, <1>4, <1>7, <1>13, <2>3, <2>4 DEF TypeOK
    <2>6. WaitersAlive'
        <3>1. \A k \in 1..Len(waiters) : waiters[k] \in Client
            BY <1>1, Elements
        <3>2. ASSUME NEW j \in 1..Len(waiters')
              PROVE  pc'[waiters'[j]] \in {"blocked", "leaving"} /\ slot'[waiters'[j]] = None
            <4>1. PICK k \in 1..Len(waiters) : waiters'[j] = waiters[k]
                BY <2>4
            <4>2. pc[waiters[k]] \in {"blocked", "leaving"} /\ slot[waiters[k]] = None
                BY DEF IInv, WaitersAlive
            <4> QED BY <1>4, <2>3, <2>4, <3>1, <4>1, <4>2
        <3> QED BY <2>4, <3>2 DEF WaitersAlive
    <2>7. NoMissedMatch'
        <3>1. SUFFICES ASSUME NEW j \in 1..Len(unclaimed'), NEW k \in 1..Len(waiters')
                       PROVE  ~Matches(unclaimed'[j], want[waiters'[k]])
            BY <1>4 DEF NoMissedMatch, Matches
        <3>2. j + n \in 1..Len(unclaimed) /\ unclaimed'[j] = unclaimed[j + n]
            BY <2>b
        <3>3. PICK l \in 1..Len(waiters) : waiters'[k] = waiters[l]
            BY <2>4
        <3> QED BY <3>2, <3>3 DEF IInv, NoMissedMatch
    <2>8. /\ Held(c) = {} /\ Held(c)' = {m}
          /\ \A d \in Client : d # c => Held(d)' = Held(d)
          /\ \A d \in Client : Held(d) \subseteq Messages
        BY <1>1, <1>2, <1>4, <2>2, <2>3, Elements, SMTT(30) DEF Held
    <2>9. EntriesCurrent'
        <3>1. SUFFICES ASSUME NEW d \in Client
                       PROVE  /\ pc'[d] \in Waiting => want'[d] = [code |-> stage'[d], id |-> current'[d]]
                              /\ slot'[d] # None => pc'[d] \in Waiting
                              /\ pc'[d] = "leaving" /\ result'[d] # None => slot'[d] = result'[d]
                              /\ \A x \in Held(d)' : Genuine(x)' /\ x.rq = current'[d] /\ x.code = stage'[d]
            BY DEF EntriesCurrent
        <3>2. CASE d = c
            BY <1>2, <1>3, <1>4, <1>9, <2>2, <2>8, <3>2 DEF IInv, EntriesCurrent
        <3>3. CASE d # c
            BY <1>3, <1>4, <1>8, <2>3, <2>8, <3>3 DEF IInv, EntriesCurrent
        <3> QED BY <3>2, <3>3
    <2>10. ASSUME NEW d \in Client, Collecting(d)' PROVE Stream(d)'
        <3> DEFINE t == Taken(d)
        <3>1. /\ Stream(d) /\ current[d] \in Request /\ current[d] # 0 /\ t \in Nat
              /\ \A k : InQueue(current[d], k) => InQueue(current[d], k)'
              /\ UNCHANGED <<current, stage, got>>
            BY <1>1, <1>3, <1>14, <2>10, Elements
        <3>2. \A j \in 1..Len(unclaimed') : j + n \in 1..Len(unclaimed) /\ unclaimed'[j] = unclaimed[j + n]
            BY <2>b
        <3>3. CASE d # c
            <4>1. current[d] # r
                BY <2>2, <3>1, <3>3 DEF IInv, OwnRequest
            <4>2. pending'[current[d]] = pending[current[d]] /\ Held(d)' = Held(d)
                BY <1>7, <2>8, <3>1, <3>3, <4>1
            <4>3. Taken(d)' = t
                BY <3>1, <4>2 DEF Taken
            <4>4. \A j \in 1..Len(unclaimed') : unclaimed'[j].rq = current[d] /\ unclaimed'[j].n > 0 =>
                      /\ t < unclaimed'[j].n
                      /\ \A k \in (t + 1)..unclaimed'[j].n : InQueue(current[d], k)'
                BY <3>1, <3>2 DEF Stream
            <4> QED BY <3>1, <4>2, <4>3, <4>4 DEF Stream
        <3>4. CASE d = c /\ p = 0
            <4>1. stage[d] = "completed" /\ t = 0 /\ Taken(d)' = 0
                BY <1>1, <1>2, <2>2, <3>1, <3>4 DEF Stream, Taken
            <4>2. \A j \in 1..Len(unclaimed') : unclaimed'[j].rq # r
                <5>1. \A j \in 1..Len(unclaimed) : unclaimed[j].rq = r => unclaimed[j].n < 0 /\ unclaimed[j].n \in Nat
                    <6>1. \A j \in 1..Len(unclaimed) : unclaimed[j].n \in Nat
                        BY <1>1, Elements
                    <6>2. pending[r] = 0
                        BY <1>1, <3>4
                    <6> QED BY <6>1, <6>2 DEF IInv, QueueOrdered
                <5>2. \A j \in 1..Len(unclaimed) : unclaimed[j].rq # r
                    BY <5>1
                <5> QED BY <3>2, <5>2
            <4>3. pending'[r] = -1 \/ pending'[r] = 1
                BY <1>7, <3>4
            <4> QED BY <2>2, <3>1, <3>4, <4>1, <4>2, <4>3 DEF Stream
        <3>5. CASE d = c /\ p # 0
            <4>1. stage[d] = "output" /\ t = Len(got[d]) /\ Taken(d)' = t + 1 /\ p > 0
                <5>1. stage[d] = "output" /\ p > 0
                    BY <1>1, <1>2, <2>2, <3>5
                <5>2. Len(got[d]) \in Nat
                    BY <1>1, Elements
                <5>3. Held(d) = {} /\ Held(d)' # {}
                    BY <2>8, <3>5
                <5> QED BY <3>1, <5>1, <5>2, <5>3 DEF Taken
            <4>2. \A j \in 1..Len(unclaimed) : ~(unclaimed[j].rq = r /\ unclaimed[j].n > 0)
                <5>1. SUFFICES ASSUME NEW j \in 1..Len(unclaimed), unclaimed[j].rq = r, unclaimed[j].n > 0
                               PROVE  Matches(unclaimed[j], want[waiters[i]])
                    BY DEF IInv, NoMissedMatch
                <5>2. Genuine(unclaimed[j]) /\ unclaimed[j] \in Messages
                    BY <1>1, Elements DEF IInv, QueueOrdered
                <5>3. unclaimed[j].code = "output" /\ unclaimed[j].id = r
                    BY <5>1, <5>2 DEF Genuine, Messages
                <5>4. want[c] = [code |-> stage[c], id |-> current[c]]
                    BY <2>2 DEF IInv, EntriesCurrent
                <5> QED BY <2>2, <2>a, <3>5, <4>1, <5>3, <5>4 DEF Matches
            <4>3. t < p /\ \A k \in (t + 1)..(p - 1) : InQueue(r, k)
                BY <1>1, <2>2, <3>1, <3>5, <4>1 DEF Stream
            <4>4. \A k \in Nat \ {0} : ~InQueue(r, k)
                BY <4>2 DEF InQueue
            <4>5. p = t + 1
                <5>1. SUFFICES ASSUME t + 1 < p PROVE FALSE
                    BY <1>1, <3>1, <4>3
                <5>2. InQueue(r, t + 1)
                    BY <1>1, <3>1, <4>3, <5>1
                <5> QED BY <3>1, <4>4, <5>2
            <4>6. pending'[r] = -1 \/ pending'[r] = t + 2
                BY <1>7, <3>1, <4>5
            <4>7. \A j \in 1..Len(unclaimed') : ~(unclaimed'[j].rq = r /\ unclaimed'[j].n > 0)
                BY <3>2, <4>2
            <4>8. \A x \in Held(d)' : x.n = Len(got'[d]) + 1
                BY <1>2, <2>8, <3>1, <3>5, <4>1, <4>5
            <4>9. current'[d] = r /\ Taken(d)' = t + 1 /\ t \in Nat
                BY <2>2, <3>1, <3>5, <4>1
            <4>10. pending'[current'[d]] = 0 => Taken(d)' = 0
                BY <4>6, <4>9
            <4>11. pending'[current'[d]] > 0 =>
                      /\ Taken(d)' < pending'[current'[d]]
                      /\ \A k \in (Taken(d)' + 1)..(pending'[current'[d]] - 1) : InQueue(current[d], k)'
                BY <4>6, <4>9
            <4> QED BY <4>7, <4>8, <4>9, <4>10, <4>11 DEF Stream
        <3> QED BY <3>3, <3>4, <3>5
    <2> QED BY <1>10, <1>11, <1>12, <2>5, <2>6, <2>7, <2>9, <2>10 DEF IInv, StreamsWhole
<1> QED BY <1>4, <1>15, <1>16

\* The invariant is inductive.
LEMMA NextIInv == IInv /\ [Next]_vars => IInv'
<1> SUFFICES ASSUME IInv, [Next]_vars PROVE IInv'
    OBVIOUS
<1>1. ASSUME NEW c \in Client, NEW output \in BOOLEAN, Begin(c, output) PROVE IInv'
    BY <1>1, BeginIInv
<1>2. ASSUME NEW c \in Client, Send(c) PROVE IInv'
    BY <1>2, SendIInv
<1>3. ASSUME NEW c \in Client, Wait(c) PROVE IInv'
    BY <1>3, WaitIInv
<1>4. ASSUME NEW c \in Client, WakeUp(c) PROVE IInv'
    BY <1>4, WaitEndIInv, WaitLeaveIInv DEF WakeUp
<1>5. ASSUME NEW c \in Client, Timeout(c) PROVE IInv'
    BY <1>5, TimeoutIInv
<1>6. ASSUME NEW c \in Client, Response(c) PROVE IInv'
    BY <1>6, ResponseIInv
<1>7. ASSUME NEW c \in Client, Output(c) PROVE IInv'
    BY <1>7, OutputIInv
<1>8. ASSUME NEW r \in Request, NEW ok \in BOOLEAN, NEW n \in 0..Len(unclaimed), ReadMessage(r, ok, n)
      PROVE  IInv'
    BY <1>8, ReadMessageIInv
<1>9. CASE Disconnect \/ Connect
    BY <1>9, ChannelIInv
<1>10. CASE UNCHANGED vars
    <2> USE <1>10 DEF vars
    <2>1. TypeOK'
        BY DEF IInv, TypeOK
    <2>2. WaitersAlive' /\ NoMissedMatch' /\ IdsFresh' /\ OwnRequest' /\ PendingSent' /\ CallOpen' /\ OutputComplete'
        BY DEF IInv, WaitersAlive, NoMissedMatch, Matches, IdsFresh, OwnRequest, PendingSent, CallOpen,
               OutputComplete
    <2>3. EntriesCurrent' /\ QueueOrdered'
        BY DEF IInv, EntriesCurrent, QueueOrdered, Genuine, Held
    <2>4. \A c \in Client : (Collecting(c)' <=> Collecting(c)) /\ Held(c)' = Held(c) /\ Taken(c)' = Taken(c)
        BY DEF Collecting, Held, Taken
    <2>5. StreamsWhole'
        BY <2>4 DEF IInv, StreamsWhole, Stream, InQueue
    <2> QED BY <2>1, <2>2, <2>3, <2>5 DEF IInv
<1> QED BY <1>1, <1>2, <1>3, <1>4, <1>5, <1>6, <1>7, <1>8, <1>9, <1>10 DEF Next

\* The inductive invariant holds in every state.
LEMMA Invariance == Spec => []IInv
BY InitIInv, NextIInv, PTL DEF Spec

-----------------------------------------------------------------------------
(* Theorems *)

\* Every variable keeps its type, and a thread holds a message only between the end of its
\* wait and the handling of the message.
THEOREM TypeCorrect == Spec => []TypeOK
<1>1. IInv => TypeOK
    BY DEF IInv
<1> QED BY <1>1, Invariance, PTL

\* The searches of waitForMessage and of put never miss each other: no thread waits while a
\* message for it lies in the queue.
THEOREM NoMatchMissed == Spec => []NoMissedMatch
<1>1. IInv => NoMissedMatch
    BY DEF IInv
<1> QED BY <1>1, Invariance, PTL

\* The list of waiters holds no entry that was destroyed, none twice, and none that was
\* given a message.
THEOREM WaitersStayAlive == Spec => []WaitersAlive
<1>1. IInv => WaitersAlive
    BY DEF IInv
<1> QED BY <1>1, Invariance, PTL

\* A thread is only given messages of the request it waits with, however late the messages
\* of other requests arrive and however often the connection breaks.
THEOREM MessagesOwned == Spec => []OwnMessages
<1>1. IInv => OwnMessages
    BY DEF IInv, EntriesCurrent, OwnMessages
<1> QED BY <1>1, Invariance, PTL

\* The output of a command is given to the callback in order and without a gap, and it is
\* complete when the call reports success, unless a message of it expired in the queue.
THEOREM OutputWhole == Spec => []OutputComplete
<1>1. IInv => OutputComplete
    BY DEF IInv
<1> QED BY <1>1, Invariance, PTL

=============================================================================
