-------------------------- MODULE ThreadPoolProofs --------------------------
(***************************************************************************)
(* Proofs about the thread pool for any finite set of worker threads, any  *)
(* tasks, keys and numbers of stop requests: the counter of active         *)
(* requests is exact, every registered serialization key has exactly one   *)
(* request that processes it, serialized execution implements its abstract *)
(* specification, and ThreadPoolDestroy waits for what was accepted.       *)
(*                                                                         *)
(* The refinement rests on OneProcessor: no second worker can start a task *)
(* of a key.  It needs besides that a task never changes from serialized   *)
(* to other execution, which PlainTasks and SerialTasks say.               *)
(*                                                                         *)
(* DestroyWaits needs to know where a promised task is (Placed), that the  *)
(* requests for it are not behind a stop request (DueFirst), that one      *)
(* thread stays until the first of those is taken (OneLeft), and that the  *)
(* walk over the threads leaves none behind that has not ended (Walking),  *)
(* unless it uses an entry that was removed meanwhile, which happens only  *)
(* when threads were stopping by themselves (Alone).                       *)
(***************************************************************************)
EXTENDS ThreadPool, SequenceLemmas

USE DEF walkVars

\* Progress of tasks that do not go through a queue of a key, and of those that do
Plain == {"scheduled", "queued", "executed"}
Serialized == {"serialized", "processed"}

\* What is scheduled, queued or run as a plain task never was submitted with a key, and
\* the other way round
PlainTasks ==
    /\ \A i \in 1..Len(queue) : queue[i].func = "task" => call[queue[i].arg] \in Plain
    /\ \A i \in 1..Len(schedulerQueue) : call[schedulerQueue[i]] \in Plain
    /\ \A w \in Thread : pc[w] = "run" => call[job[w]] \in Plain
SerialTasks ==
    /\ \A k \in Key : \A i \in 1..Len(serialQueue[k]) : call[serialQueue[k][i]] \in Serialized
    /\ \A w \in Thread : pc[w] = "runserial" => call[job[w]] \in Serialized

\* The inductive invariant
IInv == TypeOK /\ ActiveRequestsExact /\ OneProcessor /\ PlainTasks /\ SerialTasks

-----------------------------------------------------------------------------
(* Counting requests and workers *)

\* Requests that are counted, and those that process a key
CountedRequests == {r \in Requests : r.func \in {"join", "task", "serialized"}}
Processing(k) == {Request("serialized", k)}

\* Workers that have a counted request
Busy == {w \in Thread : pc[w] \in InSerial \cup {"join", "run"}}

\* Requests for a key and workers that process it
Processors(k) == Cardinality(QueuedFor(k)) + Cardinality(WorkersOn(k))

\* The requests are what the functions of the pool put into the queue, and only those of
\* callers, of joins and of keys are counted.
LEMMA RequestsTyped ==
    /\ Stop \in Requests /\ Unregister \in Requests
    /\ Stop \notin CountedRequests /\ Unregister \notin CountedRequests
    /\ \A t \in Task : Request("task", t) \in CountedRequests /\ Request("task", t) \in Requests
    /\ \A w \in Thread : Request("join", w) \in CountedRequests /\ Request("join", w) \in Requests
    /\ \A k \in Key : Request("serialized", k) \in CountedRequests /\ Request("serialized", k) \in Requests
BY DEF Stop, Unregister, Request, Requests, CountedRequests

\* No other request processes a key.
LEMMA OthersDoNotProcess ==
    ASSUME NEW k
    PROVE  /\ Stop \notin Processing(k) /\ Unregister \notin Processing(k)
           /\ \A t : Request("task", t) \notin Processing(k)
           /\ \A w : Request("join", w) \notin Processing(k)
           /\ \A l : Request("serialized", l) \in Processing(k) <=> l = k
<1>1. \A f, g, a, b : Request(f, a) = Request(g, b) => f = g /\ a = b
    BY DEF Request
<1> QED BY <1>1 DEF Processing, Stop, Unregister

\* A request of the queue is one of five.
LEMMA RequestCases ==
    ASSUME NEW r \in Requests
    PROVE  \/ r = Stop \/ r = Unregister
           \/ \E w \in Thread : r = Request("join", w)
           \/ \E t \in Task : r = Request("task", t)
           \/ \E k \in Key : r = Request("serialized", k)
BY DEF Requests, Request, Stop, Unregister

\* The invariants count elements of the queue.
LEMMA QueueCounted ==
    ASSUME NEW q \in Seq(Requests)
    PROVE  /\ {i \in 1..Len(q) : q[i].func \in {"join", "task", "serialized"}} = At(q, CountedRequests)
           /\ \A k : {i \in 1..Len(q) : q[i] = Request("serialized", k)} = At(q, Processing(k))
<1>1. \A i \in 1..Len(q) : q[i] \in Requests
    BY ElementOfSeq
<1> QED BY <1>1 DEF At, CountedRequests, Processing

\* There are finitely many workers.
LEMMA WorkersFinite ==
    /\ IsFiniteSet(Busy) /\ Cardinality(Busy) \in Nat
    /\ \A k : IsFiniteSet(WorkersOn(k)) /\ Cardinality(WorkersOn(k)) \in Nat
<1>1. Busy \in SUBSET Thread /\ \A k : WorkersOn(k) \in SUBSET Thread
    BY DEF Busy, WorkersOn
<1> QED BY <1>1, SizeAssumption, FS_Subset, FS_CardinalityType

\* The invariants in terms of the counts.
LEMMA CountsNow ==
    ASSUME IInv
    PROVE  /\ activeRequests = Count(queue, CountedRequests) + Cardinality(Busy)
           /\ Count(queue, CountedRequests) \in Nat
           /\ \A k \in Key :
                 /\ Processors(k) = Count(queue, Processing(k)) + Cardinality(WorkersOn(k))
                 /\ Count(queue, Processing(k)) \in Nat /\ Processors(k) \in Nat
                 /\ Processors(k) <= 1
                 /\ k \in serialKeys => Processors(k) = 1 \/ (Processors(k) = 0 /\ shutdownMode)
                 /\ k \notin serialKeys => Processors(k) = 0 /\ serialQueue[k] = <<>>
<1>1. queue \in Seq(Requests)
    BY DEF IInv, TypeOK
<1>2. activeRequests = Count(queue, CountedRequests) + Cardinality(Busy)
    BY <1>1, QueueCounted DEF IInv, ActiveRequestsExact, Count, Busy
<1>3. \A k : QueuedFor(k) = At(queue, Processing(k))
    BY <1>1, QueueCounted DEF QueuedFor
<1>4. /\ Count(queue, CountedRequests) \in Nat
      /\ \A k : Count(queue, Processing(k)) \in Nat
    BY <1>1, CountType
<1>5. ASSUME NEW k \in Key
      PROVE  /\ k \in serialKeys => Processors(k) = 1 \/ (Processors(k) = 0 /\ shutdownMode)
             /\ k \notin serialKeys => Processors(k) = 0 /\ serialQueue[k] = <<>>
    BY DEF IInv, OneProcessor, Processors
<1>6. ASSUME NEW k \in Key
      PROVE  /\ Processors(k) = Count(queue, Processing(k)) + Cardinality(WorkersOn(k))
             /\ Processors(k) \in Nat
    BY <1>3, <1>4, WorkersFinite DEF Processors, Count
<1> QED BY <1>2, <1>4, <1>5, <1>6

\* The counter is exact after a step that keeps its relation to the counts.
LEMMA CountsNext ==
    ASSUME queue' \in Seq(Requests),
           activeRequests' = Count(queue', CountedRequests) + Cardinality(Busy')
    PROVE  ActiveRequestsExact'
BY QueueCounted DEF ActiveRequestsExact, Count, Busy

\* The processors of a key after a step, in terms of the counts.
LEMMA ProcessorsNext ==
    ASSUME queue' \in Seq(Requests), NEW k
    PROVE  Processors(k)' = Count(queue', Processing(k)) + Cardinality(WorkersOn(k)')
BY QueueCounted DEF Processors, QueuedFor, Count

\* Nothing that concerns a key changes.
LEMMA ProcessorsKept ==
    ASSUME IInv, queue' \in Seq(Requests), UNCHANGED serialVars, shutdownMode => shutdownMode',
           \A k \in Key : Count(queue', Processing(k)) + Cardinality(WorkersOn(k)')
                              = Count(queue, Processing(k)) + Cardinality(WorkersOn(k))
    PROVE  OneProcessor'
<1>1. \A k \in Key : Processors(k)' = Processors(k)
    BY CountsNow, ProcessorsNext
<1> QED BY <1>1, CountsNow DEF OneProcessor, Processors, serialVars

\* The elements of a sequence after an element was added at its end.
LEMMA AppendElements ==
    ASSUME NEW S, NEW s \in Seq(S), NEW x \in S
    PROVE  /\ Append(s, x) \in Seq(S)
           /\ \A i \in 1..Len(Append(s, x)) : Append(s, x)[i] = x \/ \E j \in 1..Len(s) : Append(s, x)[i] = s[j]
BY AppendProperties, LenProperties

\* The elements of a sequence after one was taken from its front.
LEMMA TailElements ==
    ASSUME NEW S, NEW s \in Seq(S), s # <<>>
    PROVE  /\ Tail(s) \in Seq(S) /\ Head(s) \in S
           /\ \A i \in 1..Len(Tail(s)) : \E j \in 1..Len(s) : Tail(s)[i] = s[j]
           /\ \E j \in 1..Len(s) : Head(s) = s[j]
<1>1. /\ Tail(s) \in Seq(S) /\ Len(Tail(s)) = Len(s) - 1 /\ Len(s) \in Nat \ {0}
      /\ \A j \in 1..Len(Tail(s)) : Tail(s)[j] = s[j + 1]
      /\ Head(s) = s[1] /\ Head(s) \in S
    BY HeadTailProperties, LenProperties, EmptySeq, ElementOfSeq
<1>2. \A i \in 1..Len(Tail(s)) : i + 1 \in 1..Len(s)
    BY <1>1
<1>3. 1 \in 1..Len(s)
    BY <1>1
<1> QED BY <1>1, <1>2, <1>3

-----------------------------------------------------------------------------
(* The initial state *)

\* The invariant holds when the pool has been created.
LEMMA InitIInv == Init => IInv
<1> SUFFICES ASSUME Init PROVE IInv
    OBVIOUS
<1>1. TypeOK
    <2>1. /\ queue \in Seq(Requests) /\ schedulerQueue \in Seq(Task)
          /\ serialQueue \in [Key -> Seq(Task)] /\ serialKeys \in SUBSET Key
        BY DEF Init
    <2>2. /\ activeRequests \in Int /\ stops \in Int /\ threads \in SUBSET Thread
          /\ maint \in [pc : {"wait", "shrink", "schedule", "ended"}, left : Int]
          /\ destroyer \in [pc : {"idle", "joinmaint", "stop", "join", "walk", "deleted"}, left : Int]
        BY SizeAssumption DEF Init
    <2>3. /\ pc \in [Thread -> Idle \cup InSerial \cup {"join", "run"}]
          /\ \A w \in Thread : pc[w] \in {"get", "free"}
        BY DEF Init, Idle
    <2>4. /\ job \in [Thread -> Task \cup Thread \cup {None}] /\ key \in [Thread -> Key \cup {None}]
          /\ call \in [Task -> {"new", "checked", "scheduled", "queued", "executed",
                                "serialized", "processed"}]
          /\ promised \in SUBSET Task /\ shutdownMode \in BOOLEAN
        BY DEF Init
    <2>5. /\ walk \in [at : Thread \cup {None}, next : Thread \cup {None}, read : SUBSET (Thread \cup {None})]
          /\ overlap \in BOOLEAN /\ stale \in BOOLEAN
        BY DEF Init, NoWalk
    <2> QED BY <2>1, <2>2, <2>3, <2>4, <2>5 DEF TypeOK, InSerial
<1>2. Busy = {} /\ \A k : WorkersOn(k) = {} /\ QueuedFor(k) = {}
    BY DEF Init, Busy, InSerial, WorkersOn, QueuedFor
<1>3. ActiveRequestsExact
    <2>1. {i \in 1..Len(queue) : queue[i].func \in {"join", "task", "serialized"}} = {}
        BY DEF Init
    <2>2. {w \in Thread : pc[w] \in InSerial \cup {"join", "run"}} = {}
        BY <1>2 DEF Busy
    <2>3. activeRequests = 0 /\ Cardinality({}) = 0
        BY FS_EmptySet DEF Init
    <2>4. ActiveRequestsExact <=> activeRequests = Cardinality({}) + Cardinality({})
        BY <2>1, <2>2, Zenon DEF ActiveRequestsExact
    <2> QED BY <2>3, <2>4
<1>4. OneProcessor
    <2>1. Cardinality({}) = 0
        BY FS_EmptySet
    <2>2. \A k \in Key : Cardinality(QueuedFor(k)) = 0 /\ Cardinality(WorkersOn(k)) = 0
        BY <1>2, <2>1
    <2>3. serialKeys = {} /\ \A k \in Key : serialQueue[k] = <<>>
        BY DEF Init
    <2> QED BY <2>2, <2>3 DEF OneProcessor
<1>5. PlainTasks /\ SerialTasks
    BY DEF Init, PlainTasks, SerialTasks
<1> QED BY <1>1, <1>3, <1>4, <1>5 DEF IInv

-----------------------------------------------------------------------------
(* Steps that move no request *)

\* The tasks in all the queues and at the workers are tasks.
LEMMA TasksTyped ==
    ASSUME TypeOK
    PROVE  /\ \A i \in 1..Len(queue) : queue[i] \in Requests
           /\ \A i \in 1..Len(queue) : queue[i].func = "task" => queue[i].arg \in Task
           /\ \A i \in 1..Len(schedulerQueue) : schedulerQueue[i] \in Task
           /\ \A k \in Key : serialQueue[k] \in Seq(Task)
           /\ \A k \in Key : \A i \in 1..Len(serialQueue[k]) : serialQueue[k][i] \in Task
           /\ \A w \in Thread : pc[w] \in {"run", "runserial"} => job[w] \in Task
<1>1. \A r \in Requests : r.func = "task" => r.arg \in Task
    BY DEF Requests
<1>2. \A i \in 1..Len(queue) : queue[i] \in Requests
    BY ElementOfSeq DEF TypeOK
<1>3. \A i \in 1..Len(schedulerQueue) : schedulerQueue[i] \in Task
    BY ElementOfSeq DEF TypeOK
<1>4. \A k \in Key : serialQueue[k] \in Seq(Task)
    BY DEF TypeOK
<1>5. \A k \in Key : \A i \in 1..Len(serialQueue[k]) : serialQueue[k][i] \in Task
    BY <1>4, ElementOfSeq
<1> QED BY <1>1, <1>2, <1>3, <1>4, <1>5 DEF TypeOK

\* The invariant does not depend on the maintenance thread, on ThreadPoolDestroy and on
\* the set of registered threads.
LEMMA NoRequestMoves ==
    ASSUME IInv, TypeOK', UNCHANGED <<queue, serialVars, schedulerQueue, activeRequests, workerVars>>,
           shutdownMode => shutdownMode',
           \A t \in Task : /\ call[t] \in Plain => call'[t] \in Plain
                           /\ call[t] \in Serialized => call'[t] \in Serialized
    PROVE  IInv'
<1>1. TypeOK
    BY DEF IInv
<1>2. Busy' = Busy /\ \A k : WorkersOn(k)' = WorkersOn(k)
    BY DEF workerVars, Busy, WorkersOn
<1>3. queue' \in Seq(Requests) /\ queue' = queue
    BY DEF TypeOK
<1>4. ActiveRequestsExact'
    BY <1>2, <1>3, CountsNow, CountsNext
<1>5. OneProcessor'
    BY <1>2, <1>3, ProcessorsKept
<1>6. PlainTasks'
    BY <1>1, TasksTyped DEF IInv, PlainTasks, workerVars
<1>7. SerialTasks'
    BY <1>1, TasksTyped DEF IInv, SerialTasks, workerVars, serialVars
<1> QED BY <1>4, <1>5, <1>6, <1>7 DEF IInv

\* The walk over the threads changes nothing else.
LEMMA WalkKeeps ==
    ASSUME WalkThreads
    PROVE  UNCHANGED <<queue, serialVars, schedulerQueue, activeRequests, threads, workerVars,
                       shutdownMode, maint, stops, call, promised, overlap>>
BY DEF WalkThreads, DestroyWalk, DestroyJoin, DestroyJoinStale, DestroyDelete

\* The walk goes from thread to thread.
LEMMA WalkTyped ==
    ASSUME TypeOK, WalkThreads
    PROVE  TypeOK'
<1>1. /\ walk \in [at : Thread \cup {None}, next : Thread \cup {None}, read : SUBSET (Thread \cup {None})]
      /\ destroyer \in [pc : {"idle", "joinmaint", "stop", "join", "walk", "deleted"}, left : Int]
      /\ threads \in SUBSET Thread /\ stale \in BOOLEAN
    BY DEF TypeOK
<1>2. \A read : Following(read) \subseteq Thread \cup {None}
    BY <1>1 DEF Following
<1>3. CASE DestroyWalk
    <2>1. PICK a \in Following({}) : \E n \in Following({a}) : walk' = [at |-> a, next |-> n, read |-> {a, n}]
        BY <1>3 DEF DestroyWalk
    <2>2. walk' \in [at : Thread \cup {None}, next : Thread \cup {None}, read : SUBSET (Thread \cup {None})]
        BY <1>2, <2>1
    <2>3. /\ destroyer' \in [pc : {"idle", "joinmaint", "stop", "join", "walk", "deleted"}, left : Int]
          /\ UNCHANGED stale
        BY <1>1, <1>3 DEF DestroyWalk
    <2> QED BY <2>2, <2>3, WalkKeeps DEF TypeOK, serialVars, workerVars
<1>4. CASE DestroyJoin
    BY <1>1, <1>2, <1>4, WalkKeeps DEF DestroyJoin, TypeOK, serialVars, workerVars
<1>5. CASE DestroyJoinStale
    <2>1. walk' \in [at : Thread \cup {None}, next : Thread \cup {None}, read : SUBSET (Thread \cup {None})]
        <3>1. CASE walk' = [walk EXCEPT !.at = None, !.next = None]
            BY <1>1, <3>1
        <3>2. ASSUME NEW n \in Thread \cup {None}, walk' = [at |-> walk.next, next |-> n, read |-> walk.read \cup {n}]
              PROVE  walk' \in [at : Thread \cup {None}, next : Thread \cup {None}, read : SUBSET (Thread \cup {None})]
            <4>1. walk.next \in Thread \cup {None} /\ walk.read \cup {n} \in SUBSET (Thread \cup {None})
                BY <1>1
            <4> QED BY <3>2, <4>1
        <3>3. \/ walk' = [walk EXCEPT !.at = None, !.next = None]
              \/ \E n \in Thread \cup {None} : walk' = [at |-> walk.next, next |-> n, read |-> walk.read \cup {n}]
            BY <1>5 DEF DestroyJoinStale
        <3> QED BY <3>1, <3>2, <3>3
    <2>2. stale' \in BOOLEAN /\ UNCHANGED destroyer
        BY <1>5 DEF DestroyJoinStale
    <2> QED BY <2>1, <2>2, WalkKeeps DEF TypeOK, serialVars, workerVars
<1>6. CASE DestroyDelete
    BY <1>1, <1>6, WalkKeeps DEF DestroyDelete, NoWalk, TypeOK, serialVars, workerVars
<1> QED BY <1>3, <1>4, <1>5, <1>6 DEF WalkThreads

\* The check of shutdownMode, the rounds of the maintenance thread that shrink the pool,
\* and the steps of ThreadPoolDestroy that queue nothing.
LEMMA ControlIInv ==
    ASSUME IInv, \/ \E t \in Task : CheckShutdown(t)
                 \/ \E n \in 1..MaxThreads : MaintShrink(n)
                 \/ DestroyBegin \/ DestroyCount \/ WalkThreads
                 \/ UNCHANGED vars
    PROVE  IInv'
<1>1. TypeOK
    BY DEF IInv
<1>2. ASSUME NEW t \in Task, CheckShutdown(t) PROVE IInv'
    <2>1. /\ call[t] = "new" /\ call' = [call EXCEPT ![t] = "checked"]
          /\ UNCHANGED <<queue, serialVars, schedulerQueue, activeRequests, threads, workerVars, controlVars>>
        BY <1>2 DEF CheckShutdown
    <2>2. TypeOK'
        BY <1>1, <2>1 DEF TypeOK, serialVars, workerVars, controlVars
    <2>3. \A u \in Task : /\ call[u] \in Plain => call'[u] \in Plain
                          /\ call[u] \in Serialized => call'[u] \in Serialized
        BY <1>1, <2>1 DEF TypeOK, Plain, Serialized
    <2> QED BY <2>1, <2>2, <2>3, NoRequestMoves DEF controlVars
<1>3. ASSUME NEW n \in 1..MaxThreads, MaintShrink(n) PROVE IInv'
    <2>1. TypeOK'
        BY <1>1, <1>3, SizeAssumption DEF MaintShrink, TypeOK, serialVars, workerVars
    <2> QED BY <1>3, <2>1, NoRequestMoves DEF MaintShrink
<1>4. CASE DestroyBegin
    <2>1. TypeOK'
        BY <1>1, <1>4 DEF DestroyBegin, TypeOK, serialVars, workerVars
    <2> QED BY <1>4, <2>1, NoRequestMoves DEF DestroyBegin
<1>5. CASE DestroyCount
    <2>1. Cardinality(threads) \in Int
        <3>1. threads \in SUBSET Thread
            BY <1>1 DEF TypeOK
        <3>2. IsFiniteSet(threads)
            BY <3>1, SizeAssumption, FS_Subset
        <3> QED BY <3>2, FS_CardinalityType
    <2>2. destroyer' \in [pc : {"idle", "joinmaint", "stop", "join", "walk", "deleted"}, left : Int]
        BY <1>5, <2>1 DEF DestroyCount
    <2>3. promised' \in SUBSET Task
        BY <1>1, <1>5 DEF DestroyCount, TypeOK
    <2>4. TypeOK'
        BY <1>1, <1>5, <2>2, <2>3 DEF StopUnderWay, DestroyCount, TypeOK, serialVars, workerVars
    <2> QED BY <1>5, <2>4, NoRequestMoves DEF DestroyCount
<1>6. CASE WalkThreads
    BY <1>1, <1>6, WalkTyped, WalkKeeps, NoRequestMoves
<1>7. CASE UNCHANGED vars
    <2>1. TypeOK'
        BY <1>1, <1>7 DEF vars, TypeOK
    <2> QED BY <1>7, <2>1, NoRequestMoves DEF vars, serialVars, workerVars
<1> QED BY <1>2, <1>3, <1>4, <1>5, <1>6, <1>7

-----------------------------------------------------------------------------
(* Steps that put a request into the queue *)

\* A request at the end of the queue that processes no key.
LEMMA RequestQueued ==
    ASSUME IInv, TypeOK', NEW r \in Requests, queue' = Append(queue, r),
           \A k \in Key : r \notin Processing(k),
           activeRequests' = activeRequests + IF r \in CountedRequests THEN 1 ELSE 0,
           UNCHANGED <<serialVars, shutdownMode>>, Busy' = Busy, \A k \in Key : WorkersOn(k)' = WorkersOn(k)
    PROVE  ActiveRequestsExact' /\ OneProcessor'
<1>1. queue \in Seq(Requests) /\ queue' \in Seq(Requests)
    BY DEF IInv, TypeOK
<1>2. Count(queue', CountedRequests) = Count(queue, CountedRequests) + IF r \in CountedRequests THEN 1 ELSE 0
    BY <1>1, CountAppend
<1>3. ActiveRequestsExact'
    BY <1>1, <1>2, CountsNow, CountsNext, WorkersFinite
<1>4. \A k \in Key : Count(queue', Processing(k)) = Count(queue, Processing(k))
    BY <1>1, CountAppend, CountsNow
<1>5. OneProcessor'
    BY <1>1, <1>4, ProcessorsKept
<1> QED BY <1>3, <1>5

\* Stop requests of the maintenance thread and of ThreadPoolDestroy.
LEMMA StopIInv ==
    ASSUME IInv, MaintQueueStop \/ DestroyQueueStop
    PROVE  IInv'
<1>1. TypeOK
    BY DEF IInv
<1>2. /\ queue' = Append(queue, Stop) \/ queue' = Append(queue, Unregister)
      /\ UNCHANGED <<serialVars, schedulerQueue, activeRequests, threads, workerVars, shutdownMode, stops,
                     call, promised, walkVars>>
    BY DEF MaintQueueStop, DestroyQueueStop
<1>3. PICK r \in {Stop, Unregister} : queue' = Append(queue, r)
    BY <1>2
<1>4. /\ r \in Requests /\ r \notin CountedRequests /\ \A k \in Key : r \notin Processing(k)
      /\ r.func # "task"
    BY RequestsTyped, OthersDoNotProcess DEF Stop, Unregister, Request
<1>5. /\ queue' \in Seq(Requests)
      /\ \A i \in 1..Len(queue') : queue'[i] = r \/ \E j \in 1..Len(queue) : queue'[i] = queue[j]
    BY <1>1, <1>3, <1>4, AppendElements DEF TypeOK
<1>6. TypeOK'
    <2>1. /\ maint' \in [pc : {"wait", "shrink", "schedule", "ended"}, left : Int]
          /\ destroyer' \in [pc : {"idle", "joinmaint", "stop", "join", "walk", "deleted"}, left : Int]
        BY <1>1 DEF MaintQueueStop, DestroyQueueStop, TypeOK
    <2> QED BY <1>1, <1>2, <1>5, <2>1 DEF TypeOK, serialVars, workerVars
<1>7. Busy' = Busy /\ \A k : WorkersOn(k)' = WorkersOn(k)
    BY <1>2 DEF workerVars, Busy, WorkersOn
<1>8. activeRequests' = activeRequests + IF r \in CountedRequests THEN 1 ELSE 0
    BY <1>1, <1>2, <1>4 DEF TypeOK
<1>9. ActiveRequestsExact' /\ OneProcessor'
    BY <1>2, <1>3, <1>4, <1>6, <1>7, <1>8, RequestQueued
<1>10. PlainTasks' /\ SerialTasks'
    BY <1>2, <1>4, <1>5 DEF IInv, PlainTasks, SerialTasks, workerVars, serialVars
<1> QED BY <1>6, <1>9, <1>10 DEF IInv

\* ThreadPoolExecute puts the task into the queue.
LEMMA ExecuteIInv ==
    ASSUME IInv, NEW t \in Task, ThreadPoolExecute(t)
    PROVE  IInv'
<1>1. TypeOK
    BY DEF IInv
<1>2. /\ call[t] = "checked" /\ call' = [call EXCEPT ![t] = "queued"]
      /\ queue' = Append(queue, Request("task", t)) /\ activeRequests' = activeRequests + 1
      /\ UNCHANGED <<serialVars, schedulerQueue, threads, workerVars, controlVars>>
    BY DEF ThreadPoolExecute
<1>3. PICK r : r = Request("task", t)
    OBVIOUS
<1>4. /\ r \in Requests /\ r \in CountedRequests /\ \A k \in Key : r \notin Processing(k)
      /\ r.arg = t
    BY <1>3, RequestsTyped, OthersDoNotProcess DEF Request
<1>5. /\ queue' \in Seq(Requests)
      /\ \A i \in 1..Len(queue') : queue'[i] = r \/ \E j \in 1..Len(queue) : queue'[i] = queue[j]
    BY <1>1, <1>2, <1>3, <1>4, AppendElements, SMTT(30) DEF TypeOK
<1>6. /\ call' \in [Task -> {"new", "checked", "scheduled", "queued", "executed",
                             "serialized", "processed"}]
      /\ call'[t] \in Plain /\ \A u \in Task : u # t => call'[u] = call[u]
    BY <1>1, <1>2 DEF TypeOK, Plain
<1>7. TypeOK'
    BY <1>1, <1>2, <1>5, <1>6 DEF TypeOK, serialVars, workerVars, controlVars
<1>8. Busy' = Busy /\ \A k : WorkersOn(k)' = WorkersOn(k)
    BY <1>2 DEF workerVars, Busy, WorkersOn
<1>9. ActiveRequestsExact' /\ OneProcessor'
    BY <1>2, <1>3, <1>4, <1>7, <1>8, RequestQueued DEF controlVars
<1>10. \A u \in Task : /\ call[u] \in Plain => call'[u] \in Plain
                       /\ call[u] \in Serialized => call'[u] \in Serialized
    BY <1>2, <1>6 DEF Serialized
<1>11. PlainTasks'
    <2>1. \A i \in 1..Len(queue') : queue'[i].func = "task" => call'[queue'[i].arg] \in Plain
        BY <1>1, <1>4, <1>5, <1>6, <1>10, TasksTyped DEF IInv, PlainTasks
    <2> QED BY <1>1, <1>2, <1>10, <2>1, TasksTyped DEF IInv, PlainTasks, workerVars
<1>12. SerialTasks'
    BY <1>1, <1>2, <1>10, TasksTyped DEF IInv, SerialTasks, workerVars, serialVars
<1> QED BY <1>7, <1>9, <1>11, <1>12 DEF IInv

\* ThreadPoolExecuteSerialized puts the task into the queue of its key, and a request that
\* processes the key into the queue of the pool if the key is new.
LEMMA ExecuteSerializedIInv ==
    ASSUME IInv, NEW t \in Task, NEW k \in Key, ThreadPoolExecuteSerialized(t, k)
    PROVE  IInv'
<1>1. TypeOK
    BY DEF IInv
<1>2. /\ call[t] = "checked" /\ call' = [call EXCEPT ![t] = "serialized"]
      /\ serialQueue' = [serialQueue EXCEPT ![k] = Append(@, t)]
      /\ serialKeys' = serialKeys \cup {k}
      /\ UNCHANGED <<schedulerQueue, threads, workerVars, controlVars>>
    BY DEF ThreadPoolExecuteSerialized
<1>3. PICK r : r = Request("serialized", k)
    OBVIOUS
<1>4. /\ r \in Requests /\ r \in CountedRequests /\ r.func # "task"
      /\ \A l \in Key : r \in Processing(l) <=> l = k
    BY <1>3, RequestsTyped, OthersDoNotProcess DEF Request
<1>5. IF k \in serialKeys \/ shutdownMode
      THEN UNCHANGED <<queue, activeRequests>>
      ELSE queue' = Append(queue, r) /\ activeRequests' = activeRequests + 1
    BY <1>3 DEF ThreadPoolExecuteSerialized
<1>6. /\ queue' \in Seq(Requests)
      /\ \A i \in 1..Len(queue') : queue'[i] = r \/ \E j \in 1..Len(queue) : queue'[i] = queue[j]
    <2>1. queue \in Seq(Requests)
        BY <1>1 DEF TypeOK
    <2>2. /\ Append(queue, r) \in Seq(Requests)
          /\ \A i \in 1..Len(Append(queue, r)) :
                Append(queue, r)[i] = r \/ \E j \in 1..Len(queue) : Append(queue, r)[i] = queue[j]
        BY <1>4, <2>1, AppendElements
    <2> QED BY <1>5, <2>1, <2>2
<1>7. /\ serialQueue' \in [Key -> Seq(Task)]
      /\ \A l \in Key : l # k => serialQueue'[l] = serialQueue[l]
      /\ \A i \in 1..Len(serialQueue'[k]) :
            serialQueue'[k][i] = t \/ \E j \in 1..Len(serialQueue[k]) : serialQueue'[k][i] = serialQueue[k][j]
    <2>1. serialQueue[k] \in Seq(Task) /\ serialQueue'[k] = Append(serialQueue[k], t)
        BY <1>1, <1>2 DEF TypeOK
    <2>2. Append(serialQueue[k], t) \in Seq(Task)
        BY <2>1, AppendElements
    <2>3. \A i \in 1..Len(serialQueue'[k]) :
              serialQueue'[k][i] = t \/ \E j \in 1..Len(serialQueue[k]) : serialQueue'[k][i] = serialQueue[k][j]
        BY <2>1, AppendElements
    <2> QED BY <1>1, <1>2, <2>2, <2>3 DEF TypeOK
<1>8. /\ call' \in [Task -> {"new", "checked", "scheduled", "queued", "executed",
                             "serialized", "processed"}]
      /\ call'[t] \in Serialized /\ \A u \in Task : u # t => call'[u] = call[u]
    BY <1>1, <1>2 DEF TypeOK, Serialized
<1>9. TypeOK'
    <2>1. activeRequests' \in Int /\ serialKeys' \in SUBSET Key
        BY <1>1, <1>2, <1>5 DEF TypeOK
    <2> QED BY <1>1, <1>2, <1>6, <1>7, <1>8, <2>1 DEF TypeOK, workerVars, controlVars
<1>10. Busy' = Busy /\ \A l : WorkersOn(l)' = WorkersOn(l)
    BY <1>2 DEF workerVars, Busy, WorkersOn
<1>11. \A u \in Task : /\ call[u] \in Plain => call'[u] \in Plain
                       /\ call[u] \in Serialized => call'[u] \in Serialized
    BY <1>2, <1>8 DEF Plain
<1>12. PlainTasks'
    <2>1. \A i \in 1..Len(queue') : queue'[i].func = "task" => call'[queue'[i].arg] \in Plain
        BY <1>1, <1>4, <1>6, <1>11, TasksTyped DEF IInv, PlainTasks
    <2> QED BY <1>1, <1>2, <1>11, <2>1, TasksTyped DEF IInv, PlainTasks, workerVars
<1>13. SerialTasks'
    <2>1. ASSUME NEW l \in Key, NEW i \in 1..Len(serialQueue'[l])
          PROVE  call'[serialQueue'[l][i]] \in Serialized
        <3>1. CASE l = k
            BY <1>1, <1>7, <1>8, <1>11, <3>1, TasksTyped DEF IInv, SerialTasks
        <3>2. CASE l # k
            BY <1>1, <1>7, <1>11, <3>2, TasksTyped DEF IInv, SerialTasks
        <3> QED BY <3>1, <3>2
    <2> QED BY <1>1, <1>2, <1>11, <2>1, TasksTyped DEF IInv, SerialTasks, workerVars
<1>14. CASE k \in serialKeys \/ shutdownMode
    <2>1. ActiveRequestsExact'
        BY <1>5, <1>6, <1>10, <1>14, CountsNow, CountsNext
    <2>2. \A l \in Key : Processors(l)' = Processors(l)
        BY <1>5, <1>6, <1>10, <1>14, CountsNow, ProcessorsNext
    <2>3. OneProcessor'
        <3> SUFFICES ASSUME NEW l \in Key
                     PROVE  IF l \in serialKeys'
                            THEN Processors(l)' = 1 \/ (Processors(l)' = 0 /\ shutdownMode')
                            ELSE Processors(l)' = 0 /\ serialQueue'[l] = <<>>
            BY DEF OneProcessor, Processors
        <3> QED BY <1>2, <1>7, <1>14, <2>2, CountsNow DEF controlVars
    <2> QED BY <1>9, <2>1, <2>3, <1>12, <1>13 DEF IInv
<1>15. CASE ~(k \in serialKeys \/ shutdownMode)
    <2>1. queue' = Append(queue, r) /\ activeRequests' = activeRequests + 1 /\ queue \in Seq(Requests)
        BY <1>1, <1>5, <1>15 DEF TypeOK
    <2>2. Count(queue', CountedRequests) = Count(queue, CountedRequests) + 1
        BY <1>4, <2>1, CountAppend
    <2>3. ActiveRequestsExact'
        BY <1>6, <1>10, <2>1, <2>2, CountsNow, CountsNext, WorkersFinite
    <2>4. \A l \in Key : Count(queue', Processing(l)) = Count(queue, Processing(l)) + IF l = k THEN 1 ELSE 0
        BY <1>4, <2>1, CountAppend
    <2>5. \A l \in Key : Processors(l)' = Processors(l) + IF l = k THEN 1 ELSE 0
        BY <1>6, <1>10, <2>4, CountsNow, ProcessorsNext, WorkersFinite
    <2>6. OneProcessor'
        <3> SUFFICES ASSUME NEW l \in Key
                     PROVE  IF l \in serialKeys'
                            THEN Processors(l)' = 1 \/ (Processors(l)' = 0 /\ shutdownMode')
                            ELSE Processors(l)' = 0 /\ serialQueue'[l] = <<>>
            BY DEF OneProcessor, Processors
        <3> QED BY <1>2, <1>7, <1>15, <2>5, CountsNow DEF controlVars
    <2> QED BY <1>9, <2>3, <2>6, <1>12, <1>13 DEF IInv
<1> QED BY <1>14, <1>15

\* ThreadPoolScheduleAbsoluteMs puts the task among those that are scheduled.
LEMMA ScheduleIInv ==
    ASSUME IInv, NEW t \in Task, NEW i \in 0..Len(schedulerQueue), ThreadPoolScheduleAbsoluteMs(t, i)
    PROVE  IInv'
<1>1. TypeOK
    BY DEF IInv
<1>2. /\ call[t] = "checked" /\ call' = [call EXCEPT ![t] = "scheduled"]
      /\ schedulerQueue' = SubSeq(schedulerQueue, 1, i) \o <<t>>
                           \o SubSeq(schedulerQueue, i + 1, Len(schedulerQueue))
      /\ UNCHANGED <<queue, serialVars, activeRequests, threads, workerVars, controlVars>>
    BY DEF ThreadPoolScheduleAbsoluteMs
<1>3. /\ schedulerQueue' \in Seq(Task)
      /\ \A j \in 1..Len(schedulerQueue') :
            schedulerQueue'[j] = t \/ \E m \in 1..Len(schedulerQueue) : schedulerQueue'[j] = schedulerQueue[m]
    <2>1. schedulerQueue \in Seq(Task)
        BY <1>1 DEF TypeOK
    <2>2. schedulerQueue' = Inserted(schedulerQueue, i, t)
        BY <1>2 DEF Inserted
    <2> QED BY <2>1, <2>2, InsertElements
<1>4. /\ call' \in [Task -> {"new", "checked", "scheduled", "queued", "executed",
                             "serialized", "processed"}]
      /\ call'[t] \in Plain /\ \A u \in Task : u # t => call'[u] = call[u]
    BY <1>1, <1>2 DEF TypeOK, Plain
<1>5. TypeOK'
    BY <1>1, <1>2, <1>3, <1>4 DEF TypeOK, serialVars, workerVars, controlVars
<1>6. Busy' = Busy /\ queue' \in Seq(Requests) /\ \A k : WorkersOn(k)' = WorkersOn(k)
    BY <1>2, <1>5 DEF workerVars, Busy, WorkersOn, TypeOK
<1>7. ActiveRequestsExact'
    BY <1>2, <1>6, CountsNow, CountsNext
<1>8. OneProcessor'
    BY <1>2, <1>6, ProcessorsKept DEF controlVars
<1>9. \A u \in Task : /\ call[u] \in Plain => call'[u] \in Plain
                      /\ call[u] \in Serialized => call'[u] \in Serialized
    BY <1>2, <1>4 DEF Serialized
<1>10. PlainTasks'
    <2>1. \A j \in 1..Len(schedulerQueue') : call'[schedulerQueue'[j]] \in Plain
        BY <1>1, <1>3, <1>4, <1>9, TasksTyped DEF IInv, PlainTasks
    <2> QED BY <1>1, <1>2, <1>9, <2>1, TasksTyped DEF IInv, PlainTasks, workerVars
<1>11. SerialTasks'
    BY <1>1, <1>2, <1>9, TasksTyped DEF IInv, SerialTasks, workerVars, serialVars
<1> QED BY <1>5, <1>7, <1>8, <1>10, <1>11 DEF IInv

\* The maintenance thread queues the scheduled tasks that are due.
LEMMA MaintScheduleIInv ==
    ASSUME IInv, NEW n \in 0..Len(schedulerQueue), MaintSchedule(n)
    PROVE  IInv'
<1>1. TypeOK
    BY DEF IInv
<1> DEFINE u == [i \in 1..n |-> Request("task", schedulerQueue[i])]
<1>2. /\ queue' = queue \o u
      /\ call' = [t \in Task |-> IF \E i \in 1..n : schedulerQueue[i] = t THEN "queued" ELSE call[t]]
      /\ schedulerQueue' = SubSeq(schedulerQueue, n + 1, Len(schedulerQueue))
      /\ activeRequests' = activeRequests + n
      /\ maint' = [maint EXCEPT !.pc = IF shutdownMode THEN "ended" ELSE "wait"]
      /\ UNCHANGED <<serialVars, threads, workerVars, shutdownMode, stops, destroyer, promised, walkVars>>
    BY DEF MaintSchedule
<1>3. /\ schedulerQueue \in Seq(Task) /\ queue \in Seq(Requests)
      /\ n \in Nat /\ n <= Len(schedulerQueue) /\ Len(schedulerQueue) \in Nat
      /\ \A i \in 1..n : schedulerQueue[i] \in Task
    BY <1>1, LenProperties, ElementOfSeq DEF TypeOK
<1>4. /\ u \in Seq(Requests) /\ Len(u) = n
      /\ \A i \in 1..n : /\ u[i] \in CountedRequests /\ \A k \in Key : u[i] \notin Processing(k)
                         /\ u[i].arg = schedulerQueue[i]
    <2>1. \A i \in 1..n : u[i] \in Requests
        BY <1>3, RequestsTyped
    <2>2. u \in Seq(Requests) /\ Len(u) = n
        BY <1>3, <2>1
    <2>3. \A i \in 1..n : u[i] \in CountedRequests /\ \A k \in Key : u[i] \notin Processing(k)
        BY <1>3, RequestsTyped, OthersDoNotProcess
    <2>4. \A i \in 1..n : u[i].arg = schedulerQueue[i]
        BY DEF Request
    <2> QED BY <2>2, <2>3, <2>4
<1> HIDE DEF u
<1>5. /\ queue' \in Seq(Requests) /\ Len(queue') = Len(queue) + n /\ Len(queue) \in Nat
      /\ \A i \in 1..Len(queue') : queue'[i] = IF i <= Len(queue) THEN queue[i] ELSE u[i - Len(queue)]
    <2> DEFINE q == queue \o u
    <2>1. /\ q \in Seq(Requests) /\ Len(q) = Len(queue) + Len(u) /\ Len(queue) \in Nat
          /\ \A i \in 1..Len(q) : q[i] = IF i <= Len(queue) THEN queue[i] ELSE u[i - Len(queue)]
        BY <1>3, <1>4, ConcatElements, ZenonT(40)
    <2>2. queue' = q
        BY <1>2
    <2> HIDE DEF q
    <2> QED BY <1>4, <2>1, <2>2
<1>6. /\ schedulerQueue' \in Seq(Task)
      /\ \A i \in 1..Len(schedulerQueue') : \E j \in 1..Len(schedulerQueue) : schedulerQueue'[i] = schedulerQueue[j]
    <2>1. \A j \in (n + 1)..Len(schedulerQueue) : schedulerQueue[j] \in Task
        BY <1>3, ElementOfSeq
    <2>2. /\ schedulerQueue' \in Seq(Task) /\ Len(schedulerQueue') = Len(schedulerQueue) - n
          /\ \A i \in 1..(Len(schedulerQueue) - n) : schedulerQueue'[i] = schedulerQueue[(n + 1) + i - 1]
        BY <1>2, <1>3, <2>1, SubSeqProperties
    <2>3. \A i \in 1..(Len(schedulerQueue) - n) : (n + 1) + i - 1 \in 1..Len(schedulerQueue)
        BY <1>3
    <2> QED BY <2>2, <2>3
<1>7. /\ call' \in [Task -> {"new", "checked", "scheduled", "queued", "executed",
                             "serialized", "processed"}]
      /\ \A t \in Task : call'[t] = IF \E i \in 1..n : schedulerQueue[i] = t THEN "queued" ELSE call[t]
    BY <1>1, <1>2 DEF TypeOK
<1>8. \A i \in 1..n : call[schedulerQueue[i]] \in Plain /\ call'[schedulerQueue[i]] \in Plain
    BY <1>3, <1>7 DEF IInv, PlainTasks, Plain
<1>9. \A t \in Task : /\ call[t] \in Plain => call'[t] \in Plain
                      /\ call[t] \in Serialized => call'[t] \in Serialized
    BY <1>7, <1>8 DEF Plain, Serialized
<1>10. TypeOK'
    <2>1. activeRequests' \in Int
        BY <1>1, <1>2, <1>3 DEF TypeOK
    <2>2. maint \in [pc : {"wait", "shrink", "schedule", "ended"}, left : Int]
        BY <1>1 DEF TypeOK
    <2>3. maint' \in [pc : {"wait", "shrink", "schedule", "ended"}, left : Int]
        BY <1>2, <2>2
    <2> QED BY <1>1, <1>2, <1>5, <1>6, <1>7, <2>1, <2>3 DEF TypeOK, serialVars, workerVars
<1>11. Busy' = Busy /\ \A k : WorkersOn(k)' = WorkersOn(k)
    BY <1>2 DEF workerVars, Busy, WorkersOn
<1>12. ActiveRequestsExact'
    <2>1. Count(queue', CountedRequests) = Count(queue, CountedRequests) + n
        <3>1. Count(queue', CountedRequests)
                  = Count(queue, CountedRequests) + IF u # <<>> /\ u[1] \in CountedRequests THEN n ELSE 0
            BY <1>2, <1>3, <1>4, CountConcat, ZenonT(40)
        <3>2. n = 0 \/ (u # <<>> /\ u[1] \in CountedRequests)
            BY <1>3, <1>4, EmptySeq
        <3> QED BY <3>1, <3>2, CountsNow
    <2> QED BY <1>2, <1>3, <1>5, <1>11, <2>1, CountsNow, CountsNext, WorkersFinite
<1>13. OneProcessor'
    <2>1. ASSUME NEW k \in Key PROVE Count(queue', Processing(k)) = Count(queue, Processing(k))
        <3>1. Count(queue', Processing(k))
                  = Count(queue, Processing(k)) + IF u # <<>> /\ u[1] \in Processing(k) THEN n ELSE 0
            BY <1>2, <1>3, <1>4, CountConcat
        <3>2. n = 0 \/ ~(u # <<>> /\ u[1] \in Processing(k))
            BY <1>3, <1>4
        <3> QED BY <3>1, <3>2, CountsNow
    <2> QED BY <1>2, <1>5, <1>11, <2>1, ProcessorsKept
<1>14. PlainTasks'
    <2>1. \A i \in 1..Len(queue') : queue'[i].func = "task" => call'[queue'[i].arg] \in Plain
        <3> SUFFICES ASSUME NEW i \in 1..Len(queue'), queue'[i].func = "task"
                     PROVE  call'[queue'[i].arg] \in Plain
            OBVIOUS
        <3>1. CASE i <= Len(queue)
            BY <1>1, <1>5, <1>9, <3>1, TasksTyped, SMTT(30) DEF IInv, PlainTasks
        <3>2. CASE i > Len(queue)
            <4>1. i - Len(queue) \in 1..n /\ queue'[i] = u[i - Len(queue)]
                BY <1>3, <1>5, <3>2
            <4> QED BY <1>4, <1>8, <4>1
        <3> QED BY <1>5, <3>1, <3>2
    <2>2. \A i \in 1..Len(schedulerQueue') : call'[schedulerQueue'[i]] \in Plain
        BY <1>1, <1>6, <1>9, TasksTyped DEF IInv, PlainTasks
    <2> QED BY <1>1, <1>2, <1>9, <2>1, <2>2, TasksTyped DEF IInv, PlainTasks, workerVars
<1>15. SerialTasks'
    BY <1>1, <1>2, <1>9, TasksTyped DEF IInv, SerialTasks, workerVars, serialVars
<1> QED BY <1>10, <1>12, <1>13, <1>14, <1>15 DEF IInv

\* New worker threads have no request yet.
LEMMA MaintGrowIInv ==
    ASSUME IInv, NEW new \in NewThreads, MaintGrow(new)
    PROVE  IInv'
<1>1. TypeOK
    BY DEF IInv
<1>2. /\ threads' = threads \cup new
      /\ pc' = [w \in Thread |-> IF w \in new THEN "get" ELSE pc[w]]
      /\ maint' = [maint EXCEPT !.pc = "schedule"]
      /\ UNCHANGED <<queue, serialVars, schedulerQueue, activeRequests, job, key, shutdownMode, stops,
                     destroyer, call, promised, walkVars>>
    BY DEF MaintGrow
<1>3. \A w \in new : w \in Thread /\ pc[w] = "free" /\ pc'[w] = "get"
    BY <1>2 DEF NewThreads, Free
<1>4. \A w \in Thread : w \notin new => pc'[w] = pc[w]
    BY <1>2
<1>5. TypeOK'
    <2>1. pc' \in [Thread -> Idle \cup InSerial \cup {"join", "run"}] /\ threads' \in SUBSET Thread
        BY <1>1, <1>2, <1>3 DEF TypeOK, Idle
    <2>2. maint' \in [pc : {"wait", "shrink", "schedule", "ended"}, left : Int]
        BY <1>1, <1>2 DEF TypeOK
    <2>3. \A w \in Thread :
              /\ pc'[w] = "run" => job'[w] \in Task
              /\ pc'[w] = "runserial" => job'[w] \in Task
              /\ pc'[w] = "join" => job'[w] \in Thread
              /\ pc'[w] \in InSerial => key'[w] \in Key
        BY <1>1, <1>2, <1>3, <1>4 DEF TypeOK, InSerial
    <2> QED BY <1>1, <1>2, <2>1, <2>2, <2>3 DEF TypeOK, serialVars
<1>6. Busy' = Busy /\ queue' \in Seq(Requests) /\ \A k : WorkersOn(k)' = WorkersOn(k)
    BY <1>2, <1>3, <1>4, <1>5 DEF InSerial, Busy, WorkersOn, TypeOK
<1>7. ActiveRequestsExact'
    BY <1>2, <1>6, CountsNow, CountsNext
<1>8. OneProcessor'
    BY <1>2, <1>6, ProcessorsKept
<1>9. PlainTasks' /\ SerialTasks'
    BY <1>2, <1>3, <1>4 DEF IInv, PlainTasks, SerialTasks, serialVars
<1> QED BY <1>5, <1>7, <1>8, <1>9 DEF IInv

-----------------------------------------------------------------------------
(* Steps of the workers *)

\* One worker gets or loses a counted request.
LEMMA BusyMoves ==
    ASSUME NEW w \in Thread, \A v \in Thread \ {w} : v \in Busy' <=> v \in Busy
    PROVE  /\ w \in Busy /\ w \in Busy' => Cardinality(Busy') = Cardinality(Busy)
           /\ w \notin Busy /\ w \notin Busy' => Cardinality(Busy') = Cardinality(Busy)
           /\ w \in Busy /\ w \notin Busy' => Cardinality(Busy') = Cardinality(Busy) - 1
           /\ w \notin Busy /\ w \in Busy' => Cardinality(Busy') = Cardinality(Busy) + 1
<1>1. Busy \subseteq Thread /\ Busy' \subseteq Thread
    BY DEF Busy
<1>2. /\ w \in Busy /\ w \in Busy' => Busy' = Busy
      /\ w \notin Busy /\ w \notin Busy' => Busy' = Busy
      /\ w \in Busy /\ w \notin Busy' => Busy' = Busy \ {w}
      /\ w \notin Busy /\ w \in Busy' => Busy' = Busy \cup {w}
    BY <1>1
<1> QED BY <1>2, WorkersFinite, FS_AddElement, FS_RemoveElement

\* One worker begins or ends to process a key.
LEMMA WorkersOnMove ==
    ASSUME NEW k, NEW w \in Thread, \A v \in Thread \ {w} : v \in WorkersOn(k)' <=> v \in WorkersOn(k)
    PROVE  /\ w \in WorkersOn(k) /\ w \in WorkersOn(k)' => WorkersOn(k)' = WorkersOn(k)
           /\ w \notin WorkersOn(k) /\ w \notin WorkersOn(k)' => WorkersOn(k)' = WorkersOn(k)
           /\ w \in WorkersOn(k) /\ w \notin WorkersOn(k)'
                => Cardinality(WorkersOn(k)') = Cardinality(WorkersOn(k)) - 1
           /\ w \notin WorkersOn(k) /\ w \in WorkersOn(k)'
                => Cardinality(WorkersOn(k)') = Cardinality(WorkersOn(k)) + 1
<1>1. WorkersOn(k) \subseteq Thread /\ WorkersOn(k)' \subseteq Thread
    BY DEF WorkersOn
<1>2. /\ w \in WorkersOn(k) /\ w \in WorkersOn(k)' => WorkersOn(k)' = WorkersOn(k)
      /\ w \notin WorkersOn(k) /\ w \notin WorkersOn(k)' => WorkersOn(k)' = WorkersOn(k)
      /\ w \in WorkersOn(k) /\ w \notin WorkersOn(k)' => WorkersOn(k)' = WorkersOn(k) \ {w}
      /\ w \notin WorkersOn(k) /\ w \in WorkersOn(k)' => WorkersOn(k)' = WorkersOn(k) \cup {w}
    BY <1>1
<1>3. IsFiniteSet(WorkersOn(k))
    BY WorkersFinite
<1>4. w \in WorkersOn(k) => Cardinality(WorkersOn(k) \ {w}) = Cardinality(WorkersOn(k)) - 1
    BY <1>3, FS_RemoveElement
<1>5. w \notin WorkersOn(k) => Cardinality(WorkersOn(k) \cup {w}) = Cardinality(WorkersOn(k)) + 1
    BY <1>3, FS_AddElement
<1> QED BY <1>2, <1>4, <1>5

\* What a worker does with the request it takes.
LEMMA TakeCases ==
    ASSUME IInv, NEW w \in Thread, WorkerTake(w)
    PROVE  LET r == Head(queue)
               Becomes(p, j, k) == /\ pc' = [pc EXCEPT ![w] = p]
                                   /\ job' = [job EXCEPT ![w] = j]
                                   /\ key' = [key EXCEPT ![w] = k]
           IN \/ r = Stop /\ Becomes("leaving", None, None)
              \/ r = Unregister /\ Becomes("unregister", None, None)
              \/ \E v \in Thread : r = Request("join", v) /\ Becomes("join", v, None)
              \/ \E t \in Task : r = Request("task", t) /\ Becomes("run", t, None)
              \/ \E k \in Key : r = Request("serialized", k) /\ Becomes("serial", None, k)
<1>1. PICK r : r = Head(queue)
    OBVIOUS
<1>2. r \in Requests
    BY <1>1, TailElements DEF WorkerTake, IInv, TypeOK
<1>3. /\ pc' = [pc EXCEPT ![w] = CASE r.func = "stop" -> "leaving"
                                   [] r.func = "unregister" -> "unregister"
                                   [] r.func = "join" -> "join"
                                   [] r.func = "task" -> "run"
                                   [] r.func = "serialized" -> "serial"]
      /\ job' = [job EXCEPT ![w] = IF r.func \in {"task", "join"} THEN r.arg ELSE None]
      /\ key' = [key EXCEPT ![w] = IF r.func = "serialized" THEN r.arg ELSE None]
    BY <1>1 DEF WorkerTake
<1>4. CASE r = Stop
    <2>1. r.func = "stop"
        BY <1>4 DEF Stop, Request
    <2> QED BY <1>1, <1>3, <1>4, <2>1
<1>5. CASE r = Unregister
    <2>1. r.func = "unregister"
        BY <1>5 DEF Unregister, Request
    <2> QED BY <1>1, <1>3, <1>5, <2>1
<1>6. ASSUME NEW v \in Thread, r = Request("join", v) PROVE r.func = "join" /\ r.arg = v
    BY <1>6 DEF Request
<1>7. ASSUME NEW t \in Task, r = Request("task", t) PROVE r.func = "task" /\ r.arg = t
    BY <1>7 DEF Request
<1>8. ASSUME NEW k \in Key, r = Request("serialized", k) PROVE r.func = "serialized" /\ r.arg = k
    BY <1>8 DEF Request
<1>9. CASE \E v \in Thread : r = Request("join", v)
    BY <1>1, <1>3, <1>6, <1>9
<1>10. CASE \E t \in Task : r = Request("task", t)
    BY <1>1, <1>3, <1>7, <1>10
<1>11. CASE \E k \in Key : r = Request("serialized", k)
    BY <1>1, <1>3, <1>8, <1>11
<1> QED BY <1>2, <1>4, <1>5, <1>9, <1>10, <1>11, RequestCases

\* A worker takes the oldest request: it moves from the queue to the worker.
LEMMA WorkerTakeIInv ==
    ASSUME IInv, NEW w \in Thread, WorkerTake(w)
    PROVE  IInv'
<1>1. TypeOK
    BY DEF IInv
<1>2. /\ pc[w] = "get" /\ queue # <<>> /\ queue' = Tail(queue)
      /\ UNCHANGED <<serialVars, schedulerQueue, activeRequests, threads, controlVars, call>>
    BY DEF WorkerTake
<1>3. PICK r : r = Head(queue)
    OBVIOUS
<1>4. /\ queue \in Seq(Requests) /\ queue' \in Seq(Requests) /\ r \in Requests
      /\ \A i \in 1..Len(queue') : \E j \in 1..Len(queue) : queue'[i] = queue[j]
      /\ \E j \in 1..Len(queue) : r = queue[j]
    BY <1>1, <1>2, <1>3, TailElements DEF TypeOK
<1>5. \E p \in {"leaving", "unregister", "join", "run", "serial"},
         j \in Task \cup Thread \cup {None}, k \in Key \cup {None} :
          /\ pc' = [pc EXCEPT ![w] = p] /\ job' = [job EXCEPT ![w] = j] /\ key' = [key EXCEPT ![w] = k]
          /\ p \in {"leaving", "unregister"} => r \in {Stop, Unregister}
          /\ p = "join" => j \in Thread /\ r = Request("join", j)
          /\ p = "run" => j \in Task /\ r = Request("task", j)
          /\ p = "serial" => k \in Key /\ r = Request("serialized", k)
    BY <1>3, TakeCases
<1>6. PICK p \in {"leaving", "unregister", "join", "run", "serial"},
           j \in Task \cup Thread \cup {None}, k \in Key \cup {None} :
          /\ pc' = [pc EXCEPT ![w] = p] /\ job' = [job EXCEPT ![w] = j] /\ key' = [key EXCEPT ![w] = k]
          /\ p \in {"leaving", "unregister"} => r \in {Stop, Unregister}
          /\ p = "join" => j \in Thread /\ r = Request("join", j)
          /\ p = "run" => j \in Task /\ r = Request("task", j)
          /\ p = "serial" => k \in Key /\ r = Request("serialized", k)
    BY <1>5
<1>7. /\ \A v \in Thread : v # w => pc'[v] = pc[v] /\ job'[v] = job[v] /\ key'[v] = key[v]
      /\ pc'[w] = p /\ job'[w] = j /\ key'[w] = k
    BY <1>1, <1>6 DEF TypeOK
<1>8. TypeOK'
    <2>1. /\ pc' \in [Thread -> Idle \cup InSerial \cup {"join", "run"}]
          /\ job' \in [Thread -> Task \cup Thread \cup {None}] /\ key' \in [Thread -> Key \cup {None}]
        BY <1>1, <1>6 DEF TypeOK, Idle, InSerial
    <2>2. \A v \in Thread :
              /\ pc'[v] = "run" => job'[v] \in Task
              /\ pc'[v] = "runserial" => job'[v] \in Task
              /\ pc'[v] = "join" => job'[v] \in Thread
              /\ pc'[v] \in InSerial => key'[v] \in Key
        BY <1>1, <1>6, <1>7 DEF TypeOK, InSerial
    <2> QED BY <1>1, <1>2, <1>4, <2>1, <2>2 DEF TypeOK, serialVars, controlVars
<1>9. \A P : Count(queue, P) = Count(queue', P) + IF r \in P THEN 1 ELSE 0
    BY <1>2, <1>3, <1>4, CountTail
<1>10. /\ r \in CountedRequests <=> p \in {"join", "run", "serial"}
       /\ \A l \in Key : r \in Processing(l) <=> p = "serial" /\ k = l
    <2>1. CASE p \in {"leaving", "unregister"}
        BY <1>6, <2>1, RequestsTyped, OthersDoNotProcess
    <2>2. CASE p = "join"
        BY <1>6, <2>2, RequestsTyped, OthersDoNotProcess
    <2>3. CASE p = "run"
        BY <1>6, <2>3, RequestsTyped, OthersDoNotProcess
    <2>4. CASE p = "serial"
        BY <1>6, <2>4, RequestsTyped, OthersDoNotProcess
    <2> QED BY <2>1, <2>2, <2>3, <2>4
<1>11. ActiveRequestsExact'
    <2>1. Cardinality(Busy') = Cardinality(Busy) + IF r \in CountedRequests THEN 1 ELSE 0
        <3>1. /\ w \notin Busy /\ (w \in Busy' <=> r \in CountedRequests)
              /\ \A v \in Thread \ {w} : v \in Busy' <=> v \in Busy
            BY <1>2, <1>7, <1>10 DEF Busy, InSerial
        <3> QED BY <3>1, BusyMoves, WorkersFinite
    <2>2. Count(queue, CountedRequests) = Count(queue', CountedRequests) + IF r \in CountedRequests THEN 1 ELSE 0
        BY <1>9
    <2>3. Count(queue', CountedRequests) \in Nat
        BY <1>4, CountType
    <2>4. activeRequests' = Count(queue', CountedRequests) + Cardinality(Busy')
        BY <1>2, <2>1, <2>2, <2>3, CountsNow, WorkersFinite
    <2> QED BY <1>4, <2>4, CountsNext
<1>12. OneProcessor'
    <2>1. ASSUME NEW l \in Key
          PROVE  Count(queue', Processing(l)) + Cardinality(WorkersOn(l)')
                     = Count(queue, Processing(l)) + Cardinality(WorkersOn(l))
        <3>1. /\ w \notin WorkersOn(l) /\ (w \in WorkersOn(l)' <=> r \in Processing(l))
              /\ \A v \in Thread \ {w} : v \in WorkersOn(l)' <=> v \in WorkersOn(l)
            BY <1>2, <1>7, <1>10 DEF WorkersOn, InSerial
        <3>2. Cardinality(WorkersOn(l)') = Cardinality(WorkersOn(l)) + IF r \in Processing(l) THEN 1 ELSE 0
            BY <3>1, WorkersOnMove, WorkersFinite
        <3>3. Count(queue, Processing(l)) = Count(queue', Processing(l)) + IF r \in Processing(l) THEN 1 ELSE 0
            BY <1>9
        <3>4. Count(queue', Processing(l)) \in Nat
            BY <1>4, CountType
        <3> QED BY <3>2, <3>3, <3>4, WorkersFinite
    <2> QED BY <1>2, <1>4, <2>1, ProcessorsKept DEF controlVars
<1>13. PlainTasks'
    <2>1. p = "run" => call[j] \in Plain
        <3> SUFFICES ASSUME p = "run" PROVE call[j] \in Plain
            OBVIOUS
        <3>1. r.func = "task" /\ r.arg = j
            BY <1>6 DEF Request
        <3> QED BY <1>4, <3>1 DEF IInv, PlainTasks
    <2> QED BY <1>2, <1>4, <1>7, <2>1 DEF IInv, PlainTasks
<1>14. SerialTasks'
    BY <1>2, <1>6, <1>7 DEF IInv, SerialTasks, serialVars
<1> QED BY <1>8, <1>11, <1>12, <1>13, <1>14 DEF IInv

\* A worker that was asked to stop unregisters itself, queues the request to join it, and
\* ends.
LEMMA WorkerStopIInv ==
    ASSUME IInv, NEW w \in Thread, WorkerUnregister(w) \/ WorkerQueueJoin(w) \/ WorkerEnd(w)
    PROVE  IInv'
<1>1. TypeOK
    BY DEF IInv
<1>2. PICK p \in {"unregistered", "leaving", "ended"} : pc' = [pc EXCEPT ![w] = p]
    BY DEF WorkerUnregister, WorkerQueueJoin, WorkerEnd
<1>3. /\ pc[w] \in {"unregister", "unregistered", "leaving"} /\ threads' \subseteq threads
      /\ UNCHANGED <<serialVars, schedulerQueue, job, key, controlVars, call>>
      /\ \/ UNCHANGED <<queue, activeRequests>>
         \/ queue' = Append(queue, Request("join", w)) /\ activeRequests' = activeRequests + 1
    BY DEF WorkerUnregister, WorkerQueueJoin, WorkerEnd
<1>4. pc'[w] = p /\ \A v \in Thread : v # w => pc'[v] = pc[v]
    BY <1>1, <1>2 DEF TypeOK
<1>5. Busy' = Busy /\ \A k : WorkersOn(k)' = WorkersOn(k)
    BY <1>3, <1>4 DEF InSerial, Busy, WorkersOn
<1>6. PICK r : r = Request("join", w)
    OBVIOUS
<1>7. r \in Requests /\ r \in CountedRequests /\ r.func # "task" /\ \A k \in Key : r \notin Processing(k)
    BY <1>6, RequestsTyped, OthersDoNotProcess DEF Request
<1>8. /\ queue' \in Seq(Requests)
      /\ \A i \in 1..Len(queue') : queue'[i] = r \/ \E j \in 1..Len(queue) : queue'[i] = queue[j]
    <2>1. queue \in Seq(Requests)
        BY <1>1 DEF TypeOK
    <2>2. CASE UNCHANGED queue
        BY <2>1, <2>2
    <2>3. CASE queue' = Append(queue, r)
        BY <1>7, <2>1, <2>3, AppendElements
    <2> QED BY <1>3, <1>6, <2>2, <2>3
<1>9. TypeOK'
    <2>1. /\ pc' \in [Thread -> Idle \cup InSerial \cup {"join", "run"}] /\ threads' \in SUBSET Thread
          /\ activeRequests' \in Int
        BY <1>1, <1>2, <1>3 DEF TypeOK, Idle
    <2>2. \A v \in Thread :
              /\ pc'[v] = "run" => job'[v] \in Task
              /\ pc'[v] = "runserial" => job'[v] \in Task
              /\ pc'[v] = "join" => job'[v] \in Thread
              /\ pc'[v] \in InSerial => key'[v] \in Key
        BY <1>1, <1>3, <1>4 DEF TypeOK, InSerial
    <2> QED BY <1>1, <1>3, <1>8, <2>1, <2>2 DEF TypeOK, serialVars, controlVars
<1>10. ActiveRequestsExact' /\ OneProcessor'
    <2>1. CASE UNCHANGED <<queue, activeRequests>>
        <3>1. ActiveRequestsExact'
            BY <1>5, <1>8, <2>1, CountsNow, CountsNext
        <3>2. OneProcessor'
            BY <1>3, <1>5, <1>8, <2>1, ProcessorsKept DEF controlVars
        <3> QED BY <3>1, <3>2
    <2>2. CASE queue' = Append(queue, r) /\ activeRequests' = activeRequests + 1
        BY <1>3, <1>5, <1>7, <1>9, <2>2, RequestQueued DEF controlVars
    <2> QED BY <1>3, <1>6, <2>1, <2>2
<1>11. PlainTasks' /\ SerialTasks'
    BY <1>3, <1>4, <1>7, <1>8 DEF IInv, PlainTasks, SerialTasks, serialVars
<1> QED BY <1>9, <1>10, <1>11 DEF IInv

\* A worker ends its request: a join or a task.
LEMMA WorkerDoneIInv ==
    ASSUME IInv, NEW w \in Thread, JoinWorkerThread(w) \/ WorkerRun(w)
    PROVE  IInv'
<1>1. TypeOK
    BY DEF IInv
<1>2. /\ pc[w] \in {"join", "run"} /\ job' = [job EXCEPT ![w] = None]
      /\ activeRequests' = activeRequests - 1
      /\ UNCHANGED <<queue, serialVars, schedulerQueue, threads, key, shutdownMode, maint, stops, destroyer,
                     walkVars>>
    BY DEF JoinWorkerThread, WorkerRun, controlVars
<1>3. /\ pc' \in [Thread -> Idle \cup InSerial \cup {"join", "run"}]
      /\ pc'[w] = "get"
      /\ \A v \in Thread \ {w} : pc'[v] = pc[v] \/ (pc[v] = "ended" /\ pc'[v] = "free")
    <2>1. CASE JoinWorkerThread(w)
        <3>1. /\ pc[w] = "join" /\ pc[job[w]] = "ended"
              /\ pc' = [pc EXCEPT ![w] = "get", ![job[w]] = "free"]
            BY <2>1 DEF JoinWorkerThread
        <3>2. PICK x \in Thread : x = job[w]
            BY <1>1, <3>1 DEF TypeOK
        <3>3. x # w /\ pc[x] = "ended" /\ pc' = [pc EXCEPT ![w] = "get", ![x] = "free"]
            BY <3>1, <3>2
        <3> QED BY <1>1, <3>2, <3>3 DEF TypeOK, Idle
    <2>2. CASE WorkerRun(w)
        BY <1>1, <2>2 DEF WorkerRun, TypeOK, Idle
    <2> QED BY <2>1, <2>2
<1>4. /\ call' \in [Task -> {"new", "checked", "scheduled", "queued", "executed",
                             "serialized", "processed"}]
      /\ \A t \in Task : /\ call[t] \in Plain => call'[t] \in Plain
                         /\ call[t] \in Serialized => call'[t] \in Serialized
      /\ promised' \in SUBSET Task
    <2>1. CASE JoinWorkerThread(w)
        BY <1>1, <2>1 DEF JoinWorkerThread, TypeOK, controlVars
    <2>2. CASE WorkerRun(w)
        <3>1. /\ pc[w] = "run" /\ call' = [call EXCEPT ![job[w]] = "executed"]
              /\ promised' = promised \ {job[w]}
            BY <2>2 DEF WorkerRun
        <3>2. job[w] \in Task /\ call[job[w]] \in Plain
            BY <1>1, <3>1, TasksTyped DEF IInv, PlainTasks
        <3> QED BY <1>1, <3>1, <3>2 DEF TypeOK, Plain, Serialized
    <2> QED BY <2>1, <2>2
<1>5. /\ \A v \in Thread : v # w => job'[v] = job[v]
      /\ job' \in [Thread -> Task \cup Thread \cup {None}]
    BY <1>1, <1>2 DEF TypeOK
<1>6. TypeOK'
    <2>1. \A v \in Thread :
              /\ pc'[v] = "run" => job'[v] \in Task
              /\ pc'[v] = "runserial" => job'[v] \in Task
              /\ pc'[v] = "join" => job'[v] \in Thread
              /\ pc'[v] \in InSerial => key'[v] \in Key
        BY <1>1, <1>2, <1>3, <1>5 DEF TypeOK, InSerial
    <2>2. activeRequests' \in Int
        BY <1>1, <1>2 DEF TypeOK
    <2> QED BY <1>1, <1>2, <1>3, <1>4, <1>5, <2>1, <2>2 DEF TypeOK, serialVars
<1>7. queue' \in Seq(Requests)
    BY <1>6 DEF TypeOK
<1>8. ActiveRequestsExact'
    <2>1. w \in Busy /\ w \notin Busy' /\ \A v \in Thread \ {w} : v \in Busy' <=> v \in Busy
        BY <1>2, <1>3 DEF Busy, InSerial
    <2>2. Cardinality(Busy') = Cardinality(Busy) - 1
        BY <2>1, BusyMoves
    <2>3. activeRequests' = Count(queue', CountedRequests) + Cardinality(Busy')
        BY <1>2, <2>2, CountsNow, WorkersFinite
    <2> QED BY <1>7, <2>3, CountsNext
<1>9. OneProcessor'
    <2>1. \A k : WorkersOn(k)' = WorkersOn(k)
        BY <1>2, <1>3 DEF WorkersOn, InSerial
    <2> QED BY <1>2, <1>7, <2>1, ProcessorsKept
<1>10. PlainTasks'
    <2>1. \A v \in Thread : pc'[v] = "run" => pc[v] = "run" /\ job'[v] = job[v] /\ job[v] \in Task
        BY <1>1, <1>3, <1>5, TasksTyped
    <2> QED BY <1>1, <1>2, <1>4, <2>1, TasksTyped DEF IInv, PlainTasks
<1>11. SerialTasks'
    <2>1. \A v \in Thread : pc'[v] = "runserial" => pc[v] = "runserial" /\ job'[v] = job[v] /\ job[v] \in Task
        BY <1>1, <1>3, <1>5, TasksTyped
    <2> QED BY <1>1, <1>2, <1>4, <2>1, TasksTyped DEF IInv, SerialTasks, serialVars
<1> QED BY <1>6, <1>8, <1>9, <1>10, <1>11 DEF IInv

\* A worker that processes a key is counted for it.
LEMMA Processes ==
    ASSUME IInv, NEW w \in Thread, pc[w] \in InSerial
    PROVE  /\ key[w] \in Key /\ w \in WorkersOn(key[w]) /\ w \in Busy
           /\ Processors(key[w]) = 1 /\ WorkersOn(key[w]) = {w}
           /\ Count(queue, Processing(key[w])) = 0
<1>1. key[w] \in Key /\ w \in WorkersOn(key[w]) /\ w \in Busy
    BY DEF IInv, TypeOK, WorkersOn, Busy
<1>2. Cardinality(WorkersOn(key[w])) # 0 /\ Cardinality(WorkersOn(key[w])) \in Nat
    BY <1>1, WorkersFinite, FS_EmptySet
<1>3. /\ Processors(key[w]) = 1 /\ Cardinality(WorkersOn(key[w])) = 1
      /\ Count(queue, Processing(key[w])) = 0
    BY <1>1, <1>2, CountsNow
<1>4. \E x : WorkersOn(key[w]) = {x}
    BY <1>3, WorkersFinite, FS_Singleton
<1> QED BY <1>1, <1>3, <1>4

\* ProcessSerializedRequests takes the next task of its key, at either of its two looks.
LEMMA TakeSerialIInv ==
    ASSUME IInv, NEW w \in Thread, pc[w] \in {"serial", "recheck"}, serialQueue[key[w]] # <<>>,
           TakeSerial(w),
           UNCHANGED <<queue, serialKeys, schedulerQueue, activeRequests, threads, key, controlVars, call>>
    PROVE  IInv'
<1>1. TypeOK
    BY DEF IInv
<1>2. PICK k \in Key : k = key[w]
    BY Processes DEF InSerial
<1>3. PICK t : t = Head(serialQueue[k])
    OBVIOUS
<1>4. /\ job' = [job EXCEPT ![w] = t] /\ pc' = [pc EXCEPT ![w] = "runserial"]
      /\ serialQueue' = [serialQueue EXCEPT ![k] = Tail(@)]
    BY <1>2, <1>3 DEF TakeSerial
<1>5. /\ t \in Task /\ Tail(serialQueue[k]) \in Seq(Task)
      /\ \E j \in 1..Len(serialQueue[k]) : t = serialQueue[k][j]
      /\ \A i \in 1..Len(Tail(serialQueue[k])) : \E j \in 1..Len(serialQueue[k]) :
             Tail(serialQueue[k])[i] = serialQueue[k][j]
    <2>1. serialQueue[k] \in Seq(Task) /\ serialQueue[k] # <<>>
        BY <1>1, <1>2, TasksTyped
    <2> QED BY <1>3, <2>1, TailElements
<1>6. /\ serialQueue' \in [Key -> Seq(Task)] /\ serialQueue'[k] = Tail(serialQueue[k])
      /\ \A l \in Key : l # k => serialQueue'[l] = serialQueue[l]
    BY <1>1, <1>4, <1>5 DEF TypeOK
<1>7. /\ \A v \in Thread : v # w => pc'[v] = pc[v] /\ job'[v] = job[v]
      /\ pc'[w] = "runserial" /\ job'[w] = t
      /\ pc' \in [Thread -> Idle \cup InSerial \cup {"join", "run"}]
      /\ job' \in [Thread -> Task \cup Thread \cup {None}]
    BY <1>1, <1>4, <1>5 DEF TypeOK, InSerial
<1>8. TypeOK'
    <2>1. \A v \in Thread :
              /\ pc'[v] = "run" => job'[v] \in Task
              /\ pc'[v] = "runserial" => job'[v] \in Task
              /\ pc'[v] = "join" => job'[v] \in Thread
              /\ pc'[v] \in InSerial => key'[v] \in Key
        BY <1>1, <1>2, <1>5, <1>7 DEF TypeOK
    <2> QED BY <1>1, <1>6, <1>7, <2>1 DEF TypeOK, controlVars
<1>9. Busy' = Busy /\ \A l : WorkersOn(l)' = WorkersOn(l)
    BY <1>7 DEF InSerial, Busy, WorkersOn
<1>10. queue' \in Seq(Requests) /\ ActiveRequestsExact'
    BY <1>8, <1>9, CountsNow, CountsNext DEF TypeOK
<1>11. OneProcessor'
    <2>1. \A l \in Key : Processors(l)' = Processors(l)
        BY <1>9, <1>10, CountsNow, ProcessorsNext
    <2>2. k \in serialKeys
        BY <1>2, CountsNow
    <2> SUFFICES ASSUME NEW l \in Key
                 PROVE  IF l \in serialKeys'
                        THEN Processors(l)' = 1 \/ (Processors(l)' = 0 /\ shutdownMode')
                        ELSE Processors(l)' = 0 /\ serialQueue'[l] = <<>>
        BY DEF OneProcessor, Processors
    <2> QED BY <1>6, <2>1, <2>2, CountsNow DEF controlVars
<1>12. PlainTasks'
    BY <1>7 DEF IInv, PlainTasks
<1>13. SerialTasks'
    <2>1. ASSUME NEW l \in Key, NEW i \in 1..Len(serialQueue'[l])
          PROVE  call'[serialQueue'[l][i]] \in Serialized
        <3>1. CASE l = k
            <4>1. serialQueue'[l] = Tail(serialQueue[k])
                BY <1>6, <3>1
            <4>2. PICK j \in 1..Len(serialQueue[k]) : serialQueue'[l][i] = serialQueue[k][j]
                BY <1>5, <4>1
            <4> QED BY <4>2 DEF IInv, SerialTasks
        <3>2. CASE l # k
            BY <1>6, <3>2 DEF IInv, SerialTasks
        <3> QED BY <3>1, <3>2
    <2>2. call[t] \in Serialized
        BY <1>5 DEF IInv, SerialTasks
    <2> QED BY <1>7, <2>1, <2>2 DEF IInv, SerialTasks
<1> QED BY <1>8, <1>10, <1>11, <1>12, <1>13 DEF IInv

\* The first look finds nothing, or a serialized task ends: the worker goes on with its key.
LEMMA SerialGoesOn ==
    ASSUME IInv, NEW w \in Thread, pc[w] \in InSerial, NEW p \in {"recheck", "serial"}, TypeOK',
           pc' = [pc EXCEPT ![w] = p], \A v \in Thread : v # w => job'[v] = job[v],
           \A t \in Task : /\ call[t] \in Plain => call'[t] \in Plain
                           /\ call[t] \in Serialized => call'[t] \in Serialized,
           UNCHANGED <<queue, serialVars, schedulerQueue, activeRequests, key, shutdownMode>>
    PROVE  IInv'
<1>1. TypeOK
    BY DEF IInv
<1>2. pc'[w] = p /\ \A v \in Thread : v # w => pc'[v] = pc[v]
    BY <1>1 DEF TypeOK
<1>3. Busy' = Busy /\ queue' \in Seq(Requests) /\ \A k : WorkersOn(k)' = WorkersOn(k)
    BY <1>2 DEF InSerial, Busy, WorkersOn, TypeOK
<1>4. ActiveRequestsExact'
    BY <1>3, CountsNow, CountsNext
<1>5. OneProcessor'
    BY <1>3, ProcessorsKept
<1>6. PlainTasks'
    BY <1>1, <1>2, TasksTyped DEF IInv, PlainTasks
<1>7. SerialTasks'
    BY <1>1, <1>2, TasksTyped DEF IInv, SerialTasks, serialVars
<1> QED BY <1>4, <1>5, <1>6, <1>7 DEF IInv

\* The second look finds nothing: the queue of the key is removed and the request ends.
LEMMA RemoveKeyIInv ==
    ASSUME IInv, NEW w \in Thread, pc[w] = "recheck", serialQueue[key[w]] = <<>>,
           RemoveKey(w), UNCHANGED <<queue, schedulerQueue, threads, job, controlVars, call>>
    PROVE  IInv'
<1>1. TypeOK
    BY DEF IInv
<1>2. PICK k \in Key : k = key[w]
    BY Processes DEF InSerial
<1>3. /\ serialKeys' = serialKeys \ {k} /\ serialQueue' = [serialQueue EXCEPT ![k] = <<>>]
      /\ key' = [key EXCEPT ![w] = None] /\ pc' = [pc EXCEPT ![w] = "get"]
      /\ activeRequests' = activeRequests - 1
    BY <1>2 DEF RemoveKey
<1>4. serialQueue' = serialQueue
    BY <1>1, <1>2, <1>3 DEF TypeOK
<1>5. /\ \A v \in Thread : v # w => pc'[v] = pc[v] /\ key'[v] = key[v]
      /\ pc'[w] = "get" /\ key'[w] = None
      /\ pc' \in [Thread -> Idle \cup InSerial \cup {"join", "run"}]
      /\ key' \in [Thread -> Key \cup {None}]
    BY <1>1, <1>3 DEF TypeOK, Idle
<1>6. TypeOK'
    <2>1. \A v \in Thread :
              /\ pc'[v] = "run" => job'[v] \in Task
              /\ pc'[v] = "runserial" => job'[v] \in Task
              /\ pc'[v] = "join" => job'[v] \in Thread
              /\ pc'[v] \in InSerial => key'[v] \in Key
        BY <1>1, <1>5 DEF TypeOK, InSerial
    <2>2. serialKeys' \in SUBSET Key /\ activeRequests' \in Int
        BY <1>1, <1>3 DEF TypeOK
    <2> QED BY <1>1, <1>4, <1>5, <2>1, <2>2 DEF TypeOK, controlVars
<1>7. queue' \in Seq(Requests)
    BY <1>6 DEF TypeOK
<1>8. ActiveRequestsExact'
    <2>1. w \in Busy /\ w \notin Busy' /\ \A v \in Thread \ {w} : v \in Busy' <=> v \in Busy
        BY <1>5 DEF Busy, InSerial
    <2>2. Cardinality(Busy') = Cardinality(Busy) - 1
        BY <2>1, BusyMoves
    <2>3. activeRequests' = Count(queue', CountedRequests) + Cardinality(Busy')
        BY <1>3, <2>2, CountsNow, WorkersFinite
    <2> QED BY <1>7, <2>3, CountsNext
<1>9. OneProcessor'
    <2>1. /\ WorkersOn(k)' = {} /\ Count(queue', Processing(k)) = 0
          /\ \A l \in Key \ {k} : WorkersOn(l)' = WorkersOn(l)
        <3>1. WorkersOn(k) = {w} /\ Count(queue, Processing(k)) = 0
            BY <1>2, Processes DEF InSerial
        <3>2. WorkersOn(k)' = {}
            BY <1>5, <3>1 DEF WorkersOn, InSerial
        <3>3. \A l \in Key \ {k} : WorkersOn(l)' = WorkersOn(l)
            BY <1>2, <1>5 DEF WorkersOn, InSerial
        <3> QED BY <3>1, <3>2, <3>3
    <2>2. Processors(k)' = 0
        <3>1. Cardinality(WorkersOn(k)') = 0
            BY <2>1, FS_EmptySet
        <3>2. Count(queue', Processing(k)) = 0
            BY <2>1
        <3>3. Processors(k)' = Count(queue', Processing(k)) + Cardinality(WorkersOn(k)')
            BY <1>7, ProcessorsNext
        <3> QED BY <3>1, <3>2, <3>3
    <2>3. \A l \in Key \ {k} : Processors(l)' = Processors(l)
        BY <1>7, <2>1, CountsNow, ProcessorsNext
    <2> SUFFICES ASSUME NEW l \in Key
                 PROVE  IF l \in serialKeys'
                        THEN Processors(l)' = 1 \/ (Processors(l)' = 0 /\ shutdownMode')
                        ELSE Processors(l)' = 0 /\ serialQueue'[l] = <<>>
        BY DEF OneProcessor, Processors
    <2>4. CASE l = k
        BY <1>2, <1>3, <1>4, <2>2, <2>4
    <2>5. CASE l # k
        BY <1>3, <1>4, <2>3, <2>5, CountsNow DEF controlVars
    <2> QED BY <2>4, <2>5
<1>10. PlainTasks' /\ SerialTasks'
    BY <1>4, <1>5 DEF IInv, PlainTasks, SerialTasks
<1> QED BY <1>6, <1>8, <1>9, <1>10 DEF IInv

\* ProcessSerializedRequests.
LEMMA SerialIInv ==
    ASSUME IInv, NEW w \in Thread, SerialGet(w) \/ SerialRecheck(w) \/ SerialRun(w)
    PROVE  IInv'
<1>1. TypeOK
    BY DEF IInv
<1>2. CASE /\ pc[w] \in {"serial", "recheck"} /\ serialQueue[key[w]] # <<>> /\ TakeSerial(w)
           /\ UNCHANGED <<queue, serialKeys, schedulerQueue, activeRequests, threads, key, controlVars, call>>
    BY <1>2, TakeSerialIInv
<1>3. CASE /\ pc[w] = "recheck" /\ serialQueue[key[w]] = <<>> /\ RemoveKey(w)
           /\ UNCHANGED <<queue, schedulerQueue, threads, job, controlVars, call>>
    BY <1>3, RemoveKeyIInv
<1>4. CASE /\ pc[w] = "serial" /\ pc' = [pc EXCEPT ![w] = "recheck"] /\ UNCHANGED <<job, serialQueue>>
           /\ UNCHANGED <<queue, serialKeys, schedulerQueue, activeRequests, threads, key, controlVars, call>>
    <2>1. /\ \A v \in Thread : v # w => pc'[v] = pc[v]
          /\ pc'[w] = "recheck" /\ key[w] \in Key
          /\ pc' \in [Thread -> Idle \cup InSerial \cup {"join", "run"}]
        BY <1>1, <1>4 DEF TypeOK, InSerial
    <2>2. TypeOK'
        <3>1. \A v \in Thread :
                  /\ pc'[v] = "run" => job'[v] \in Task
                  /\ pc'[v] = "runserial" => job'[v] \in Task
                  /\ pc'[v] = "join" => job'[v] \in Thread
                  /\ pc'[v] \in InSerial => key'[v] \in Key
            BY <1>1, <1>4, <2>1 DEF TypeOK
        <3> QED BY <1>1, <1>4, <2>1, <3>1 DEF TypeOK, controlVars
    <2> QED BY <1>4, <2>2, SerialGoesOn DEF InSerial, serialVars, controlVars
<1>5. CASE SerialRun(w)
    <2>1. /\ pc[w] = "runserial" /\ call' = [call EXCEPT ![job[w]] = "processed"]
          /\ promised' = promised \ {job[w]} /\ job' = [job EXCEPT ![w] = None]
          /\ pc' = [pc EXCEPT ![w] = "serial"]
          /\ UNCHANGED <<queue, serialVars, schedulerQueue, activeRequests, threads, key, shutdownMode,
                         maint, stops, destroyer, walkVars>>
        BY <1>5 DEF SerialRun
    <2>2. job[w] \in Task /\ call[job[w]] \in Serialized /\ key[w] \in Key
        BY <1>1, <2>1 DEF TypeOK, InSerial, IInv, SerialTasks
    <2>3. /\ \A v \in Thread : v # w => pc'[v] = pc[v] /\ job'[v] = job[v]
          /\ pc'[w] = "serial"
          /\ pc' \in [Thread -> Idle \cup InSerial \cup {"join", "run"}]
          /\ job' \in [Thread -> Task \cup Thread \cup {None}]
        BY <1>1, <2>1 DEF TypeOK, InSerial
    <2>4. /\ call' \in [Task -> {"new", "checked", "scheduled", "queued", "executed",
                                 "serialized", "processed"}]
          /\ \A t \in Task : /\ call[t] \in Plain => call'[t] \in Plain
                             /\ call[t] \in Serialized => call'[t] \in Serialized
          /\ promised' \in SUBSET Task
        BY <1>1, <2>1, <2>2 DEF TypeOK, Plain, Serialized
    <2>5. TypeOK'
        <3>1. \A v \in Thread :
                  /\ pc'[v] = "run" => job'[v] \in Task
                  /\ pc'[v] = "runserial" => job'[v] \in Task
                  /\ pc'[v] = "join" => job'[v] \in Thread
                  /\ pc'[v] \in InSerial => key'[v] \in Key
            BY <1>1, <2>1, <2>2, <2>3 DEF TypeOK
        <3> QED BY <1>1, <2>1, <2>3, <2>4, <3>1 DEF TypeOK, serialVars
    <2> QED BY <2>1, <2>3, <2>4, <2>5, SerialGoesOn DEF InSerial
<1> QED BY <1>2, <1>3, <1>4, <1>5 DEF SerialGet, SerialRecheck

-----------------------------------------------------------------------------
(* The theorems on the invariants *)

\* Every step preserves the invariant.
LEMMA NextIInv == IInv /\ [Next]_vars => IInv'
<1> SUFFICES ASSUME IInv, [Next]_vars PROVE IInv'
    OBVIOUS
<1>1. ASSUME NEW t \in Task, CheckShutdown(t) \/ ThreadPoolExecute(t) PROVE IInv'
    BY <1>1, ControlIInv, ExecuteIInv
<1>2. ASSUME NEW t \in Task, NEW k \in Key, ThreadPoolExecuteSerialized(t, k) PROVE IInv'
    BY <1>2, ExecuteSerializedIInv
<1>3. ASSUME NEW t \in Task, NEW i \in 0..Len(schedulerQueue), ThreadPoolScheduleAbsoluteMs(t, i) PROVE IInv'
    BY <1>3, ScheduleIInv
<1>4. ASSUME NEW w \in Thread, Worker(w) PROVE IInv'
    BY <1>4, WorkerTakeIInv, WorkerStopIInv, WorkerDoneIInv, SerialIInv DEF Worker
<1>5. CASE Maintenance
    BY <1>5, MaintGrowIInv, StopIInv, MaintScheduleIInv DEF Maintenance
<1>6. CASE \/ \E n \in 1..MaxThreads : MaintShrink(n)
           \/ DestroyBegin \/ DestroyCount \/ WalkThreads \/ Terminated \/ UNCHANGED vars
    BY <1>6, ControlIInv DEF Terminated
<1>7. CASE DestroyQueueStop
    BY <1>7, StopIInv
<1> QED BY <1>1, <1>2, <1>3, <1>4, <1>5, <1>6, <1>7 DEF Next, Destroy

\* The invariant holds in every reachable state.
LEMMA Invariance == Spec => []IInv
BY InitIInv, NextIInv, PTL DEF Spec

\* Every behaviour of the thread pool keeps the types, and what a worker has fits what it
\* does.
THEOREM TypeCorrect == Spec => []TypeOK
<1>1. IInv => TypeOK
    BY DEF IInv
<1> QED BY <1>1, Invariance, PTL

\* The counter of active requests is exact, so a pool that has lost all its threads learns
\* of every request.
THEOREM CounterExact == Spec => []ActiveRequestsExact
<1>1. IInv => ActiveRequestsExact
    BY DEF IInv
<1> QED BY <1>1, Invariance, PTL

\* A registered key has one request that processes it, however calls, the two looks of
\* ProcessSerializedRequests and the removal of the queue interleave.
THEOREM ProcessorUnique == Spec => []OneProcessor
<1>1. IInv => OneProcessor
    BY DEF IInv
<1> QED BY <1>1, Invariance, PTL

-----------------------------------------------------------------------------
(* Serialized execution implements SerialExecution *)

\* Workers that run a task of a key, and what the abstract specification sees of a task
RunningOn(k) == {w \in Thread : pc[w] = "runserial" /\ key[w] = k}
Submitted == {t \in Task : call[t] \in {"serialized", "processed"}}
Runs == [k \in Key |-> Running(k)]

\* What runs with a key stays when the workers that run it stay, with their tasks.
LEMMA RunningKept ==
    ASSUME NEW k, RunningOn(k)' = RunningOn(k), \A v \in RunningOn(k) : job'[v] = job[v]
    PROVE  Running(k)' = Running(k)
<1>1. Running(k) = IF RunningOn(k) = {} THEN None ELSE job[CHOOSE v \in RunningOn(k) : TRUE]
    BY DEF Running, RunningOn
<1>2. Running(k)' = IF RunningOn(k)' = {} THEN None ELSE job'[CHOOSE v \in RunningOn(k)' : TRUE]
    BY DEF Running, RunningOn
<1>3. RunningOn(k) # {} => (CHOOSE v \in RunningOn(k) : TRUE) \in RunningOn(k)
    OBVIOUS
<1> QED BY <1>1, <1>2, <1>3

\* When no serialized task begins or ends and none is submitted or taken, the abstract
\* specification sees nothing.
LEMMA Stutters ==
    ASSUME \A v \in Thread : pc'[v] = "runserial" <=> pc[v] = "runserial",
           \A v \in Thread : pc[v] = "runserial" => job'[v] = job[v] /\ key'[v] = key[v],
           \A t \in Task : call'[t] \in Serialized <=> call[t] \in Serialized,
           UNCHANGED serialQueue
    PROVE  UNCHANGED Serial!vars
<1>1. \A k : RunningOn(k)' = RunningOn(k)
    BY DEF RunningOn
<1>2. \A k : Running(k)' = Running(k)
    BY <1>1, RunningKept DEF RunningOn
<1>3. UNCHANGED Submitted /\ UNCHANGED Runs
    BY <1>2 DEF Submitted, Serialized, Runs
<1> QED BY <1>3 DEF Serial!vars, Submitted, Runs

\* A pool that has been created satisfies the abstract initial condition.
LEMMA InitSerial == Init => Serial!Init
<1> SUFFICES ASSUME Init PROVE Serial!Init
    OBVIOUS
<1>1. \A k : RunningOn(k) = {}
    BY DEF Init, RunningOn
<1>2. \A k : Running(k) = None
    BY <1>1 DEF Running, RunningOn
<1>3. Submitted = {} /\ serialQueue = [k \in Key |-> <<>>] /\ Runs = [k \in Key |-> None]
    BY <1>2 DEF Init, Submitted, Runs
<1> QED BY <1>3 DEF Serial!Init, Submitted, Runs

\* A call submits its task to the key.
LEMMA ExecuteSerializedSubmits ==
    ASSUME IInv, NEW t \in Task, NEW k \in Key, ThreadPoolExecuteSerialized(t, k)
    PROVE  Serial!Submit(t, k)
<1>1. TypeOK
    BY DEF IInv
<1>2. /\ call[t] = "checked" /\ call' = [call EXCEPT ![t] = "serialized"]
      /\ serialQueue' = [serialQueue EXCEPT ![k] = Append(@, t)]
      /\ UNCHANGED <<pc, job, key>>
    BY DEF ThreadPoolExecuteSerialized, workerVars
<1>3. t \notin Submitted /\ Submitted' = Submitted \cup {t}
    BY <1>1, <1>2 DEF TypeOK, Submitted
<1>4. \A l : RunningOn(l)' = RunningOn(l)
    BY <1>2 DEF RunningOn
<1>5. \A l : Running(l)' = Running(l)
    BY <1>2, <1>4, RunningKept
<1>6. UNCHANGED Runs
    BY <1>5 DEF Runs
<1> QED BY <1>2, <1>3, <1>6 DEF Serial!Submit, Submitted, Runs

\* ProcessSerializedRequests starts the oldest task of its key; no worker runs another one.
LEMMA TakeSerialStarts ==
    ASSUME IInv, NEW w \in Thread, pc[w] \in {"serial", "recheck"}, serialQueue[key[w]] # <<>>,
           TakeSerial(w), UNCHANGED <<key, call>>
    PROVE  \E k \in Key : Serial!Start(k)
<1>1. TypeOK
    BY DEF IInv
<1>2. PICK k \in Key : k = key[w] /\ WorkersOn(k) = {w}
    BY Processes DEF InSerial
<1>3. /\ job' = [job EXCEPT ![w] = Head(serialQueue[k])] /\ pc' = [pc EXCEPT ![w] = "runserial"]
      /\ serialQueue' = [serialQueue EXCEPT ![k] = Tail(@)]
    BY <1>2 DEF TakeSerial
<1>4. /\ \A v \in Thread : v # w => pc'[v] = pc[v] /\ job'[v] = job[v]
      /\ pc'[w] = "runserial" /\ job'[w] = Head(serialQueue[k])
    BY <1>1, <1>3 DEF TypeOK
<1>5. RunningOn(k) = {}
    <2>1. RunningOn(k) \subseteq WorkersOn(k)
        BY DEF RunningOn, WorkersOn, InSerial
    <2>2. w \notin RunningOn(k)
        BY DEF RunningOn
    <2> QED BY <1>2, <2>1, <2>2
<1>6. RunningOn(k)' = {w}
    <2>1. RunningOn(k)' \subseteq RunningOn(k) \cup {w}
        BY <1>4 DEF RunningOn
    <2>2. w \in RunningOn(k)'
        BY <1>2, <1>4 DEF RunningOn
    <2> QED BY <1>5, <2>1, <2>2
<1>7. Running(k) = None /\ Running(k)' = Head(serialQueue[k])
    <2>1. Running(k) = None
        BY <1>5 DEF Running, RunningOn
    <2>2. Running(k)' = IF RunningOn(k)' = {} THEN None ELSE job'[CHOOSE v \in RunningOn(k)' : TRUE]
        BY DEF Running, RunningOn
    <2>3. (CHOOSE v \in {w} : TRUE) = w
        OBVIOUS
    <2> QED BY <1>4, <1>6, <2>1, <2>2, <2>3
<1>8. \A l \in Key \ {k} : Running(l)' = Running(l)
    <2>1. ASSUME NEW l \in Key \ {k} PROVE RunningOn(l)' = RunningOn(l) /\ w \notin RunningOn(l)
        BY <1>2, <1>4 DEF RunningOn
    <2>2. ASSUME NEW l \in Key \ {k} PROVE \A v \in RunningOn(l) : job'[v] = job[v]
        BY <1>4, <2>1 DEF RunningOn
    <2> QED BY <2>1, <2>2, RunningKept
<1>9. /\ Runs[k] = None /\ Runs' = [Runs EXCEPT ![k] = Head(serialQueue[k])]
      /\ Submitted' = Submitted
    BY <1>7, <1>8 DEF Runs, Submitted
<1>10. Serial!Start(k)
    BY <1>2, <1>3, <1>9 DEF Serial!Start, Submitted, Runs
<1> QED BY <1>10

\* The end of a serialized task is the end of what runs with its key.
LEMMA SerialRunFinishes ==
    ASSUME IInv, NEW w \in Thread, SerialRun(w)
    PROVE  \E k \in Key : Serial!Finish(k)
<1>1. TypeOK
    BY DEF IInv
<1>2. /\ pc[w] = "runserial" /\ call' = [call EXCEPT ![job[w]] = "processed"]
      /\ job' = [job EXCEPT ![w] = None] /\ pc' = [pc EXCEPT ![w] = "serial"]
      /\ UNCHANGED <<serialQueue, key>>
    BY DEF SerialRun, serialVars
<1>3. PICK k \in Key : k = key[w] /\ WorkersOn(k) = {w}
    BY <1>2, Processes DEF InSerial
<1>4. job[w] \in Task /\ call[job[w]] \in Serialized
    BY <1>1, <1>2 DEF TypeOK, IInv, SerialTasks
<1>5. /\ \A v \in Thread : v # w => pc'[v] = pc[v] /\ job'[v] = job[v]
      /\ pc'[w] = "serial"
    BY <1>1, <1>2 DEF TypeOK
<1>6. RunningOn(k) = {w}
    <2>1. RunningOn(k) \subseteq WorkersOn(k)
        BY DEF RunningOn, WorkersOn, InSerial
    <2>2. w \in RunningOn(k)
        BY <1>2, <1>3 DEF RunningOn
    <2> QED BY <1>3, <2>1, <2>2
<1>7. RunningOn(k)' = {}
    <2>1. RunningOn(k)' \subseteq RunningOn(k)
        BY <1>2, <1>5 DEF RunningOn
    <2>2. w \notin RunningOn(k)'
        BY <1>5 DEF RunningOn
    <2> QED BY <1>6, <2>1, <2>2
<1>8. Running(k) # None /\ Running(k)' = None
    <2>1. Running(k) = IF RunningOn(k) = {} THEN None ELSE job[CHOOSE v \in RunningOn(k) : TRUE]
        BY DEF Running, RunningOn
    <2>2. (CHOOSE v \in {w} : TRUE) = w
        OBVIOUS
    <2>3. Running(k) = job[w]
        BY <1>6, <2>1, <2>2
    <2>4. Running(k)' = None
        BY <1>7 DEF Running, RunningOn
    <2> QED BY <1>4, <2>3, <2>4, NoneAssumption
<1>9. \A l \in Key \ {k} : Running(l)' = Running(l)
    <2>1. ASSUME NEW l \in Key \ {k} PROVE RunningOn(l)' = RunningOn(l) /\ w \notin RunningOn(l)
        BY <1>2, <1>3, <1>5 DEF RunningOn
    <2>2. ASSUME NEW l \in Key \ {k} PROVE \A v \in RunningOn(l) : job'[v] = job[v]
        BY <1>5, <2>1 DEF RunningOn
    <2> QED BY <2>1, <2>2, RunningKept
<1>10. /\ Runs[k] # None /\ Runs' = [Runs EXCEPT ![k] = None]
       /\ Submitted' = Submitted
    <2>1. Submitted' = Submitted
        BY <1>1, <1>2, <1>4 DEF Submitted, TypeOK, Serialized
    <2>2. Runs[k] # None
        BY <1>8 DEF Runs
    <2>3. Runs' = [Runs EXCEPT ![k] = None]
        <3>1. Runs' = [l \in Key |-> Running(l)']
            BY DEF Runs
        <3>2. \A l \in Key : Running(l)' = IF l = k THEN None ELSE Running(l)
            BY <1>8, <1>9
        <3> QED BY <3>1, <3>2 DEF Runs
    <2> QED BY <2>1, <2>2, <2>3
<1>11. Serial!Finish(k)
    BY <1>2, <1>10 DEF Serial!Finish, Submitted, Runs
<1> QED BY <1>11

\* All the other steps are not seen: they run no task of a key.
LEMMA OthersStutter ==
    ASSUME IInv,
           \/ \E t \in Task : CheckShutdown(t) \/ ThreadPoolExecute(t)
           \/ \E t \in Task, i \in 0..Len(schedulerQueue) : ThreadPoolScheduleAbsoluteMs(t, i)
           \/ MaintQueueStop \/ DestroyQueueStop
           \/ \E n \in 1..MaxThreads : MaintShrink(n)
           \/ DestroyBegin \/ DestroyCount \/ WalkThreads \/ UNCHANGED vars
    PROVE  UNCHANGED Serial!vars
<1>1. UNCHANGED <<pc, job, key, serialQueue>>
    BY WalkKeeps DEF CheckShutdown, ThreadPoolExecute, ThreadPoolScheduleAbsoluteMs, MaintQueueStop,
           DestroyQueueStop, MaintShrink, DestroyBegin, DestroyCount, vars,
           workerVars, serialVars
<1>2. \A t \in Task : call'[t] \in Serialized <=> call[t] \in Serialized
    <2>1. \/ UNCHANGED call
          \/ \E t \in Task, p \in {"checked", "queued", "scheduled"} :
                 call[t] \in {"new", "checked"} /\ call' = [call EXCEPT ![t] = p]
        BY WalkKeeps DEF CheckShutdown, ThreadPoolExecute, ThreadPoolScheduleAbsoluteMs, MaintQueueStop,
               DestroyQueueStop, MaintShrink, DestroyBegin, DestroyCount, vars
    <2> QED BY <2>1 DEF IInv, TypeOK, Serialized
<1> QED BY <1>1, <1>2, Stutters

\* The steps of the maintenance thread that start workers or queue what is due.
LEMMA MaintStutters ==
    ASSUME IInv,
           \/ \E new \in NewThreads : MaintGrow(new)
           \/ \E n \in 0..Len(schedulerQueue) : MaintSchedule(n)
    PROVE  UNCHANGED Serial!vars
<1>1. TypeOK
    BY DEF IInv
<1>2. ASSUME NEW new \in NewThreads, MaintGrow(new) PROVE UNCHANGED Serial!vars
    <2>1. \A w \in new : pc[w] = "free"
        BY DEF NewThreads, Free
    <2>2. /\ pc' = [w \in Thread |-> IF w \in new THEN "get" ELSE pc[w]]
          /\ UNCHANGED <<job, key, serialQueue, call>>
        BY <1>2 DEF MaintGrow, serialVars
    <2>3. \A v \in Thread : pc'[v] = "runserial" <=> pc[v] = "runserial"
        BY <2>1, <2>2
    <2> QED BY <2>2, <2>3, Stutters
<1>3. ASSUME NEW n \in 0..Len(schedulerQueue), MaintSchedule(n) PROVE UNCHANGED Serial!vars
    <2>1. /\ call' = [t \in Task |-> IF \E i \in 1..n : schedulerQueue[i] = t THEN "queued" ELSE call[t]]
          /\ UNCHANGED <<pc, job, key, serialQueue>>
        BY <1>3 DEF MaintSchedule, serialVars, workerVars
    <2>2. \A i \in 1..n : call[schedulerQueue[i]] \in Plain
        <3>1. Len(schedulerQueue) \in Nat
            BY <1>1, LenProperties DEF TypeOK
        <3> QED BY <3>1 DEF IInv, PlainTasks
    <2>3. \A t \in Task : call'[t] \in Serialized <=> call[t] \in Serialized
        BY <2>1, <2>2 DEF Plain, Serialized
    <2> QED BY <2>1, <2>3, Stutters
<1> QED BY <1>2, <1>3

\* The steps of a worker outside ProcessSerializedRequests.
LEMMA WorkerStutters ==
    ASSUME IInv, NEW w \in Thread,
           \/ WorkerTake(w) \/ WorkerUnregister(w) \/ WorkerQueueJoin(w)
           \/ WorkerEnd(w) \/ JoinWorkerThread(w) \/ WorkerRun(w)
    PROVE  UNCHANGED Serial!vars
<1>1. TypeOK
    BY DEF IInv
<1>2. CASE WorkerTake(w)
    <2>1. /\ pc[w] = "get" /\ \E p \in {"leaving", "unregister", "join", "run", "serial"} : pc' = [pc EXCEPT ![w] = p]
          /\ \E j : job' = [job EXCEPT ![w] = j]
          /\ \E k : key' = [key EXCEPT ![w] = k]
          /\ UNCHANGED <<serialQueue, call>>
        <3>1. /\ pc[w] = "get" /\ UNCHANGED <<serialQueue, call>>
              /\ \E j : job' = [job EXCEPT ![w] = j]
              /\ \E k : key' = [key EXCEPT ![w] = k]
            BY <1>2 DEF WorkerTake, serialVars
        <3>2. \E p \in {"leaving", "unregister", "join", "run", "serial"} : pc' = [pc EXCEPT ![w] = p]
            BY <1>1, <1>2, TakeCases
        <3> QED BY <3>1, <3>2
    <2>2. /\ pc'[w] # "runserial"
          /\ \A v \in Thread : v # w => pc'[v] = pc[v] /\ job'[v] = job[v] /\ key'[v] = key[v]
        BY <1>1, <2>1 DEF TypeOK
    <2> QED BY <2>1, <2>2, Stutters
<1>3. CASE WorkerUnregister(w) \/ WorkerQueueJoin(w) \/ WorkerEnd(w)
    <2>1. /\ pc[w] # "runserial" /\ \E p \in {"unregistered", "leaving", "ended"} : pc' = [pc EXCEPT ![w] = p]
          /\ UNCHANGED <<serialQueue, call, job, key>>
        BY <1>3 DEF WorkerUnregister, WorkerQueueJoin, WorkerEnd, serialVars
    <2>2. \A v \in Thread : pc'[v] = "runserial" <=> pc[v] = "runserial"
        BY <1>1, <2>1 DEF TypeOK
    <2> QED BY <2>1, <2>2, Stutters
<1>4. CASE JoinWorkerThread(w)
    <2>1. /\ pc[w] = "join" /\ pc[job[w]] = "ended"
          /\ pc' = [pc EXCEPT ![w] = "get", ![job[w]] = "free"]
          /\ job' = [job EXCEPT ![w] = None] /\ UNCHANGED <<serialQueue, call, key>>
        BY <1>4 DEF JoinWorkerThread, serialVars
    <2>2. PICK x \in Thread : x = job[w]
        BY <1>1, <2>1 DEF TypeOK
    <2>3. pc[x] = "ended" /\ pc' = [pc EXCEPT ![w] = "get", ![x] = "free"]
        BY <2>1, <2>2
    <2>4. /\ \A v \in Thread : pc'[v] = "runserial" <=> pc[v] = "runserial"
          /\ \A v \in Thread : v # w => job'[v] = job[v]
        BY <1>1, <2>1, <2>3 DEF TypeOK
    <2> QED BY <2>1, <2>4, Stutters
<1>5. CASE WorkerRun(w)
    <2>1. /\ pc[w] = "run" /\ call' = [call EXCEPT ![job[w]] = "executed"]
          /\ pc' = [pc EXCEPT ![w] = "get"] /\ job' = [job EXCEPT ![w] = None]
          /\ UNCHANGED <<serialQueue, key>>
        BY <1>5 DEF WorkerRun, serialVars
    <2>2. job[w] \in Task /\ call[job[w]] \in Plain
        BY <1>1, <2>1, TasksTyped DEF IInv, PlainTasks
    <2>3. \A t \in Task : call'[t] \in Serialized <=> call[t] \in Serialized
        BY <1>1, <2>1, <2>2 DEF TypeOK, Plain, Serialized
    <2>4. /\ \A v \in Thread : pc'[v] = "runserial" <=> pc[v] = "runserial"
          /\ \A v \in Thread : v # w => job'[v] = job[v]
        BY <1>1, <2>1 DEF TypeOK
    <2> QED BY <2>1, <2>3, <2>4, Stutters
<1> QED BY <1>2, <1>3, <1>4, <1>5

\* The looks of ProcessSerializedRequests start a task or, when they find none, are not
\* seen; the queue that is removed is empty.
LEMMA SerialLooks ==
    ASSUME IInv, NEW w \in Thread, SerialGet(w) \/ SerialRecheck(w)
    PROVE  (\E k \in Key : Serial!Start(k)) \/ UNCHANGED Serial!vars
<1>1. TypeOK
    BY DEF IInv
<1>2. CASE /\ pc[w] \in {"serial", "recheck"} /\ serialQueue[key[w]] # <<>> /\ TakeSerial(w)
           /\ UNCHANGED <<key, call>>
    BY <1>2, TakeSerialStarts
<1>3. CASE /\ pc[w] = "serial" /\ pc' = [pc EXCEPT ![w] = "recheck"]
           /\ UNCHANGED <<job, serialQueue, key, call>>
    <2>1. \A v \in Thread : pc'[v] = "runserial" <=> pc[v] = "runserial"
        BY <1>1, <1>3 DEF TypeOK
    <2> QED BY <1>3, <2>1, Stutters
<1>4. CASE /\ pc[w] = "recheck" /\ serialQueue[key[w]] = <<>> /\ RemoveKey(w)
           /\ UNCHANGED <<job, call>>
    <2>1. PICK k \in Key : k = key[w]
        BY <1>4, Processes DEF InSerial
    <2>2. /\ serialQueue' = [serialQueue EXCEPT ![k] = <<>>] /\ serialQueue[k] = <<>>
          /\ key' = [key EXCEPT ![w] = None] /\ pc' = [pc EXCEPT ![w] = "get"]
        BY <1>4, <2>1 DEF RemoveKey
    <2>3. serialQueue' = serialQueue
        BY <1>1, <2>2 DEF TypeOK
    <2>4. /\ \A v \in Thread : pc'[v] = "runserial" <=> pc[v] = "runserial"
          /\ \A v \in Thread : pc[v] = "runserial" => key'[v] = key[v]
        BY <1>1, <1>4, <2>2 DEF TypeOK
    <2> QED BY <1>4, <2>3, <2>4, Stutters
<1>5. \/ /\ pc[w] \in {"serial", "recheck"} /\ serialQueue[key[w]] # <<>> /\ TakeSerial(w)
         /\ UNCHANGED <<key, call>>
      \/ /\ pc[w] = "serial" /\ pc' = [pc EXCEPT ![w] = "recheck"]
         /\ UNCHANGED <<job, serialQueue, key, call>>
      \/ /\ pc[w] = "recheck" /\ serialQueue[key[w]] = <<>> /\ RemoveKey(w)
         /\ UNCHANGED <<job, call>>
    BY DEF SerialGet, SerialRecheck
<1> QED BY <1>2, <1>3, <1>4, <1>5

\* Every step is a step of the abstract specification, or not seen by it.
LEMMA NextSerial == IInv /\ [Next]_vars => [Serial!Next]_(Serial!vars)
<1> SUFFICES ASSUME IInv, [Next]_vars PROVE Serial!Next \/ UNCHANGED Serial!vars
    OBVIOUS
<1>1. ASSUME NEW t \in Task, NEW k \in Key, ThreadPoolExecuteSerialized(t, k) PROVE Serial!Next
    BY <1>1, ExecuteSerializedSubmits DEF Serial!Next
<1>2. ASSUME NEW w \in Thread, Worker(w) PROVE Serial!Next \/ UNCHANGED Serial!vars
    BY <1>2, WorkerStutters, SerialLooks, SerialRunFinishes DEF Worker, Serial!Next
<1>3. CASE Maintenance
    BY <1>3, MaintStutters, OthersStutter DEF Maintenance
<1>4. CASE \/ \E t \in Task : CheckShutdown(t) \/ ThreadPoolExecute(t)
           \/ \E t \in Task, i \in 0..Len(schedulerQueue) : ThreadPoolScheduleAbsoluteMs(t, i)
           \/ DestroyQueueStop
           \/ \E n \in 1..MaxThreads : MaintShrink(n)
           \/ DestroyBegin \/ DestroyCount \/ WalkThreads \/ Terminated \/ UNCHANGED vars
    BY <1>4, OthersStutter DEF Terminated
<1> QED BY <1>1, <1>2, <1>3, <1>4 DEF Next, Destroy

\* The pool implements SerialExecution: the tasks of a key run one at a time, in the order
\* in which they were submitted, and none is taken from the queue of its key without being
\* run, whichever workers process the key and however often its queue is removed.
THEOREM SerialRefinement == Spec => ImplementsSerialExecution
<1>1. Spec => []IInv
    BY Invariance
<1> QED BY <1>1, InitSerial, NextSerial, PTL DEF Spec, ImplementsSerialExecution, Serial!Spec

-----------------------------------------------------------------------------
(* ThreadPoolDestroy waits for what was accepted.  The invariants above do not  *)
(* say where a task is, nor how many threads are left for it.                   *)

Stopping == {"stop", "join", "walk", "deleted"}

\* A worker that has taken its last request
Gone == {"leaving", "ended"}

\* Stop requests of ThreadPoolDestroy come after the end of the maintenance thread
DestroyPhase ==
    /\ shutdownMode <=> destroyer.pc # "idle"
    /\ destroyer.pc \in Stopping => maint.pc = "ended"
    /\ ~shutdownMode => promised = {}
    /\ destroyer.pc \notin Stopping =>
          /\ \A i \in 1..Len(queue) : queue[i] # Stop
          /\ \A w \in threads : pc[w] \notin Gone

\* A registered thread has not been unregistered, another one does nothing
Registered ==
    \A w \in Thread : IF w \in threads THEN pc[w] \notin {"free", "unregistered"}
                      ELSE pc[w] \in {"free", "unregistered", "leaving", "ended"}

\* A thread that unregistered itself and asked for it is joined once, no other thread is
Joiners(w) == {v \in Thread : pc[v] = "join" /\ job[v] = w}
ToJoin(w) == Count(queue, {Request("join", w)}) + Cardinality(Joiners(w))
JoinedOnce ==
    \A w \in Thread : ToJoin(w) = IF w \notin threads /\ pc[w] \in Gone THEN 1 ELSE 0

\* Where a task and the request that processes a key are
Queued(r) == \E i \in 1..Len(queue) : queue[i] = r
AtWorker(t) == \E w \in Thread : pc[w] \in {"run", "runserial"} /\ job[w] = t
InLine(k, t) == \E i \in 1..Len(serialQueue[k]) : serialQueue[k][i] = t
Served(k) == Queued(Request("serialized", k)) \/ \E w \in Thread : pc[w] \in InSerial /\ key[w] = k

\* An accepted task is in its queue or at a worker, and the key of a promised one has a
\* request that processes it
Placed ==
    \A t \in Task :
        /\ call[t] = "queued" => AtWorker(t) \/ Queued(Request("task", t))
        /\ call[t] = "serialized" => AtWorker(t) \/ \E k \in Key : InLine(k, t)
        /\ t \in promised => /\ call[t] \in {"queued", "serialized"}
                             /\ \A k \in Key : InLine(k, t) => Served(k)

\* A request without which a promised task is not run
Due(r) == \/ \E t \in promised : r = Request("task", t)
          \/ \E t \in promised, k \in Key : r = Request("serialized", k) /\ InLine(k, t)

\* Such a request is not behind a stop request of ThreadPoolDestroy
DueFirst == \A i, j \in 1..Len(queue) : i < j /\ queue[i] = Stop => ~Due(queue[j])

\* Until a thread has taken such a stop request, one thread is not asked to stop;
\* afterwards all that is promised is at the workers
Stopped == {w \in threads : pc[w] \in Gone}
OneLeft ==
    destroyer.pc \in Stopping /\ promised # {} =>
        IF Stopped = {} THEN StopRequested < Cardinality(threads)
        ELSE \A i \in 1..Len(queue) : ~Due(queue[i])

\* Before the walk over the threads
Unwalked == destroyer.pc \notin {"walk", "deleted"} => walk = NoWalk /\ ~stale

\* The walk has left behind only threads that have ended, and comes to all the others
Walking ==
    destroyer.pc = "walk" /\ ~stale =>
        /\ \A w \in threads \cap walk.read : w \in {walk.at, walk.next} \/ pc[w] = "ended"
        /\ walk.next = None => threads \subseteq walk.read
        /\ walk.at = None => walk.next = None

\* Nobody removes an entry from the map if no thread was stopping when they were counted
Alone ==
    destroyer.pc \in Stopping /\ ~overlap =>
        ~StopUnderWay /\ ~stale /\ walk.next \in threads \cup {None}

\* The inductive invariant, besides IInv
DInv == DestroyPhase /\ Registered /\ JoinedOnce /\ Placed /\ DueFirst /\ OneLeft
        /\ Unwalked /\ Walking /\ Alone /\ DestroyWaits

-----------------------------------------------------------------------------
(* What a step does to the workers *)

\* Worker w, and no other, goes on
Goes(w, from, to) ==
    /\ pc[w] \in from /\ pc'[w] \in to
    /\ \A v \in Thread : v # w => pc'[v] = pc[v] /\ job'[v] = job[v] /\ key'[v] = key[v]

\* A worker joins another thread
Frees(w) ==
    /\ pc[w] = "join" /\ pc'[w] = "get" /\ job[w] \in Thread /\ job[w] # w
    /\ pc[job[w]] = "ended" /\ pc'[job[w]] = "free"
    /\ \A v \in Thread : v # w => job'[v] = job[v] /\ key'[v] = key[v]
    /\ \A v \in Thread : v # w /\ v # job[w] => pc'[v] = pc[v]
    /\ job'[w] = None /\ key'[w] = key[w]

\* The steps of a worker.
LEMMA WorkerSteps ==
    ASSUME IInv, NEW w \in Thread, Worker(w)
    PROVE  \/ WorkerTake(w) /\ Goes(w, {"get"}, {"leaving", "unregister", "join", "run", "serial"})
           \/ WorkerUnregister(w) /\ Goes(w, {"unregister"}, {"unregistered"})
           \/ WorkerQueueJoin(w) /\ Goes(w, {"unregistered"}, {"leaving"})
           \/ WorkerEnd(w) /\ Goes(w, {"leaving"}, {"ended"})
           \/ JoinWorkerThread(w) /\ Frees(w)
           \/ WorkerRun(w) /\ Goes(w, {"run"}, {"get"})
           \/ /\ SerialGet(w) \/ SerialRecheck(w)
              /\ Goes(w, {"serial", "recheck"}, {"runserial", "recheck", "get"})
           \/ SerialRun(w) /\ Goes(w, {"runserial"}, {"serial"})
<1>1. TypeOK
    BY DEF IInv
<1>2. CASE WorkerTake(w)
    <2>1. PICK p, j, k :
              /\ p \in {"leaving", "unregister", "join", "run", "serial"}
              /\ pc' = [pc EXCEPT ![w] = p] /\ job' = [job EXCEPT ![w] = j] /\ key' = [key EXCEPT ![w] = k]
        BY <1>2, TakeCases
    <2>2. pc[w] = "get"
        BY <1>2 DEF WorkerTake
    <2>3. /\ pc'[w] = p
          /\ \A v \in Thread : v # w => pc'[v] = pc[v] /\ job'[v] = job[v] /\ key'[v] = key[v]
        BY <1>1, <2>1 DEF TypeOK
    <2> QED BY <1>2, <2>1, <2>2, <2>3 DEF Goes
<1>3. CASE WorkerUnregister(w)
    BY <1>1, <1>3 DEF WorkerUnregister, TypeOK, Goes
<1>4. CASE WorkerQueueJoin(w)
    BY <1>1, <1>4 DEF WorkerQueueJoin, TypeOK, Goes
<1>5. CASE JoinWorkerThread(w)
    BY <1>1, <1>5 DEF JoinWorkerThread, TypeOK, Frees
<1>6. CASE WorkerRun(w)
    BY <1>1, <1>6 DEF WorkerRun, TypeOK, Goes
<1>7. CASE SerialGet(w)
    <2>1. CASE serialQueue[key[w]] # <<>>
        BY <1>1, <1>7, <2>1 DEF SerialGet, TakeSerial, TypeOK, Goes
    <2>2. CASE serialQueue[key[w]] = <<>>
        BY <1>1, <1>7, <2>2 DEF SerialGet, TypeOK, Goes
    <2> QED BY <1>7, <2>1, <2>2
<1>8. CASE SerialRecheck(w)
    <2>1. CASE serialQueue[key[w]] # <<>>
        BY <1>1, <1>8, <2>1 DEF SerialRecheck, TakeSerial, TypeOK, Goes
    <2>2. CASE serialQueue[key[w]] = <<>>
        BY <1>1, <1>8, <2>2 DEF SerialRecheck, RemoveKey, TypeOK, Goes
    <2> QED BY <1>8, <2>1, <2>2
<1>9. CASE SerialRun(w)
    BY <1>1, <1>9 DEF SerialRun, TypeOK, Goes
<1>10. CASE WorkerEnd(w)
    BY <1>1, <1>10 DEF WorkerEnd, TypeOK, Goes
<1> QED BY <1>2, <1>3, <1>4, <1>5, <1>6, <1>7, <1>8, <1>9, <1>10 DEF Worker

\* A thread that another one joins has a request to be joined.
LEMMA JoinerKnown ==
    ASSUME IInv, NEW w \in Thread, pc[w] = "join"
    PROVE  job[w] \in Thread /\ ToJoin(job[w]) # 0
<1>1. job[w] \in Thread /\ queue \in Seq(Requests)
    BY DEF IInv, TypeOK
<1>2. PICK j \in Thread : j = job[w]
    BY <1>1
<1>3. IsFiniteSet(Joiners(j)) /\ w \in Joiners(j)
    <2>1. Joiners(j) \in SUBSET Thread
        BY DEF Joiners
    <2> QED BY <1>2, <2>1, SizeAssumption, FS_Subset DEF Joiners
<1>4. Cardinality(Joiners(j)) \in Nat /\ Cardinality(Joiners(j)) # 0
    BY <1>3, FS_EmptySet, FS_CardinalityType
<1>5. Count(queue, {Request("join", j)}) \in Nat
    BY <1>1, CountType
<1> QED BY <1>1, <1>2, <1>4, <1>5 DEF ToJoin

\* The steps of the others: only new threads are a change to the workers.
LEMMA OtherSteps ==
    ASSUME IInv, [Next]_vars
    PROVE  \/ \E w \in Thread : Worker(w)
           \/ \E new \in NewThreads : MaintGrow(new)
           \/ UNCHANGED <<pc, job, key, threads>>
<1>1. CASE UNCHANGED vars
    BY <1>1 DEF vars
<1>2. CASE \E t \in Task : CheckShutdown(t) \/ ThreadPoolExecute(t)
    BY <1>2 DEF CheckShutdown, ThreadPoolExecute, workerVars
<1>3. CASE \E t \in Task, k \in Key : ThreadPoolExecuteSerialized(t, k)
    BY <1>3 DEF ThreadPoolExecuteSerialized, workerVars
<1>4. CASE \E t \in Task, i \in 0..Len(schedulerQueue) : ThreadPoolScheduleAbsoluteMs(t, i)
    BY <1>4 DEF ThreadPoolScheduleAbsoluteMs, workerVars
<1>5. CASE Maintenance
    BY <1>5 DEF Maintenance, MaintQueueStop, MaintSchedule, workerVars
<1>6. CASE \E n \in 1..MaxThreads : MaintShrink(n)
    BY <1>6 DEF MaintShrink, workerVars
<1>7. CASE DestroyBegin \/ DestroyCount \/ DestroyQueueStop \/ WalkThreads \/ Terminated
    BY <1>7, WalkKeeps DEF DestroyBegin, DestroyCount, DestroyQueueStop, Terminated, vars, workerVars
<1> QED BY <1>1, <1>2, <1>3, <1>4, <1>5, <1>6, <1>7 DEF Next, Destroy

\* What MaintGrow does to the workers.
LEMMA GrowSteps ==
    ASSUME NEW new \in NewThreads, MaintGrow(new)
    PROVE  /\ threads' = threads \cup new /\ maint.pc = "wait"
           /\ UNCHANGED <<queue, serialVars, job, key, shutdownMode, destroyer, call, promised>>
           /\ \A w \in new : w \in Thread /\ pc[w] = "free" /\ pc'[w] = "get"
           /\ \A w \in Thread \ new : pc'[w] = pc[w]
BY DEF MaintGrow, NewThreads, Free

\* Threads are registered until they unregister themselves, and freed after that.
LEMMA RegisteredStep ==
    ASSUME IInv, Registered, JoinedOnce, [Next]_vars
    PROVE  Registered'
<1>1. ASSUME NEW w \in Thread, Worker(w) PROVE Registered'
    <2>1. CASE WorkerUnregister(w) /\ Goes(w, {"unregister"}, {"unregistered"})
        BY <2>1 DEF Registered, Goes, WorkerUnregister
    <2>2. CASE WorkerQueueJoin(w) /\ Goes(w, {"unregistered"}, {"leaving"})
        BY <2>2 DEF Registered, Goes, WorkerQueueJoin
    <2>3. CASE JoinWorkerThread(w) /\ Frees(w)
        <3>1. job[w] \notin threads
            BY <2>3, JoinerKnown DEF JoinedOnce, Gone, Frees
        <3> QED BY <2>3, <3>1 DEF Registered, Frees, JoinWorkerThread
    <2>4. CASE WorkerTake(w) /\ Goes(w, {"get"}, {"leaving", "unregister", "join", "run", "serial"})
        BY <2>4 DEF Registered, Goes, WorkerTake
    <2>5. CASE WorkerRun(w) /\ Goes(w, {"run"}, {"get"})
        BY <2>5 DEF Registered, Goes, WorkerRun
    <2>6. CASE /\ SerialGet(w) \/ SerialRecheck(w)
               /\ Goes(w, {"serial", "recheck"}, {"runserial", "recheck", "get"})
        BY <2>6 DEF Registered, Goes, SerialGet, SerialRecheck
    <2>7. CASE SerialRun(w) /\ Goes(w, {"runserial"}, {"serial"})
        BY <2>7 DEF Registered, Goes, SerialRun
    <2>8. CASE WorkerEnd(w) /\ Goes(w, {"leaving"}, {"ended"})
        BY <2>8 DEF Registered, Goes, WorkerEnd
    <2> QED BY <1>1, <2>1, <2>2, <2>3, <2>4, <2>5, <2>6, <2>7, <2>8, WorkerSteps
<1>2. ASSUME NEW new \in NewThreads, MaintGrow(new) PROVE Registered'
    BY <1>2, GrowSteps DEF Registered
<1>3. CASE UNCHANGED <<pc, job, key, threads>>
    BY <1>3 DEF Registered
<1> QED BY <1>1, <1>2, <1>3, OtherSteps

-----------------------------------------------------------------------------
(* What a step does to the queue *)

\* Sequence p begins with q, and goes on with elements of R
Extends(p, q, R) ==
    /\ Len(q) <= Len(p)
    /\ \A i \in 1..Len(q) : p[i] = q[i]
    /\ \A i \in 1..Len(p) : i > Len(q) => p[i] \in R

\* What is queued: stop requests by ThreadPoolDestroy and by the maintenance thread, and
\* nothing that is due when the maintenance thread has ended
NewRequests == {r \in Requests :
    /\ r = Stop => destroyer.pc = "stop"
    /\ r = Unregister => maint.pc = "shrink"
    /\ Due(r) => maint.pc # "ended"
    /\ \A w \in Thread : r # Request("join", w)}

\* A longer queue begins with the shorter one.
LEMMA AppendExtends ==
    ASSUME NEW S, NEW q \in Seq(S), NEW r \in S, NEW R, r \in R
    PROVE  Extends(Append(q, r), q, R) /\ Append(q, r) \in Seq(S)
<1>1. PICK p : p = Append(q, r)
    OBVIOUS
<1>2. /\ p \in Seq(S) /\ Len(q) \in Nat /\ Len(p) = Len(q) + 1
      /\ \A i \in 1..Len(q) : p[i] = q[i]
      /\ p[Len(q) + 1] = r
    BY <1>1, AppendProperties, LenProperties
<1>3. \A i \in 1..Len(p) : i > Len(q) => i = Len(q) + 1
    BY <1>2
<1>4. Extends(p, q, R)
    BY <1>2, <1>3 DEF Extends
<1> QED BY <1>1, <1>2, <1>4

\* Unchanged, it has no new elements.
LEMMA SameExtends ==
    ASSUME NEW S, NEW q \in Seq(S), NEW R
    PROVE  Extends(q, q, R)
BY LenProperties DEF Extends

\* New requests are different from each other, and only tasks and keys can be due.
LEMMA DueCases ==
    /\ ~Due(Stop) /\ ~Due(Unregister)
    /\ \A w : ~Due(Request("join", w))
    /\ \A t : Due(Request("task", t)) => t \in promised
    /\ \A k : Due(Request("serialized", k)) => promised # {} /\ \E t \in promised : InLine(k, t)
<1>1. \A f, g, a, b : Request(f, a) = Request(g, b) => f = g /\ a = b
    BY DEF Request
<1> QED BY <1>1 DEF Due, Stop, Unregister

\* The names of the functions tell requests apart.
LEMMA RequestsDiffer ==
    /\ Stop # Unregister
    /\ \A a : Request("task", a) # Stop /\ Request("task", a) # Unregister
    /\ \A a : Request("serialized", a) # Stop /\ Request("serialized", a) # Unregister
    /\ \A a : Request("join", a) # Stop /\ Request("join", a) # Unregister
    /\ \A a, b : /\ Request("task", a) # Request("serialized", b)
                 /\ Request("task", a) # Request("join", b)
                 /\ Request("serialized", a) # Request("join", b)
    /\ \A a, b : /\ Request("task", a) = Request("task", b) => a = b
                 /\ Request("serialized", a) = Request("serialized", b) => a = b
                 /\ Request("join", a) = Request("join", b) => a = b
<1>1. \A f, g, a, b : Request(f, a) = Request(g, b) => f = g /\ a = b
    BY DEF Request
<1> QED BY <1>1 DEF Stop, Unregister

\* A step takes the head of the queue, adds requests, or leaves it alone.
LEMMA QueueSteps ==
    ASSUME IInv, DestroyPhase, Placed, [Next]_vars
    PROVE  \/ \E w \in Thread : WorkerTake(w)
           \/ \E w \in Thread : WorkerQueueJoin(w)
           \/ Extends(queue', queue, NewRequests)
<1>1. queue \in Seq(Requests) /\ Extends(queue, queue, NewRequests)
    BY SameExtends DEF IInv, TypeOK
<1>2. CASE UNCHANGED queue
    BY <1>1, <1>2
<1>3. ASSUME NEW t \in Task, ThreadPoolExecute(t) PROVE Extends(queue', queue, NewRequests)
    <2>1. t \notin promised
        BY <1>3 DEF ThreadPoolExecute, Placed
    <2>2. Request("task", t) \in NewRequests
        BY <2>1, DueCases, RequestsDiffer, RequestsTyped DEF NewRequests
    <2> QED BY <1>1, <1>3, <2>2, AppendExtends, RequestsTyped DEF ThreadPoolExecute
<1>4. ASSUME NEW t \in Task, NEW k \in Key, ThreadPoolExecuteSerialized(t, k)
      PROVE  Extends(queue', queue, NewRequests)
    <2>1. CASE k \in serialKeys \/ shutdownMode
        BY <1>1, <1>4, <2>1 DEF ThreadPoolExecuteSerialized
    <2>2. CASE ~(k \in serialKeys \/ shutdownMode)
        <3>1. promised = {} /\ queue' = Append(queue, Request("serialized", k))
            BY <1>4, <2>2 DEF DestroyPhase, ThreadPoolExecuteSerialized
        <3>2. Request("serialized", k) \in NewRequests
            BY <3>1, DueCases, RequestsDiffer, RequestsTyped DEF NewRequests
        <3> QED BY <1>1, <3>1, <3>2, AppendExtends, RequestsTyped
    <2> QED BY <2>1, <2>2
<1>5. CASE MaintQueueStop
    <2>1. Unregister \in NewRequests
        BY <1>5, DueCases, RequestsDiffer, RequestsTyped DEF NewRequests, MaintQueueStop
    <2> QED BY <1>1, <1>5, <2>1, AppendExtends, RequestsTyped DEF MaintQueueStop
<1>6. CASE DestroyQueueStop
    <2>1. Stop \in NewRequests
        BY <1>6, DueCases, RequestsDiffer, RequestsTyped DEF NewRequests, DestroyQueueStop
    <2> QED BY <1>1, <1>6, <2>1, AppendExtends, RequestsTyped DEF DestroyQueueStop
<1>7. ASSUME NEW n \in 0..Len(schedulerQueue), MaintSchedule(n) PROVE Extends(queue', queue, NewRequests)
    <2> DEFINE u == [i \in 1..n |-> Request("task", schedulerQueue[i])]
    <2>1. /\ schedulerQueue \in Seq(Task) /\ n \in Nat /\ maint.pc # "ended"
          /\ \A i \in 1..n : schedulerQueue[i] \in Task
        BY <1>7, LenProperties, ElementOfSeq DEF IInv, TypeOK, MaintSchedule
    <2>2. \A i \in 1..n : u[i] \in Requests /\ u[i] \in NewRequests
        BY <2>1, DueCases, RequestsDiffer, RequestsTyped DEF NewRequests
    <2>3. u \in Seq(Requests) /\ Len(u) = n
        BY <2>1, <2>2
    <2>4. queue' = queue \o u
        BY <1>7 DEF MaintSchedule
    <2> HIDE DEF u
    <2>5. PICK q : q = queue \o u
        OBVIOUS
    <2>6. /\ Len(q) = Len(queue) + n /\ Len(queue) \in Nat
          /\ \A i \in 1..Len(q) : q[i] = IF i <= Len(queue) THEN queue[i] ELSE u[i - Len(queue)]
        BY <1>1, <2>3, <2>5, ConcatElements
    <2>7. \A i \in 1..Len(q) : i > Len(queue) => i - Len(queue) \in 1..n
        BY <2>1, <2>6
    <2>8. \A i \in 1..Len(queue) : i \in 1..Len(q) /\ i <= Len(queue)
        BY <2>1, <2>6
    <2>9. \A i \in 1..Len(q) : i > Len(queue) => q[i] \in NewRequests
        BY <2>2, <2>6, <2>7
    <2> QED BY <2>1, <2>4, <2>5, <2>6, <2>8, <2>9 DEF Extends
<1>8. ASSUME NEW w \in Thread, Worker(w)
      PROVE  WorkerTake(w) \/ WorkerQueueJoin(w) \/ UNCHANGED queue
    BY <1>8 DEF Worker, WorkerUnregister, WorkerEnd, JoinWorkerThread, WorkerRun, SerialGet, SerialRecheck, SerialRun
<1>9. CASE \E t \in Task : CheckShutdown(t)
    BY <1>2, <1>9 DEF CheckShutdown
<1>10. CASE \E t \in Task, i \in 0..Len(schedulerQueue) : ThreadPoolScheduleAbsoluteMs(t, i)
    BY <1>2, <1>10 DEF ThreadPoolScheduleAbsoluteMs
<1>11. CASE Maintenance
    BY <1>2, <1>5, <1>7, <1>11, GrowSteps DEF Maintenance
<1>12. CASE \/ \E n \in 1..MaxThreads : MaintShrink(n)
            \/ DestroyBegin \/ DestroyCount \/ WalkThreads \/ Terminated \/ UNCHANGED vars
    BY <1>2, <1>12, WalkKeeps DEF MaintShrink, DestroyBegin, DestroyCount, Terminated, vars
<1> QED BY <1>2, <1>3, <1>4, <1>6, <1>8, <1>9, <1>10, <1>11, <1>12 DEF Next, Destroy

\* Requests that are not added are as many as before.
LEMMA CountExtended ==
    ASSUME NEW q \in Seq(Requests), NEW p \in Seq(Requests), NEW R, NEW P, Extends(p, q, R), R \cap P = {}
    PROVE  Count(p, P) = Count(q, P)
<1>1. Len(p) \in Nat /\ Len(q) \in Nat
    BY LenProperties
<1>2. At(p, P) = At(q, P)
    BY <1>1 DEF Extends, At
<1> QED BY <1>2 DEF Count

\* The workers that join a thread are finitely many; when one worker begins or ends to
\* join it, their number changes by one.
LEMMA JoinersMove ==
    ASSUME NEW j, NEW w \in Thread, \A v \in Thread \ {w} : v \in Joiners(j)' <=> v \in Joiners(j)
    PROVE  /\ Cardinality(Joiners(j)) \in Nat
           /\ w \in Joiners(j) <=> w \in Joiners(j)' => Cardinality(Joiners(j)') = Cardinality(Joiners(j))
           /\ w \in Joiners(j) /\ w \notin Joiners(j)' => Cardinality(Joiners(j)') = Cardinality(Joiners(j)) - 1
           /\ w \notin Joiners(j) /\ w \in Joiners(j)' => Cardinality(Joiners(j)') = Cardinality(Joiners(j)) + 1
<1>1. Joiners(j) \in SUBSET Thread /\ Joiners(j)' \in SUBSET Thread
    BY DEF Joiners
<1>2. /\ (w \in Joiners(j) <=> w \in Joiners(j)') => Joiners(j)' = Joiners(j)
      /\ w \in Joiners(j) /\ w \notin Joiners(j)' => Joiners(j)' = Joiners(j) \ {w}
      /\ w \notin Joiners(j) /\ w \in Joiners(j)' => Joiners(j)' = Joiners(j) \cup {w}
    BY <1>1
<1>3. IsFiniteSet(Joiners(j)) /\ Cardinality(Joiners(j)) \in Nat
    BY <1>1, SizeAssumption, FS_Subset, FS_CardinalityType
<1> QED BY <1>2, <1>3, FS_AddElement, FS_RemoveElement

\* A thread that ends is joined once.
LEMMA JoinedOnceStep ==
    ASSUME IInv, IInv', DestroyPhase, Registered, JoinedOnce, Placed, [Next]_vars
    PROVE  JoinedOnce'
<1>1. queue \in Seq(Requests) /\ queue' \in Seq(Requests)
    BY DEF IInv, TypeOK
<1>2. \A j \in Thread : Count(queue, {Request("join", j)}) \in Nat /\ Count(queue', {Request("join", j)}) \in Nat
    BY <1>1, CountType
<1>3. ASSUME Extends(queue', queue, NewRequests), NEW j \in Thread
      PROVE  Count(queue', {Request("join", j)}) = Count(queue, {Request("join", j)})
    <2>1. NewRequests \cap {Request("join", j)} = {}
        BY DEF NewRequests
    <2> QED BY <1>1, <1>3, <2>1, CountExtended
<1>4. CASE UNCHANGED <<pc, job, key, threads>> /\ Extends(queue', queue, NewRequests)
    BY <1>3, <1>4 DEF JoinedOnce, ToJoin, Joiners
<1>5. ASSUME NEW new \in NewThreads, MaintGrow(new) PROVE JoinedOnce'
    <2>1. \A j \in Thread : Joiners(j)' = Joiners(j)
        BY <1>5, GrowSteps DEF Joiners
    <2>2. \A j \in Thread : ToJoin(j)' = ToJoin(j)
        BY <1>5, <2>1, GrowSteps DEF ToJoin
    <2> QED BY <1>5, <2>2, GrowSteps DEF JoinedOnce, Gone, Registered
<1>6. ASSUME NEW w \in Thread, Worker(w) PROVE JoinedOnce'
    <2> DEFINE Q(j) == Count(queue, {Request("join", j)})
    <2>1. CASE WorkerTake(w) /\ Goes(w, {"get"}, {"leaving", "unregister", "join", "run", "serial"})
        <3>1. queue # <<>> /\ queue' = Tail(queue) /\ UNCHANGED threads
            BY <2>1 DEF WorkerTake
        <3>2. w \in threads
            BY <2>1 DEF Registered, Goes
        <3>3. ASSUME NEW j \in Thread PROVE ToJoin(j)' = ToJoin(j)
            <4>1. Q(j) = Count(queue', {Request("join", j)}) + IF Head(queue) = Request("join", j) THEN 1 ELSE 0
                BY <1>1, <3>1, CountTail
            <4>2. w \notin Joiners(j) /\ \A v \in Thread \ {w} : v \in Joiners(j)' <=> v \in Joiners(j)
                BY <2>1 DEF Joiners, Goes
            <4>3. w \in Joiners(j)' <=> Head(queue) = Request("join", j)
                <5>1. \/ \E i \in Thread : /\ Head(queue) = Request("join", i)
                                          /\ pc' = [pc EXCEPT ![w] = "join"] /\ job' = [job EXCEPT ![w] = i]
                      \/ /\ \A i : Head(queue) # Request("join", i)
                         /\ \E p \in {"leaving", "unregister", "run", "serial"} : pc' = [pc EXCEPT ![w] = p]
                    BY <2>1, TakeCases, RequestsDiffer
                <5>2. CASE \E i \in Thread : /\ Head(queue) = Request("join", i)
                                            /\ pc' = [pc EXCEPT ![w] = "join"] /\ job' = [job EXCEPT ![w] = i]
                    <6>1. PICK i \in Thread : /\ Head(queue) = Request("join", i)
                                              /\ pc' = [pc EXCEPT ![w] = "join"] /\ job' = [job EXCEPT ![w] = i]
                        BY <5>2
                    <6>2. pc'[w] = "join" /\ job'[w] = i
                        BY <6>1 DEF IInv, TypeOK
                    <6> QED BY <6>1, <6>2, RequestsDiffer DEF Joiners
                <5>3. CASE /\ \A i : Head(queue) # Request("join", i)
                           /\ \E p \in {"leaving", "unregister", "run", "serial"} : pc' = [pc EXCEPT ![w] = p]
                    <6>1. pc'[w] # "join"
                        BY <5>3 DEF IInv, TypeOK
                    <6> QED BY <5>3, <6>1 DEF Joiners
                <5> QED BY <5>1, <5>2, <5>3
            <4> QED BY <1>2, <4>1, <4>2, <4>3, JoinersMove DEF ToJoin
        <3> QED BY <2>1, <3>1, <3>2, <3>3 DEF JoinedOnce, Gone, Goes
    <2>2. CASE WorkerQueueJoin(w) /\ Goes(w, {"unregistered"}, {"leaving"})
        <3>1. queue' = Append(queue, Request("join", w)) /\ UNCHANGED <<threads, job>> /\ w \notin threads
            BY <2>2 DEF WorkerQueueJoin, Registered, Goes
        <3>2. \A j \in Thread : Joiners(j)' = Joiners(j)
            BY <2>2, <3>1 DEF Joiners, Goes
        <3>3. \A j \in Thread : Count(queue', {Request("join", j)}) = Q(j) + IF j = w THEN 1 ELSE 0
            <4> TAKE j \in Thread
            <4>1. Request("join", w) \in {Request("join", j)} <=> j = w
                BY RequestsDiffer
            <4> QED BY <1>1, <3>1, <4>1, CountAppend, RequestsTyped
        <3>4. \A j \in Thread : ToJoin(j)' = ToJoin(j) + IF j = w THEN 1 ELSE 0
            <4> TAKE j \in Thread
            <4>1. Cardinality(Joiners(j)) \in Nat
                BY <3>2, JoinersMove
            <4> QED BY <1>2, <3>2, <3>3, <4>1 DEF ToJoin
        <3> QED BY <2>2, <3>1, <3>4 DEF JoinedOnce, Gone, Goes
    <2>3. CASE JoinWorkerThread(w) /\ Frees(w)
        <3>1. UNCHANGED <<queue, threads>> /\ job[w] \notin threads /\ job[w] \in Thread
            BY <2>3, JoinerKnown DEF JoinedOnce, Gone, Frees, JoinWorkerThread
        <3>2. ASSUME NEW j \in Thread PROVE ToJoin(j)' = ToJoin(j) - IF j = job[w] THEN 1 ELSE 0
            <4>1. /\ w \in Joiners(j) <=> j = job[w]
                  /\ w \notin Joiners(j)' /\ \A v \in Thread \ {w} : v \in Joiners(j)' <=> v \in Joiners(j)
                BY <2>3 DEF Joiners, Frees
            <4> QED BY <1>2, <3>1, <4>1, JoinersMove DEF ToJoin
        <3> QED BY <2>3, <3>1, <3>2 DEF JoinedOnce, Gone, Frees
    <2>4. CASE /\ WorkerUnregister(w) \/ WorkerEnd(w) \/ WorkerRun(w) \/ SerialGet(w) \/ SerialRecheck(w) \/ SerialRun(w)
               /\ \/ Goes(w, {"unregister", "run", "serial", "recheck", "runserial"},
                             {"unregistered", "get", "runserial", "recheck", "serial"})
                  \/ Goes(w, {"leaving"}, {"ended"}) /\ UNCHANGED threads
        <3>1. UNCHANGED queue /\ \A v \in Thread : v # w => (v \in threads' <=> v \in threads)
            BY <2>4 DEF WorkerUnregister, WorkerEnd, WorkerRun, SerialGet, SerialRecheck, SerialRun
        <3>2. \A j \in Thread : Joiners(j)' = Joiners(j)
            BY <2>4 DEF Joiners, Goes
        <3>3. \A j \in Thread : ToJoin(j)' = ToJoin(j)
            BY <3>1, <3>2 DEF ToJoin
        <3> QED BY <2>4, <3>1, <3>3 DEF JoinedOnce, Gone, Goes
    <2> QED BY <1>6, <2>1, <2>2, <2>3, <2>4, WorkerSteps DEF Goes, WorkerEnd
<1>7. ASSUME UNCHANGED <<pc, job, key, threads>> PROVE JoinedOnce'
    <2>1. ~(\E w \in Thread : WorkerTake(w) \/ WorkerQueueJoin(w))
        <3> SUFFICES ASSUME NEW w \in Thread, WorkerTake(w) \/ WorkerQueueJoin(w) PROVE FALSE
            OBVIOUS
        <3>1. CASE WorkerTake(w)
            <4>1. PICK p \in {"leaving", "unregister", "join", "run", "serial"} : pc' = [pc EXCEPT ![w] = p]
                BY <3>1, TakeCases
            <4>2. pc'[w] = p
                BY <4>1 DEF IInv, TypeOK
            <4>3. pc[w] = "get"
                BY <3>1 DEF WorkerTake
            <4> QED BY <1>7, <4>2, <4>3
        <3>2. CASE WorkerQueueJoin(w)
            BY <1>7, <3>2 DEF WorkerQueueJoin, IInv, TypeOK
        <3> QED BY <3>1, <3>2
    <2> QED BY <1>4, <1>7, <2>1, QueueSteps
<1> QED BY <1>5, <1>6, <1>7, OtherSteps

-----------------------------------------------------------------------------
(* What a step does to the threads that ended and to those asked to stop *)

\* A registered thread ends when it takes a stop request of ThreadPoolDestroy, and stays.
LEMMA StoppedSteps ==
    ASSUME IInv, Registered, JoinedOnce, [Next]_vars
    PROVE  /\ Stopped \subseteq Stopped'
           /\ \A e \in Stopped' : e \in Stopped \/ (WorkerTake(e) /\ Head(queue) = Stop)
<1>0. threads \subseteq Thread
    BY DEF IInv, TypeOK
<1> DEFINE Goal == /\ Stopped \subseteq Stopped'
                   /\ \A e \in Stopped' : e \in Stopped \/ (WorkerTake(e) /\ Head(queue) = Stop)
<1>1. ASSUME NEW w \in Thread, Worker(w) PROVE Goal
    <2>1. CASE WorkerTake(w) /\ Goes(w, {"get"}, {"leaving", "unregister", "join", "run", "serial"})
        <3>1. pc'[w] \in Gone => Head(queue) = Stop
            <4>1. PICK p \in {"leaving", "unregister", "join", "run", "serial"} :
                      pc' = [pc EXCEPT ![w] = p] /\ (p = "leaving" => Head(queue) = Stop)
                BY <2>1, TakeCases
            <4> QED BY <4>1 DEF IInv, TypeOK, Gone
        <3> QED BY <1>0, <2>1, <3>1 DEF WorkerTake, Goes, Stopped, Gone
    <2>2. CASE WorkerUnregister(w) /\ Goes(w, {"unregister"}, {"unregistered"})
        BY <1>0, <2>2 DEF WorkerUnregister, Goes, Stopped, Gone
    <2>3. CASE WorkerQueueJoin(w) /\ Goes(w, {"unregistered"}, {"leaving"})
        BY <1>0, <2>3 DEF WorkerQueueJoin, Goes, Stopped, Gone, Registered
    <2>4. CASE JoinWorkerThread(w) /\ Frees(w)
        <3>1. job[w] \notin threads
            BY <2>4, JoinerKnown DEF JoinedOnce, Gone, Frees
        <3> QED BY <1>0, <2>4, <3>1 DEF Stopped, Gone, Frees, JoinWorkerThread
    <2>5. CASE /\ WorkerRun(w) \/ SerialGet(w) \/ SerialRecheck(w) \/ SerialRun(w)
               /\ Goes(w, {"run", "serial", "recheck", "runserial"}, {"get", "runserial", "recheck", "serial"})
        BY <1>0, <2>5 DEF WorkerRun, SerialGet, SerialRecheck, SerialRun, Goes, Stopped, Gone
    <2>6. CASE WorkerEnd(w) /\ Goes(w, {"leaving"}, {"ended"})
        BY <1>0, <2>6 DEF WorkerEnd, Goes, Stopped, Gone
    <2> QED BY <1>1, <2>1, <2>2, <2>3, <2>4, <2>5, <2>6, WorkerSteps DEF Goes
<1>2. ASSUME NEW new \in NewThreads, MaintGrow(new) PROVE Goal
    BY <1>0, <1>2, GrowSteps DEF Stopped, Gone
<1>3. CASE UNCHANGED <<pc, job, key, threads>>
    BY <1>3 DEF Stopped
<1> QED BY <1>1, <1>2, <1>3, OtherSteps

\* Registered threads that have taken a stop request of the maintenance thread
Resigning == {w \in threads : pc[w] = "unregister"}

\* Threads asked to stop, in terms of the count.
LEMMA StopCounted ==
    ASSUME NEW q \in Seq(Requests), NEW T \in SUBSET Thread, NEW L \in SUBSET Thread
    PROVE  /\ Cardinality({i \in 1..Len(q) : q[i] = Unregister}) = Count(q, {Unregister})
           /\ Count(q, {Unregister}) \in Nat
           /\ IsFiniteSet(L) /\ Cardinality(L) \in Nat
           /\ IsFiniteSet(T) /\ Cardinality(T) \in Nat
<1>1. At(q, {Unregister}) = {i \in 1..Len(q) : q[i] = Unregister}
    BY DEF At
<1>2. Cardinality({i \in 1..Len(q) : q[i] = Unregister}) = Count(q, {Unregister})
    BY <1>1 DEF Count
<1>3. Count(q, {Unregister}) \in Nat
    BY CountType
<1>4. /\ IsFiniteSet(L) /\ Cardinality(L) \in Nat
      /\ IsFiniteSet(T) /\ Cardinality(T) \in Nat
    BY SizeAssumption, FS_Subset, FS_CardinalityType
<1> QED BY <1>2, <1>3, <1>4

\* Once the maintenance thread has ended, the number of threads that are not asked to
\* stop by it does not change.
LEMMA StopSteps ==
    ASSUME IInv, IInv', DestroyPhase, Registered, JoinedOnce, Placed, [Next]_vars, maint.pc = "ended"
    PROVE  Cardinality(threads') - StopRequested' = Cardinality(threads) - StopRequested
<1>1. /\ queue \in Seq(Requests) /\ threads \in SUBSET Thread /\ Resigning \in SUBSET Thread
      /\ queue' \in Seq(Requests) /\ threads' \in SUBSET Thread /\ Resigning' \in SUBSET Thread
    BY DEF IInv, TypeOK, Resigning
<1>2. /\ StopRequested = Count(queue, {Unregister}) + Cardinality(Resigning)
      /\ Count(queue, {Unregister}) \in Nat /\ Cardinality(Resigning) \in Nat
      /\ IsFiniteSet(Resigning) /\ IsFiniteSet(threads) /\ Cardinality(threads) \in Nat
    BY <1>1, StopCounted DEF StopRequested, Resigning
<1>3. /\ StopRequested' = Count(queue', {Unregister}) + Cardinality(Resigning')
      /\ Count(queue', {Unregister}) \in Nat /\ Cardinality(Resigning') \in Nat
      /\ Cardinality(threads') \in Nat
    BY <1>1, StopCounted DEF StopRequested, Resigning
<1> DEFINE Goal == Cardinality(threads') - StopRequested' = Cardinality(threads) - StopRequested
<1>4. ASSUME Extends(queue', queue, NewRequests) PROVE Count(queue', {Unregister}) = Count(queue, {Unregister})
    <2>1. NewRequests \cap {Unregister} = {}
        BY DEF NewRequests
    <2> QED BY <1>1, <1>4, <2>1, CountExtended
<1>5. ASSUME NEW w \in Thread, WorkerTake(w), Goes(w, {"get"}, {"leaving", "unregister", "join", "run", "serial"})
      PROVE  Goal
    <2>1. queue # <<>> /\ queue' = Tail(queue) /\ UNCHANGED threads /\ w \in threads /\ w \notin Resigning
        BY <1>5 DEF WorkerTake, Registered, Goes, Resigning
    <2>2. Count(queue, {Unregister}) = Count(queue', {Unregister}) + IF Head(queue) = Unregister THEN 1 ELSE 0
        BY <1>1, <2>1, CountTail
    <2>3. Resigning' = IF Head(queue) = Unregister THEN Resigning \cup {w} ELSE Resigning
        <3>1. PICK p \in {"leaving", "unregister", "join", "run", "serial"} :
                  pc' = [pc EXCEPT ![w] = p] /\ (p = "unregister" <=> Head(queue) = Unregister)
            BY <1>5, TakeCases, RequestsDiffer
        <3>2. pc'[w] = p
            BY <3>1 DEF IInv, TypeOK
        <3>3. \A v \in threads : v # w => pc'[v] = pc[v]
            BY <1>1, <1>5 DEF Goes
        <3> QED BY <2>1, <3>1, <3>2, <3>3 DEF Resigning
    <2>4. Cardinality(Resigning') = Cardinality(Resigning) + IF Head(queue) = Unregister THEN 1 ELSE 0
        <3>1. Cardinality(Resigning \cup {w}) = Cardinality(Resigning) + 1
            BY <1>2, <2>1, FS_AddElement
        <3> QED BY <1>2, <2>3, <3>1
    <2> QED BY <1>2, <1>3, <2>1, <2>2, <2>4
<1>6. ASSUME NEW w \in Thread, WorkerUnregister(w), Goes(w, {"unregister"}, {"unregistered"}) PROVE Goal
    <2>1. UNCHANGED queue /\ threads' = threads \ {w} /\ w \in threads /\ w \in Resigning
        BY <1>6 DEF WorkerUnregister, Registered, Goes, Resigning
    <2>2. Resigning' = Resigning \ {w}
        BY <1>1, <1>6, <2>1 DEF Resigning, Goes
    <2>3. Cardinality(Resigning') = Cardinality(Resigning) - 1 /\ Cardinality(threads') = Cardinality(threads) - 1
        BY <1>2, <2>1, <2>2, FS_RemoveElement
    <2> QED BY <1>2, <1>3, <2>1, <2>3
<1>7. ASSUME NEW w \in Thread, WorkerQueueJoin(w), Goes(w, {"unregistered"}, {"leaving"}) PROVE Goal
    <2>1. queue' = Append(queue, Request("join", w)) /\ UNCHANGED threads /\ w \notin threads
        BY <1>7 DEF WorkerQueueJoin, Registered, Goes
    <2>2. Resigning' = Resigning
        BY <1>1, <1>7, <2>1 DEF Resigning, Goes
    <2>3. Count(queue', {Unregister}) = Count(queue, {Unregister})
        BY <1>1, <1>2, <2>1, CountAppend, RequestsTyped, RequestsDiffer
    <2> QED BY <1>2, <1>3, <2>1, <2>2, <2>3
<1>8. ASSUME NEW w \in Thread, JoinWorkerThread(w), Frees(w) PROVE Goal
    <2>1. UNCHANGED <<queue, threads>> /\ job[w] \notin threads
        BY <1>8, JoinerKnown DEF JoinedOnce, Gone, Frees, JoinWorkerThread
    <2>2. Resigning' = Resigning
        BY <1>1, <1>8, <2>1 DEF Resigning, Frees
    <2> QED BY <1>2, <1>3, <2>1, <2>2
<1>9. ASSUME NEW w \in Thread, WorkerEnd(w) \/ WorkerRun(w) \/ SerialGet(w) \/ SerialRecheck(w) \/ SerialRun(w),
             Goes(w, {"leaving", "run", "serial", "recheck", "runserial"},
                     {"ended", "get", "runserial", "recheck", "serial"})
      PROVE  Goal
    <2>1. UNCHANGED <<queue, threads>>
        BY <1>9 DEF WorkerEnd, WorkerRun, SerialGet, SerialRecheck, SerialRun
    <2>2. Resigning' = Resigning
        BY <1>1, <1>9, <2>1 DEF Resigning, Goes
    <2> QED BY <1>2, <1>3, <2>1, <2>2
<1>10. ASSUME NEW w \in Thread, Worker(w) PROVE Goal
    BY <1>5, <1>6, <1>7, <1>8, <1>9, <1>10, WorkerSteps DEF Goes
<1>11. ASSUME UNCHANGED <<pc, job, key, threads>>, ~\E w \in Thread : Worker(w) PROVE Goal
    <2>1. Extends(queue', queue, NewRequests)
        BY <1>11, QueueSteps DEF Worker
    <2>2. Resigning' = Resigning
        BY <1>11 DEF Resigning
    <2> QED BY <1>2, <1>3, <1>4, <1>11, <2>1, <2>2
<1> QED BY <1>10, <1>11, OtherSteps, GrowSteps

-----------------------------------------------------------------------------
(* What a step does to ThreadPoolDestroy and to what it promised *)

\* A run that ends is not promised any more
Ran(w) == WorkerRun(w) \/ SerialRun(w)

\* The steps of ThreadPoolDestroy, and what the others leave alone.
LEMMA ControlSteps ==
    ASSUME IInv, [Next]_vars
    PROVE  /\ maint.pc = "ended" => maint' = maint
           /\ \/ DestroyBegin \/ DestroyCount \/ DestroyQueueStop \/ WalkThreads
              \/ /\ UNCHANGED <<shutdownMode, destroyer, walkVars>>
                 /\ promised' = promised \/ \E w \in Thread : Ran(w) /\ promised' = promised \ {job[w]}
<1> DEFINE Goal == /\ maint.pc = "ended" => maint' = maint
                   /\ UNCHANGED <<shutdownMode, destroyer, walkVars>>
                   /\ promised' = promised \/ \E w \in Thread : Ran(w) /\ promised' = promised \ {job[w]}
<1>1. CASE UNCHANGED vars
    BY <1>1 DEF vars
<1>2. CASE \E t \in Task : CheckShutdown(t) \/ ThreadPoolExecute(t)
    BY <1>2 DEF CheckShutdown, ThreadPoolExecute, controlVars
<1>3. CASE \E t \in Task, k \in Key : ThreadPoolExecuteSerialized(t, k)
    BY <1>3 DEF ThreadPoolExecuteSerialized, controlVars
<1>4. CASE \E t \in Task, i \in 0..Len(schedulerQueue) : ThreadPoolScheduleAbsoluteMs(t, i)
    BY <1>4 DEF ThreadPoolScheduleAbsoluteMs, controlVars
<1>5. CASE Maintenance
    BY <1>5 DEF Maintenance, MaintQueueStop, MaintSchedule, MaintGrow
<1>6. CASE \E n \in 1..MaxThreads : MaintShrink(n)
    BY <1>6 DEF MaintShrink
<1>7. CASE DestroyBegin \/ DestroyCount \/ DestroyQueueStop \/ WalkThreads
    BY <1>7, WalkKeeps DEF DestroyBegin, DestroyCount, DestroyQueueStop
<1>8. CASE Terminated
    BY <1>8 DEF Terminated, vars
<1>9. ASSUME NEW w \in Thread, Worker(w) PROVE Goal
    <2>1. CASE WorkerRun(w) \/ SerialRun(w)
        BY <2>1 DEF WorkerRun, SerialRun, Ran
    <2>2. CASE WorkerTake(w) \/ WorkerUnregister(w) \/ WorkerQueueJoin(w) \/ WorkerEnd(w) \/ JoinWorkerThread(w)
        BY <2>2 DEF WorkerTake, WorkerUnregister, WorkerQueueJoin, WorkerEnd, JoinWorkerThread, controlVars
    <2>3. CASE SerialGet(w) \/ SerialRecheck(w)
        BY <2>3 DEF SerialGet, SerialRecheck, controlVars
    <2> QED BY <1>9, <2>1, <2>2, <2>3 DEF Worker
<1> QED BY <1>1, <1>2, <1>3, <1>4, <1>5, <1>6, <1>7, <1>8, <1>9 DEF Next, Destroy

\* ThreadPoolDestroy stops workers after the end of the maintenance thread, and what it
\* promised before becomes less.
LEMMA StoppingSteps ==
    ASSUME IInv, DestroyPhase, [Next]_vars
    PROVE  /\ destroyer'.pc \in Stopping => maint.pc = "ended" /\ shutdownMode
           /\ destroyer.pc \in Stopping => destroyer'.pc \in Stopping
           /\ shutdownMode => promised' \subseteq promised
           /\ ~DestroyBegin => promised' \subseteq promised
           /\ destroyer.pc \notin Stopping /\ destroyer'.pc \in Stopping => DestroyCount
           /\ destroyer'.pc = "deleted" => destroyer.pc = "deleted" \/ DestroyDelete
<1>0. destroyer \in [pc : {"idle", "joinmaint", "stop", "join", "walk", "deleted"}, left : Int]
    BY DEF IInv, TypeOK
<1>1. CASE DestroyBegin
    <2>1. destroyer'.pc = "joinmaint" /\ destroyer.pc = "idle"
        BY <1>0, <1>1 DEF DestroyBegin
    <2> QED BY <1>1, <2>1 DEF DestroyPhase, Stopping
<1>2. CASE DestroyCount
    BY <1>2 DEF DestroyCount, DestroyPhase, Stopping
<1>3. CASE DestroyQueueStop
    BY <1>3 DEF DestroyQueueStop, DestroyPhase, Stopping
<1>4. CASE WalkThreads
    BY <1>0, <1>4, WalkKeeps DEF WalkThreads, DestroyWalk, DestroyJoin, DestroyJoinStale, DestroyDelete,
                                 DestroyPhase, Stopping
<1>5. CASE /\ UNCHANGED <<shutdownMode, destroyer>>
           /\ promised' = promised \/ \E w \in Thread : Ran(w) /\ promised' = promised \ {job[w]}
    BY <1>5 DEF DestroyPhase, Stopping
<1> QED BY <1>1, <1>2, <1>3, <1>4, <1>5, ControlSteps

\* Elements of the queue after a step were there before, are new or join a thread.
LEMMA QueueElements ==
    ASSUME IInv, DestroyPhase, Placed, [Next]_vars, NEW i \in 1..Len(queue')
    PROVE  \/ \E j \in 1..Len(queue) : queue'[i] = queue[j]
           \/ queue'[i] \in NewRequests
           \/ \E w \in Thread : queue'[i] = Request("join", w)
<1>1. queue \in Seq(Requests) /\ Len(queue) \in Nat
    BY LenProperties DEF IInv, TypeOK
<1>2. ASSUME NEW w \in Thread, WorkerTake(w) PROVE \E j \in 1..Len(queue) : queue'[i] = queue[j]
    <2>1. queue # <<>> /\ queue' = Tail(queue)
        BY <1>2 DEF WorkerTake
    <2> QED BY <1>1, <2>1, TailElements
<1>3. ASSUME NEW w \in Thread, WorkerQueueJoin(w)
      PROVE  queue'[i] = Request("join", w) \/ \E j \in 1..Len(queue) : queue'[i] = queue[j]
    <2>1. queue' = Append(queue, Request("join", w))
        BY <1>3 DEF WorkerQueueJoin
    <2> QED BY <1>1, <2>1, AppendElements, RequestsTyped
<1>4. ASSUME Extends(queue', queue, NewRequests)
      PROVE  queue'[i] \in NewRequests \/ \E j \in 1..Len(queue) : queue'[i] = queue[j]
    <2>1. CASE i <= Len(queue)
        BY <1>1, <1>4, <2>1 DEF Extends
    <2>2. CASE ~(i <= Len(queue))
        <3>1. i > Len(queue)
            BY <1>1, <2>2
        <3> QED BY <1>4, <3>1 DEF Extends
    <2> QED BY <2>1, <2>2
<1> QED BY <1>2, <1>3, <1>4, QueueSteps

\* The phases of ThreadPoolDestroy.
LEMMA DestroyPhaseStep ==
    ASSUME IInv, DestroyPhase, Registered, JoinedOnce, Placed, [Next]_vars
    PROVE  DestroyPhase'
<1>0. destroyer \in [pc : {"idle", "joinmaint", "stop", "join", "walk", "deleted"}, left : Int]
    BY DEF IInv, TypeOK
<1>1. shutdownMode' <=> destroyer'.pc # "idle"
    <2>1. CASE DestroyBegin
        BY <1>0, <2>1 DEF DestroyBegin
    <2>2. CASE DestroyCount \/ DestroyQueueStop \/ WalkThreads
        BY <1>0, <2>2 DEF DestroyCount, DestroyQueueStop, WalkThreads, DestroyWalk, DestroyJoin,
                          DestroyJoinStale, DestroyDelete, DestroyPhase
    <2>3. CASE UNCHANGED <<shutdownMode, destroyer>>
        BY <2>3 DEF DestroyPhase
    <2> QED BY <2>1, <2>2, <2>3, ControlSteps
<1>2. destroyer'.pc \in Stopping => maint'.pc = "ended"
    BY StoppingSteps, ControlSteps
<1>3. ~shutdownMode' => promised' = {}
    <2>1. CASE DestroyBegin
        BY <2>1 DEF DestroyBegin
    <2>2. CASE ~DestroyBegin
        <3>1. shutdownMode => shutdownMode'
            BY ControlSteps, WalkKeeps DEF DestroyBegin, DestroyCount, DestroyQueueStop
        <3> QED BY <2>2, <3>1, StoppingSteps DEF DestroyPhase
    <2> QED BY <2>1, <2>2
<1>4. ASSUME destroyer'.pc \notin Stopping, NEW i \in 1..Len(queue') PROVE queue'[i] # Stop
    <2>1. destroyer.pc \notin Stopping /\ destroyer.pc # "stop"
        BY <1>4, StoppingSteps DEF Stopping
    <2> QED BY <2>1, QueueElements, RequestsDiffer DEF DestroyPhase, NewRequests
<1>5. ASSUME destroyer'.pc \notin Stopping, NEW w \in threads', pc'[w] \in Gone PROVE FALSE
    <2>1. destroyer.pc \notin Stopping
        BY <1>5, StoppingSteps
    <2>2. w \in Stopped'
        BY <1>5 DEF Stopped
    <2>3. w \notin Stopped
        BY <2>1 DEF Stopped, DestroyPhase
    <2>4. WorkerTake(w) /\ Head(queue) = Stop
        BY <2>2, <2>3, StoppedSteps
    <2>5. \E j \in 1..Len(queue) : queue[j] = Stop
        <3>1. queue # <<>> /\ queue \in Seq(Requests)
            BY <2>4 DEF WorkerTake, IInv, TypeOK
        <3> QED BY <2>4, <3>1, TailElements
    <2> QED BY <2>1, <2>5 DEF DestroyPhase
<1> QED BY <1>1, <1>2, <1>3, <1>4, <1>5 DEF DestroyPhase

-----------------------------------------------------------------------------
(* Tasks and keys keep their places *)

\* A request stays in the queue until a worker takes it.
LEMMA QueuedKept ==
    ASSUME IInv, DestroyPhase, Placed, [Next]_vars, NEW r, Queued(r)
    PROVE  Queued(r)' \/ \E w \in Thread : WorkerTake(w) /\ Head(queue) = r
<1>1. queue \in Seq(Requests) /\ Len(queue) \in Nat
    BY LenProperties DEF IInv, TypeOK
<1>2. PICK i \in 1..Len(queue) : queue[i] = r
    BY DEF Queued
<1>3. ASSUME NEW w \in Thread, WorkerTake(w) PROVE Head(queue) = r \/ Queued(r)'
    <2>1. queue # <<>> /\ queue' = Tail(queue)
        BY <1>3 DEF WorkerTake
    <2>2. /\ Len(queue') = Len(queue) - 1 /\ Head(queue) = queue[1]
          /\ \A j \in 1..Len(queue') : queue'[j] = queue[j + 1]
        BY <1>1, <2>1, HeadTailProperties
    <2>3. CASE i # 1
        <3>1. i - 1 \in 1..Len(queue') /\ (i - 1) + 1 = i
            BY <1>1, <2>2, <2>3
        <3>2. queue'[i - 1] = r
            BY <1>2, <2>2, <3>1
        <3> QED BY <3>1, <3>2 DEF Queued
    <2> QED BY <1>2, <2>2, <2>3
<1>4. ASSUME NEW w \in Thread, WorkerQueueJoin(w) PROVE Queued(r)'
    <2>1. queue' = Append(queue, Request("join", w))
        BY <1>4 DEF WorkerQueueJoin
    <2>2. Len(queue') = Len(queue) + 1 /\ queue'[i] = queue[i]
        BY <1>1, <2>1, AppendProperties, RequestsTyped
    <2>3. i \in 1..Len(queue')
        BY <1>1, <2>2
    <2> QED BY <1>2, <2>2, <2>3 DEF Queued
<1>5. ASSUME Extends(queue', queue, NewRequests) PROVE Queued(r)'
    <2>1. i \in 1..Len(queue') /\ queue'[i] = queue[i]
        BY <1>1, <1>5 DEF Extends
    <2> QED BY <1>2, <2>1 DEF Queued
<1> QED BY <1>3, <1>4, <1>5, QueueSteps

\* A task stays at its worker until its run ends.
LEMMA AtWorkerKept ==
    ASSUME IInv, [Next]_vars, NEW t, AtWorker(t)
    PROVE  AtWorker(t)' \/ \E w \in Thread : Ran(w) /\ job[w] = t
<1>1. PICK v \in Thread : pc[v] \in {"run", "runserial"} /\ job[v] = t
    BY DEF AtWorker
<1>2. ASSUME NEW w \in Thread, Worker(w) PROVE AtWorker(t)' \/ (Ran(w) /\ job[w] = t)
    <2>1. CASE \E from, to : Goes(w, from, to) /\ v # w
        BY <1>1, <2>1 DEF Goes, AtWorker
    <2>2. CASE Frees(w)
        BY <1>1, <2>2 DEF Frees, AtWorker
    <2>3. CASE v = w /\ Ran(w)
        BY <1>1, <2>3
    <2>4. CASE v = w /\ ~Ran(w)
        BY <1>1, <1>2, <2>2, <2>4, WorkerSteps DEF Goes, Ran
    <2> QED BY <1>2, <2>1, <2>2, <2>3, <2>4, WorkerSteps
<1>3. ASSUME NEW new \in NewThreads, MaintGrow(new) PROVE AtWorker(t)'
    BY <1>1, <1>3, GrowSteps DEF AtWorker
<1>4. CASE UNCHANGED <<pc, job, key, threads>>
    BY <1>1, <1>4 DEF AtWorker
<1> QED BY <1>2, <1>3, <1>4, OtherSteps

\* The steps that change the queues of keys: a key without a queue that is removed had no
\* waiting task.
LEMMA LineSteps ==
    ASSUME IInv, [Next]_vars
    PROVE  \/ UNCHANGED serialQueue
           \/ \E t \in Task, k \in Key : ThreadPoolExecuteSerialized(t, k)
           \/ \E w \in Thread : /\ pc[w] \in {"serial", "recheck"} /\ serialQueue[key[w]] # <<>>
                                /\ TakeSerial(w)
<1>1. CASE UNCHANGED vars
    BY <1>1 DEF vars
<1>2. CASE \E t \in Task : CheckShutdown(t) \/ ThreadPoolExecute(t)
    BY <1>2 DEF CheckShutdown, ThreadPoolExecute, serialVars
<1>3. CASE \E t \in Task, i \in 0..Len(schedulerQueue) : ThreadPoolScheduleAbsoluteMs(t, i)
    BY <1>3 DEF ThreadPoolScheduleAbsoluteMs, serialVars
<1>4. CASE Maintenance
    BY <1>4 DEF Maintenance, MaintQueueStop, MaintSchedule, MaintGrow, serialVars
<1>5. CASE \E n \in 1..MaxThreads : MaintShrink(n)
    BY <1>5 DEF MaintShrink, serialVars
<1>6. CASE DestroyBegin \/ DestroyCount \/ DestroyQueueStop \/ WalkThreads \/ Terminated
    BY <1>6, WalkKeeps DEF DestroyBegin, DestroyCount, DestroyQueueStop, Terminated, vars, serialVars
<1>7. ASSUME NEW w \in Thread, Worker(w)
      PROVE  \/ UNCHANGED serialQueue
             \/ pc[w] \in {"serial", "recheck"} /\ serialQueue[key[w]] # <<>> /\ TakeSerial(w)
    <2>1. CASE WorkerTake(w) \/ WorkerUnregister(w) \/ WorkerQueueJoin(w) \/ WorkerEnd(w) \/ JoinWorkerThread(w)
        BY <2>1 DEF WorkerTake, WorkerUnregister, WorkerQueueJoin, WorkerEnd, JoinWorkerThread, serialVars
    <2>2. CASE WorkerRun(w) \/ SerialRun(w)
        BY <2>2 DEF WorkerRun, SerialRun, serialVars
    <2>3. CASE SerialGet(w)
        BY <2>3 DEF SerialGet
    <2>4. CASE SerialRecheck(w)
        <3>1. CASE serialQueue[key[w]] # <<>>
            BY <2>4, <3>1 DEF SerialRecheck
        <3>2. CASE serialQueue[key[w]] = <<>>
            <4>1. serialQueue' = [serialQueue EXCEPT ![key[w]] = <<>>]
                BY <2>4, <3>2 DEF SerialRecheck, RemoveKey
            <4>2. serialQueue \in [Key -> Seq(Task)]
                BY DEF IInv, TypeOK
            <4> QED BY <3>2, <4>1, <4>2
        <3> QED BY <3>1, <3>2
    <2> QED BY <1>7, <2>1, <2>2, <2>3, <2>4 DEF Worker
<1> QED BY <1>1, <1>2, <1>3, <1>4, <1>5, <1>6, <1>7 DEF Next, Destroy

\* A waiting task stays in its queue until a worker takes it.
LEMMA InLineKept ==
    ASSUME IInv, [Next]_vars, NEW k \in Key, NEW t, InLine(k, t)
    PROVE  InLine(k, t)' \/ AtWorker(t)'
<1>0. /\ serialQueue \in [Key -> Seq(Task)] /\ serialQueue[k] \in Seq(Task)
      /\ Len(serialQueue[k]) \in Nat
    BY LenProperties DEF IInv, TypeOK
<1>1. PICK i \in 1..Len(serialQueue[k]) : serialQueue[k][i] = t
    BY DEF InLine
<1>2. CASE UNCHANGED serialQueue
    BY <1>1, <1>2 DEF InLine
<1>3. ASSUME NEW u \in Task, NEW l \in Key, ThreadPoolExecuteSerialized(u, l) PROVE InLine(k, t)'
    <2>1. serialQueue' = [serialQueue EXCEPT ![l] = Append(@, u)]
        BY <1>3 DEF ThreadPoolExecuteSerialized
    <2>2. serialQueue'[k] = IF k = l THEN Append(serialQueue[k], u) ELSE serialQueue[k]
        BY <1>0, <2>1
    <2>3. PICK q : q = Append(serialQueue[k], u)
        OBVIOUS
    <2>4. Len(q) = Len(serialQueue[k]) + 1 /\ q[i] = serialQueue[k][i]
        BY <1>0, <1>1, <2>3, AppendProperties
    <2>5. i \in 1..Len(q)
        BY <1>0, <2>4
    <2>6. i \in 1..Len(serialQueue'[k]) /\ serialQueue'[k][i] = t
        BY <1>1, <2>2, <2>3, <2>4, <2>5
    <2> QED BY <2>6 DEF InLine
<1>4. ASSUME NEW w \in Thread, pc[w] \in {"serial", "recheck"}, serialQueue[key[w]] # <<>>, TakeSerial(w)
      PROVE  InLine(k, t)' \/ AtWorker(t)'
    <2>1. key[w] \in Key
        BY <1>4 DEF IInv, TypeOK, InSerial
    <2>2. /\ pc'[w] = "runserial" /\ job'[w] = Head(serialQueue[key[w]])
          /\ serialQueue'[k] = IF k = key[w] THEN Tail(serialQueue[k]) ELSE serialQueue[k]
        BY <1>4, <2>1 DEF TakeSerial, IInv, TypeOK
    <2>3. CASE k # key[w]
        <3>1. serialQueue'[k] = serialQueue[k]
            BY <2>2, <2>3
        <3> QED BY <1>1, <3>1 DEF InLine
    <2>4. CASE k = key[w] /\ i = 1
        <3>1. Head(serialQueue[k]) = serialQueue[k][1]
            BY <1>0, <1>4, <2>4, HeadTailProperties
        <3> QED BY <1>1, <2>2, <2>4, <3>1 DEF AtWorker
    <2>5. CASE k = key[w] /\ i # 1
        <3>1. PICK q : q = Tail(serialQueue[k])
            OBVIOUS
        <3>2. Len(q) = Len(serialQueue[k]) - 1 /\ \A j \in 1..Len(q) : q[j] = serialQueue[k][j + 1]
            BY <1>0, <1>4, <2>5, <3>1, HeadTailProperties
        <3>3. i - 1 \in 1..Len(q) /\ (i - 1) + 1 = i
            BY <1>0, <2>5, <3>2
        <3>4. q[i - 1] = t
            BY <1>1, <3>2, <3>3
        <3>5. serialQueue'[k] = q
            BY <2>2, <2>5, <3>1
        <3> QED BY <3>3, <3>4, <3>5 DEF InLine
    <2> QED BY <2>3, <2>4, <2>5
<1> QED BY <1>2, <1>3, <1>4, LineSteps

\* A task that waits has waited before, or its call has just put it there.
LEMMA InLineBack ==
    ASSUME IInv, [Next]_vars, NEW k \in Key, NEW t \in Task, InLine(k, t)'
    PROVE  InLine(k, t) \/ call[t] = "checked"
<1>0. /\ serialQueue \in [Key -> Seq(Task)] /\ serialQueue[k] \in Seq(Task)
      /\ Len(serialQueue[k]) \in Nat
    BY LenProperties DEF IInv, TypeOK
<1>1. PICK i \in 1..Len(serialQueue'[k]) : serialQueue'[k][i] = t
    BY DEF InLine
<1>2. CASE serialQueue'[k] = serialQueue[k]
    BY <1>1, <1>2 DEF InLine
<1>3. ASSUME NEW u \in Task, NEW l \in Key, ThreadPoolExecuteSerialized(u, l)
      PROVE  InLine(k, t) \/ call[t] = "checked"
    <2>1. serialQueue' = [serialQueue EXCEPT ![l] = Append(@, u)] /\ call[u] = "checked"
        BY <1>3 DEF ThreadPoolExecuteSerialized
    <2>2. CASE k = l
        <3>1. serialQueue'[k] = Append(serialQueue[k], u)
            BY <1>0, <2>1, <2>2
        <3>2. t = u \/ \E j \in 1..Len(serialQueue[k]) : t = serialQueue[k][j]
            BY <1>0, <1>1, <3>1, AppendElements
        <3> QED BY <2>1, <3>2 DEF InLine
    <2>3. CASE k # l
        BY <1>0, <1>2, <2>1, <2>3
    <2> QED BY <2>2, <2>3
<1>4. ASSUME NEW w \in Thread, pc[w] \in {"serial", "recheck"}, serialQueue[key[w]] # <<>>, TakeSerial(w)
      PROVE  InLine(k, t)
    <2>1. serialQueue' = [serialQueue EXCEPT ![key[w]] = Tail(@)]
        BY <1>4 DEF TakeSerial
    <2>2. CASE k = key[w]
        <3>1. serialQueue'[k] = Tail(serialQueue[k]) /\ serialQueue[k] # <<>>
            BY <1>0, <1>4, <2>1, <2>2
        <3>2. \E j \in 1..Len(serialQueue[k]) : t = serialQueue[k][j]
            BY <1>0, <1>1, <3>1, TailElements
        <3> QED BY <3>2 DEF InLine
    <2>3. CASE k # key[w]
        BY <1>0, <1>1, <2>1, <2>3 DEF InLine
    <2> QED BY <2>2, <2>3
<1> QED BY <1>2, <1>3, <1>4, LineSteps

\* Of a key that waits, one request or worker does the processing.
LEMMA OneServes ==
    ASSUME IInv, NEW k \in Key, Processors(k) = 1
    PROVE  Served(k)
<1>1. /\ Processors(k) = Count(queue, Processing(k)) + Cardinality(WorkersOn(k))
      /\ queue \in Seq(Requests)
    BY CountsNow DEF IInv, TypeOK
<1>2. CASE At(queue, Processing(k)) # {}
    BY <1>2 DEF At, Processing, Served, Queued
<1>3. CASE At(queue, Processing(k)) = {} /\ WorkersOn(k) = {}
    BY <1>1, <1>3, FS_EmptySet DEF Count
<1>4. CASE WorkersOn(k) # {}
    BY <1>4 DEF WorkersOn, Served
<1> QED BY <1>2, <1>3, <1>4

\* A key keeps its request or worker as long as tasks wait.
LEMMA ServedKept ==
    ASSUME IInv, DestroyPhase, Placed, [Next]_vars, NEW k \in Key, Served(k), serialQueue[k] # <<>>
    PROVE  Served(k)'
<1>1. CASE Queued(Request("serialized", k))
    <2>1. CASE Queued(Request("serialized", k))'
        BY <2>1 DEF Served
    <2>2. ASSUME NEW w \in Thread, WorkerTake(w), Head(queue) = Request("serialized", k) PROVE Served(k)'
        <3>1. pc' = [pc EXCEPT ![w] = "serial"] /\ key' = [key EXCEPT ![w] = k]
            BY <2>2, TakeCases, RequestsDiffer
        <3>2. pc'[w] = "serial" /\ key'[w] = k
            BY <3>1 DEF IInv, TypeOK
        <3> QED BY <3>2 DEF Served, InSerial
    <2> QED BY <1>1, <2>1, <2>2, QueuedKept
<1>2. ASSUME NEW v \in Thread, pc[v] \in InSerial, key[v] = k PROVE Served(k)'
    <2>1. ASSUME NEW w \in Thread, Worker(w) PROVE Served(k)'
        <3>1. CASE \E from, to : Goes(w, from, to) /\ v # w
            BY <1>2, <3>1 DEF Goes, Served
        <3>2. CASE Frees(w)
            BY <1>2, <3>2 DEF Frees, Served, InSerial
        <3>3. CASE v = w /\ (SerialGet(w) \/ SerialRecheck(w))
            <4>1. pc'[w] \in {"runserial", "recheck"} /\ key'[w] = key[w]
                BY <1>2, <3>3 DEF SerialGet, SerialRecheck, TakeSerial, IInv, TypeOK
            <4> QED BY <1>2, <3>3, <4>1 DEF Served, InSerial
        <3>4. CASE v = w /\ SerialRun(w)
            <4>1. pc'[w] = "serial" /\ key'[w] = key[w]
                BY <3>4 DEF SerialRun, IInv, TypeOK
            <4> QED BY <1>2, <3>4, <4>1 DEF Served, InSerial
        <3> QED BY <1>2, <2>1, <3>1, <3>2, <3>3, <3>4, WorkerSteps DEF Goes, InSerial
    <2>2. ASSUME NEW new \in NewThreads, MaintGrow(new) PROVE Served(k)'
        BY <1>2, <2>2, GrowSteps DEF Served, InSerial
    <2>3. CASE UNCHANGED <<pc, job, key, threads>>
        BY <1>2, <2>3 DEF Served
    <2> QED BY <2>1, <2>2, <2>3, OtherSteps
<1> QED BY <1>1, <1>2 DEF Served

\* An accepted task has been put into its queue, and stays accepted until its run ends.
LEMMA CallSteps ==
    ASSUME IInv, [Next]_vars, NEW t \in Task
    PROVE  /\ call'[t] = "queued" => call[t] = "queued" \/ Queued(Request("task", t))'
           /\ call'[t] = "serialized" => call[t] = "serialized" \/ \E k \in Key : InLine(k, t)'
           /\ call[t] \in {"queued", "serialized"} =>
                 call'[t] = call[t] \/ \E w \in Thread : Ran(w) /\ job[w] = t
<1> DEFINE Goal == /\ call'[t] = "queued" => call[t] = "queued" \/ Queued(Request("task", t))'
                   /\ call'[t] = "serialized" => call[t] = "serialized" \/ \E k \in Key : InLine(k, t)'
                   /\ call[t] \in {"queued", "serialized"} =>
                         call'[t] = call[t] \/ \E w \in Thread : Ran(w) /\ job[w] = t
<1>0. TypeOK
    BY DEF IInv
<1>1. CASE UNCHANGED call
    BY <1>1
<1>2. ASSUME NEW u \in Task, CheckShutdown(u) PROVE Goal
    BY <1>0, <1>2 DEF CheckShutdown, TypeOK
<1>3. ASSUME NEW u \in Task, ThreadPoolExecute(u) PROVE Goal
    <2>1. /\ call[u] = "checked" /\ queue' = Append(queue, Request("task", u))
          /\ call' = [call EXCEPT ![u] = "queued"]
        BY <1>3 DEF ThreadPoolExecute
    <2>2. /\ Len(queue') = Len(queue) + 1 /\ Len(queue) \in Nat
          /\ queue'[Len(queue) + 1] = Request("task", u)
        BY <1>0, <2>1, AppendProperties, LenProperties, RequestsTyped DEF TypeOK
    <2>3. Len(queue) + 1 \in 1..Len(queue')
        BY <2>2
    <2>4. Queued(Request("task", u))'
        BY <2>2, <2>3 DEF Queued
    <2> QED BY <1>0, <2>1, <2>4 DEF TypeOK
<1>4. ASSUME NEW u \in Task, NEW k \in Key, ThreadPoolExecuteSerialized(u, k) PROVE Goal
    <2>1. /\ call[u] = "checked" /\ serialQueue' = [serialQueue EXCEPT ![k] = Append(@, u)]
          /\ call' = [call EXCEPT ![u] = "serialized"]
        BY <1>4 DEF ThreadPoolExecuteSerialized
    <2>2. serialQueue'[k] = Append(serialQueue[k], u) /\ serialQueue[k] \in Seq(Task)
        BY <1>0, <2>1 DEF TypeOK
    <2>3. /\ Len(serialQueue'[k]) = Len(serialQueue[k]) + 1 /\ Len(serialQueue[k]) \in Nat
          /\ serialQueue'[k][Len(serialQueue[k]) + 1] = u
        BY <2>2, AppendProperties, LenProperties
    <2>4. Len(serialQueue[k]) + 1 \in 1..Len(serialQueue'[k])
        BY <2>3
    <2>5. InLine(k, u)'
        BY <2>3, <2>4 DEF InLine
    <2> QED BY <1>0, <2>1, <2>5 DEF TypeOK
<1>5. ASSUME NEW u \in Task, NEW i \in 0..Len(schedulerQueue), ThreadPoolScheduleAbsoluteMs(u, i) PROVE Goal
    <2>1. call[u] = "checked" /\ call' = [call EXCEPT ![u] = "scheduled"]
        BY <1>5 DEF ThreadPoolScheduleAbsoluteMs
    <2> QED BY <1>0, <2>1 DEF TypeOK
<1>6. ASSUME NEW n \in 0..Len(schedulerQueue), MaintSchedule(n) PROVE Goal
    <2> DEFINE u == [i \in 1..n |-> Request("task", schedulerQueue[i])]
    <2>1. /\ queue' = queue \o u
          /\ call'[t] = IF \E i \in 1..n : schedulerQueue[i] = t THEN "queued" ELSE call[t]
        BY <1>6 DEF MaintSchedule
    <2>2. CASE \A i \in 1..n : schedulerQueue[i] # t
        BY <2>1, <2>2
    <2>3. ASSUME NEW i \in 1..n, schedulerQueue[i] = t PROVE Goal
        <3>1. n \in Nat /\ i \in 1..Len(schedulerQueue) /\ \A j \in 1..n : schedulerQueue[j] \in Task
            BY <1>0, LenProperties, ElementOfSeq DEF TypeOK
        <3>2. call[t] \in Plain
            BY <2>3, <3>1 DEF IInv, PlainTasks
        <3>3. u \in Seq(Requests) /\ Len(u) = n /\ u[i] = Request("task", t)
            BY <2>3, <3>1, RequestsTyped
        <3> HIDE DEF u
        <3>4. PICK q : q = queue \o u
            OBVIOUS
        <3>5. /\ Len(q) = Len(queue) + n /\ Len(queue) \in Nat
              /\ \A j \in 1..Len(q) : q[j] = IF j <= Len(queue) THEN queue[j] ELSE u[j - Len(queue)]
            <4>1. queue \in Seq(Requests)
                BY <1>0 DEF TypeOK
            <4> QED BY <3>3, <3>4, <4>1, ConcatElements
        <3>6. /\ Len(queue) + i \in 1..Len(q) /\ ~(Len(queue) + i <= Len(queue))
              /\ (Len(queue) + i) - Len(queue) = i
            BY <3>1, <3>5
        <3>7. q[Len(queue) + i] = Request("task", t)
            BY <3>3, <3>5, <3>6
        <3>8. Queued(Request("task", t))'
            BY <2>1, <3>4, <3>6, <3>7 DEF Queued
        <3>9. call'[t] = "queued" /\ (call[t] \in {"queued", "serialized"} => call'[t] = call[t])
            BY <2>1, <2>3, <3>2 DEF Plain
        <3> QED BY <3>8, <3>9
    <2> QED BY <2>2, <2>3
<1>7. ASSUME NEW w \in Thread, WorkerRun(w) PROVE Goal
    BY <1>0, <1>7 DEF WorkerRun, TypeOK, Ran
<1>8. ASSUME NEW w \in Thread, SerialRun(w) PROVE Goal
    BY <1>0, <1>8 DEF SerialRun, TypeOK, Ran
<1>9. ASSUME NEW w \in Thread, Worker(w), ~Ran(w) PROVE UNCHANGED call
    BY <1>9 DEF Worker, Ran, WorkerTake, WorkerUnregister, WorkerQueueJoin, WorkerEnd, JoinWorkerThread,
                SerialGet, SerialRecheck
<1>10. CASE MaintQueueStop \/ \E new \in NewThreads : MaintGrow(new)
    BY <1>10, GrowSteps DEF MaintQueueStop
<1>11. CASE \/ \E n \in 1..MaxThreads : MaintShrink(n)
            \/ DestroyBegin \/ DestroyCount \/ DestroyQueueStop \/ WalkThreads \/ Terminated \/ UNCHANGED vars
    BY <1>11, WalkKeeps DEF MaintShrink, DestroyBegin, DestroyCount, DestroyQueueStop, Terminated, vars
<1>12. ASSUME NEW w \in Thread, Worker(w) PROVE Goal
    BY <1>1, <1>7, <1>8, <1>9, <1>12 DEF Ran
<1>13. CASE Maintenance
    BY <1>1, <1>6, <1>10, <1>13 DEF Maintenance
<1> QED BY <1>1, <1>2, <1>3, <1>4, <1>5, <1>11, <1>12, <1>13 DEF Next, Destroy

\* When the run of a task ends, it is not accepted and not promised any more.
LEMMA RanDone ==
    ASSUME IInv, NEW w \in Thread, Ran(w)
    PROVE  call'[job[w]] \in {"executed", "processed"} /\ job[w] \notin promised'
BY DEF Ran, WorkerRun, SerialRun, IInv, TypeOK

\* Tasks have their places after every step.
LEMMA PlacedStep ==
    ASSUME IInv, DestroyPhase, Placed, [Next]_vars
    PROVE  Placed'
<1> SUFFICES ASSUME NEW t \in Task
             PROVE  /\ call'[t] = "queued" => AtWorker(t)' \/ Queued(Request("task", t))'
                    /\ call'[t] = "serialized" => AtWorker(t)' \/ \E k \in Key : InLine(k, t)'
                    /\ t \in promised' => /\ call'[t] \in {"queued", "serialized"}
                                          /\ \A k \in Key : InLine(k, t)' => Served(k)'
    BY DEF Placed
<1>1. ASSUME NEW w \in Thread, Ran(w), job[w] = t
      PROVE  call'[t] \notin {"queued", "serialized"} /\ t \notin promised'
    BY <1>1, RanDone
<1>2. ASSUME call'[t] = "queued", ~Queued(Request("task", t))' PROVE AtWorker(t)'
    <2>1. CASE AtWorker(t)
        BY <1>1, <1>2, <2>1, AtWorkerKept
    <2>2. CASE Queued(Request("task", t))
        <3>1. PICK w \in Thread : WorkerTake(w) /\ Head(queue) = Request("task", t)
            BY <1>2, <2>2, QueuedKept
        <3>2. pc' = [pc EXCEPT ![w] = "run"] /\ job' = [job EXCEPT ![w] = t]
            BY <3>1, TakeCases, RequestsDiffer
        <3>3. pc'[w] = "run" /\ job'[w] = t
            BY <3>2 DEF IInv, TypeOK
        <3> QED BY <3>3 DEF AtWorker
    <2> QED BY <1>2, <2>1, <2>2, CallSteps DEF Placed
<1>3. ASSUME call'[t] = "serialized" PROVE AtWorker(t)' \/ \E k \in Key : InLine(k, t)'
    <2>1. CASE AtWorker(t)
        BY <1>1, <1>3, <2>1, AtWorkerKept
    <2>2. CASE \E k \in Key : InLine(k, t)
        BY <2>2, InLineKept
    <2> QED BY <1>3, <2>1, <2>2, CallSteps DEF Placed
<1>4. ASSUME t \in promised', DestroyBegin
      PROVE  call'[t] \in {"queued", "serialized"} /\ \A k \in Key : InLine(k, t)' => Served(k)'
    <2>1. /\ call[t] \in {"queued", "serialized"} /\ ~shutdownMode
          /\ UNCHANGED <<queue, serialQueue, call, pc, key>>
        BY <1>4 DEF DestroyBegin, DestroyPhase, serialVars, workerVars
    <2>2. ASSUME NEW k \in Key, InLine(k, t) PROVE Served(k)
        <3>1. serialQueue[k] # <<>>
            BY <2>2, EmptySeq DEF InLine
        <3> QED BY <2>1, <3>1, CountsNow, OneServes
    <2> QED BY <2>1, <2>2 DEF InLine, Served, Queued
<1>5. ASSUME t \in promised', ~DestroyBegin
      PROVE  call'[t] \in {"queued", "serialized"} /\ \A k \in Key : InLine(k, t)' => Served(k)'
    <2>1. t \in promised /\ call[t] \in {"queued", "serialized"}
        BY <1>5, StoppingSteps DEF Placed
    <2>2. call'[t] = call[t]
        BY <1>1, <1>5, <2>1, CallSteps
    <2>3. ASSUME NEW k \in Key, InLine(k, t)' PROVE Served(k)'
        <3>1. InLine(k, t)
            BY <2>1, <2>3, InLineBack
        <3>2. serialQueue[k] # <<>> /\ Served(k)
            BY <2>1, <3>1, EmptySeq DEF InLine, Placed
        <3> QED BY <3>2, ServedKept
    <2> QED BY <2>1, <2>2, <2>3
<1> QED BY <1>2, <1>3, <1>4, <1>5

-----------------------------------------------------------------------------
(* What is due comes before the stop requests of ThreadPoolDestroy *)

\* Nothing becomes due once ThreadPoolDestroy has begun.
LEMMA DueBack ==
    ASSUME IInv, DestroyPhase, Placed, [Next]_vars, shutdownMode, NEW r, Due(r)'
    PROVE  Due(r)
<1>1. promised' \subseteq promised /\ promised \subseteq Task
    BY StoppingSteps DEF IInv, TypeOK
<1>2. \A t \in promised', k \in Key : InLine(k, t)' => InLine(k, t)
    BY <1>1, InLineBack DEF Placed
<1> QED BY <1>1, <1>2 DEF Due

\* What is added to the queue when ThreadPoolDestroy stops the workers is not due.
LEMMA NotDueKept ==
    ASSUME IInv, DestroyPhase, Placed, [Next]_vars, destroyer'.pc \in Stopping,
           NEW i \in 1..Len(queue'), Due(queue[i])'
    PROVE  Due(queue'[i]) /\ \E j \in 1..Len(queue) : queue'[i] = queue[j]
<1>1. maint.pc = "ended" /\ shutdownMode
    BY StoppingSteps
<1>2. PICK r : r = queue'[i]
    OBVIOUS
<1>3. Due(r)'
    <2>1. \/ \E t \in promised' : r = Request("task", t)
          \/ \E t \in promised', k \in Key : r = Request("serialized", k) /\ InLine(k, t)'
        BY <1>2 DEF Due
    <2> QED BY <2>1 DEF Due
<1>4. Due(r)
    BY <1>1, <1>3, DueBack
<1>5. r \notin NewRequests /\ \A w \in Thread : r # Request("join", w)
    BY <1>1, <1>4, DueCases DEF NewRequests
<1> QED BY <1>2, <1>4, <1>5, QueueElements

\* No due request gets behind a stop request.
LEMMA DueFirstStep ==
    ASSUME IInv, DestroyPhase, DestroyPhase', Placed, DueFirst, [Next]_vars
    PROVE  DueFirst'
<1>1. queue \in Seq(Requests) /\ Len(queue) \in Nat
    BY LenProperties DEF IInv, TypeOK
<1> SUFFICES ASSUME NEW i \in 1..Len(queue'), NEW j \in 1..Len(queue'), i < j, queue'[i] = Stop,
                    Due(queue[j])'
             PROVE  FALSE
    BY DEF DueFirst
<1>2. destroyer'.pc \in Stopping
    BY DEF DestroyPhase
<1>3. Due(queue'[j]) /\ maint.pc = "ended"
    BY <1>2, NotDueKept, StoppingSteps
<1>4. ASSUME NEW w \in Thread, WorkerTake(w) PROVE FALSE
    <2>1. queue # <<>> /\ queue' = Tail(queue)
        BY <1>4 DEF WorkerTake
    <2>2. /\ Len(queue') = Len(queue) - 1
          /\ \A m \in 1..Len(queue') : queue'[m] = queue[m + 1]
        BY <1>1, <2>1, HeadTailProperties
    <2>3. i + 1 \in 1..Len(queue) /\ j + 1 \in 1..Len(queue) /\ i + 1 < j + 1
        BY <1>1, <2>2
    <2> QED BY <1>3, <2>2, <2>3 DEF DueFirst
<1>5. ASSUME NEW w \in Thread, WorkerQueueJoin(w) PROVE FALSE
    <2>1. queue' = Append(queue, Request("join", w))
        BY <1>5 DEF WorkerQueueJoin
    <2>2. /\ Len(queue') = Len(queue) + 1 /\ \A m \in 1..Len(queue) : queue'[m] = queue[m]
          /\ queue'[Len(queue) + 1] = Request("join", w)
        BY <1>1, <2>1, AppendProperties, RequestsTyped
    <2>3. j # Len(queue) + 1
        BY <1>3, <2>2, DueCases
    <2>4. i \in 1..Len(queue) /\ j \in 1..Len(queue)
        BY <1>1, <2>2, <2>3
    <2> QED BY <1>3, <2>2, <2>4 DEF DueFirst
<1>6. ASSUME Extends(queue', queue, NewRequests) PROVE FALSE
    <2>1. ~(j > Len(queue))
        BY <1>3, <1>6 DEF Extends, NewRequests
    <2>2. i \in 1..Len(queue) /\ j \in 1..Len(queue)
        BY <1>1, <2>1
    <2> QED BY <1>3, <1>6, <2>2 DEF DueFirst, Extends
<1> QED BY <1>4, <1>5, <1>6, QueueSteps

\* One thread is left for what is promised, or the workers have it all.
LEMMA OneLeftStep ==
    ASSUME IInv, IInv', DestroyPhase, Registered, JoinedOnce, Placed, DueFirst, OneLeft, [Next]_vars
    PROVE  OneLeft'
<1>1. queue \in Seq(Requests) /\ Len(queue) \in Nat
    BY LenProperties DEF IInv, TypeOK
<1> SUFFICES ASSUME destroyer'.pc \in Stopping, promised' # {}
             PROVE  IF Stopped' = {} THEN StopRequested' < Cardinality(threads')
                    ELSE \A i \in 1..Len(queue') : ~Due(queue[i])'
    BY DEF OneLeft
<1>2. maint.pc = "ended" /\ promised # {}
    BY StoppingSteps
<1>3. CASE destroyer.pc \notin Stopping
    <2>1. DestroyCount
        BY <1>3, StoppingSteps
    <2>2. UNCHANGED <<queue, threads, pc>> /\ StopRequested < Cardinality(threads)
        BY <2>1 DEF DestroyCount, workerVars
    <2>3. Stopped = {}
        BY <1>3 DEF Stopped, DestroyPhase
    <2>4. Stopped' = {} /\ StopRequested' = StopRequested
        BY <2>2, <2>3 DEF Stopped, StopRequested
    <2> QED BY <2>2, <2>4
<1>4. CASE destroyer.pc \in Stopping /\ Stopped' = {}
    <2>1. StopRequested < Cardinality(threads)
        BY <1>2, <1>4, StoppedSteps DEF OneLeft
    <2>2. Cardinality(threads') - StopRequested' = Cardinality(threads) - StopRequested
        BY <1>2, StopSteps
    <2>3. /\ queue \in Seq(Requests) /\ threads \in SUBSET Thread /\ Resigning \in SUBSET Thread
          /\ queue' \in Seq(Requests) /\ threads' \in SUBSET Thread /\ Resigning' \in SUBSET Thread
        BY DEF IInv, TypeOK, Resigning
    <2>4. /\ StopRequested = Count(queue, {Unregister}) + Cardinality(Resigning)
          /\ Count(queue, {Unregister}) \in Nat /\ Cardinality(Resigning) \in Nat
          /\ Cardinality(threads) \in Nat
        BY <2>3, StopCounted DEF StopRequested, Resigning
    <2>5. /\ StopRequested' = Count(queue', {Unregister}) + Cardinality(Resigning')
          /\ Count(queue', {Unregister}) \in Nat /\ Cardinality(Resigning') \in Nat
          /\ Cardinality(threads') \in Nat
        BY <2>3, StopCounted DEF StopRequested, Resigning
    <2> QED BY <1>4, <2>1, <2>2, <2>4, <2>5
<1>5. CASE destroyer.pc \in Stopping /\ Stopped' # {} /\ Stopped = {}
    <2>1. PICK w : WorkerTake(w) /\ Head(queue) = Stop
        BY <1>5, StoppedSteps
    <2>2. queue # <<>> /\ queue' = Tail(queue)
        BY <2>1 DEF WorkerTake
    <2>3. /\ Len(queue') = Len(queue) - 1 /\ queue[1] = Stop
          /\ \A m \in 1..Len(queue') : queue'[m] = queue[m + 1]
        BY <1>1, <2>1, <2>2, HeadTailProperties
    <2>4. ASSUME NEW i \in 1..Len(queue') PROVE ~Due(queue'[i])
        <3>1. 1 \in 1..Len(queue) /\ i + 1 \in 1..Len(queue) /\ 1 < i + 1
            BY <1>1, <2>3
        <3> QED BY <2>3, <3>1 DEF DueFirst
    <2> QED BY <1>5, <2>4, NotDueKept
<1>6. CASE destroyer.pc \in Stopping /\ Stopped # {}
    <2>1. Stopped' # {} /\ \A i \in 1..Len(queue) : ~Due(queue[i])
        BY <1>2, <1>6, StoppedSteps DEF OneLeft
    <2> QED BY <2>1, NotDueKept
<1> QED BY <1>3, <1>4, <1>5, <1>6

-----------------------------------------------------------------------------
(* The walk over the threads *)

\* Once the maintenance thread has ended, no thread is registered, and those that are and
\* have ended stay as they are.
LEMMA EndedStay ==
    ASSUME IInv, Registered, JoinedOnce, [Next]_vars, maint.pc = "ended"
    PROVE  threads' \subseteq threads /\ \A w \in threads : pc[w] = "ended" => pc'[w] = "ended"
<1>0. threads \subseteq Thread
    BY DEF IInv, TypeOK
<1>1. ASSUME NEW w \in Thread, Worker(w)
      PROVE  threads' \subseteq threads /\ \A v \in threads : pc[v] = "ended" => pc'[v] = "ended"
    <2>1. CASE JoinWorkerThread(w) /\ Frees(w)
        <3>1. job[w] \notin threads
            BY <2>1, JoinerKnown DEF JoinedOnce, Frees
        <3> QED BY <1>0, <2>1, <3>1 DEF Frees, JoinWorkerThread
    <2>2. CASE pc[w] # "ended" /\ \A v \in Thread : v # w => pc'[v] = pc[v]
        BY <1>0, <1>1, <2>2 DEF Worker, WorkerTake, WorkerUnregister, WorkerQueueJoin, WorkerEnd,
                                JoinWorkerThread, WorkerRun, SerialGet, SerialRecheck, SerialRun
    <2> QED BY <1>1, <2>1, <2>2, WorkerSteps DEF Goes
<1>2. CASE UNCHANGED <<pc, job, key, threads>>
    BY <1>2
<1> QED BY <1>1, <1>2, OtherSteps, GrowSteps

\* The walk begins with nothing.
LEMMA UnwalkedStep ==
    ASSUME IInv, Unwalked, [Next]_vars
    PROVE  Unwalked'
<1>0. destroyer \in [pc : {"idle", "joinmaint", "stop", "join", "walk", "deleted"}, left : Int]
    BY DEF IInv, TypeOK
<1>1. CASE DestroyBegin \/ DestroyCount \/ DestroyQueueStop
    BY <1>0, <1>1 DEF DestroyBegin, DestroyCount, DestroyQueueStop, Unwalked
<1>2. CASE WalkThreads
    BY <1>0, <1>2 DEF WalkThreads, DestroyWalk, DestroyJoin, DestroyJoinStale, DestroyDelete, Unwalked
<1>3. CASE UNCHANGED <<destroyer, walkVars>>
    BY <1>3 DEF Unwalked
<1> QED BY <1>1, <1>2, <1>3, ControlSteps

\* Every thread that is registered is joined, as long as the walk finds its entries.
LEMMA WalkingStep ==
    ASSUME IInv, DestroyPhase, Registered, JoinedOnce, Walking, [Next]_vars
    PROVE  Walking'
<1>0. /\ destroyer \in [pc : {"idle", "joinmaint", "stop", "join", "walk", "deleted"}, left : Int]
      /\ threads \subseteq Thread /\ None \notin threads
      /\ walk \in [at : Thread \cup {None}, next : Thread \cup {None}, read : SUBSET (Thread \cup {None})]
    BY NoneAssumption DEF IInv, TypeOK
<1> SUFFICES ASSUME destroyer'.pc = "walk", ~stale'
             PROVE  /\ \A w \in threads' \cap walk'.read : w \in {walk'.at, walk'.next} \/ pc'[w] = "ended"
                    /\ walk'.next = None => threads' \subseteq walk'.read
                    /\ walk'.at = None => walk'.next = None
    BY DEF Walking
<1>1. \A read, n : n \in Following(read) => IF n = None THEN threads \subseteq read ELSE n \in threads \ read
    BY <1>0 DEF Following
<1>2. CASE DestroyBegin \/ DestroyCount \/ DestroyQueueStop
    BY <1>0, <1>2 DEF DestroyBegin, DestroyCount, DestroyQueueStop
<1>3. CASE DestroyWalk
    <2>1. PICK a \in Following({}) : \E n \in Following({a}) : walk' = [at |-> a, next |-> n, read |-> {a, n}]
        BY <1>3 DEF DestroyWalk
    <2>2. PICK n \in Following({a}) : walk' = [at |-> a, next |-> n, read |-> {a, n}]
        BY <2>1
    <2>3. walk'.at = a /\ walk'.next = n /\ walk'.read = {a, n} /\ threads' = threads
        BY <1>3, <2>2 DEF DestroyWalk
    <2> QED BY <1>1, <2>3
<1>4. CASE DestroyJoin
    <2>1. PICK n : /\ n \in IF walk.next = None THEN {None} ELSE Following(walk.read)
                   /\ walk' = [at |-> walk.next, next |-> n, read |-> walk.read \cup {n}]
        BY <1>4 DEF DestroyJoin
    <2>2. walk'.at = walk.next /\ walk'.next = n /\ walk'.read = walk.read \cup {n}
        BY <2>1
    <2>3. UNCHANGED <<threads, pc>> /\ destroyer.pc = "walk" /\ ~stale /\ pc[walk.at] \in {"ended", "free"}
        BY <1>4 DEF DestroyJoin, workerVars, Joined
    <2>4. walk.at \in threads => pc[walk.at] = "ended"
        BY <1>0, <2>3 DEF Registered
    <2>5. /\ \A w \in threads \cap walk.read : w \in {walk.at, walk.next} \/ pc[w] = "ended"
          /\ walk.next = None => threads \subseteq walk.read
        BY <2>3 DEF Walking
    <2> QED BY <1>1, <2>1, <2>2, <2>3, <2>4, <2>5
<1>5. CASE DestroyJoinStale
    BY <1>5 DEF DestroyJoinStale
<1>6. CASE DestroyDelete
    BY <1>0, <1>6 DEF DestroyDelete
<1>7. CASE UNCHANGED <<destroyer, walkVars>>
    <2>1. /\ threads' \subseteq threads /\ \A w \in threads : pc[w] = "ended" => pc'[w] = "ended"
        BY <1>7, EndedStay DEF DestroyPhase, Stopping
    <2>2. /\ \A w \in threads \cap walk.read : w \in {walk.at, walk.next} \/ pc[w] = "ended"
          /\ walk.next = None => threads \subseteq walk.read
          /\ walk.at = None => walk.next = None
        BY <1>7 DEF Walking
    <2> QED BY <1>7, <2>1, <2>2
<1> QED BY <1>2, <1>3, <1>4, <1>5, <1>6, <1>7, ControlSteps DEF WalkThreads

\* Once the maintenance thread has ended, no thread begins to stop by itself.
LEMMA NoStopBegins ==
    ASSUME IInv, DestroyPhase, Registered, JoinedOnce, Placed, [Next]_vars, maint.pc = "ended", ~StopUnderWay
    PROVE  ~StopUnderWay' /\ threads' = threads
<1>0. threads \subseteq Thread
    BY DEF IInv, TypeOK
<1>1. /\ \A i \in 1..Len(queue) : queue[i] # Unregister
      /\ \A w \in Thread : /\ pc[w] \notin {"unregister", "unregistered"}
                           /\ pc[w] = "leaving" => w \in threads
    BY DEF StopUnderWay
<1>2. ASSUME NEW i \in 1..Len(queue') PROVE queue'[i] # Unregister
    BY <1>1, QueueElements, RequestsDiffer DEF NewRequests
<1>3. /\ threads' = threads
      /\ \A w \in Thread : /\ pc'[w] \notin {"unregister", "unregistered"}
                           /\ pc'[w] = "leaving" => w \in threads
    <2>1. CASE UNCHANGED <<pc, job, key, threads>>
        BY <1>1, <2>1
    <2>2. ASSUME NEW w \in Thread, Worker(w)
          PROVE  /\ threads' = threads
                 /\ \A v \in Thread : /\ pc'[v] \notin {"unregister", "unregistered"}
                                      /\ pc'[v] = "leaving" => v \in threads
        <3>1. ~WorkerUnregister(w) /\ ~WorkerQueueJoin(w)
            BY <1>1 DEF WorkerUnregister, WorkerQueueJoin
        <3>2. threads' = threads
            BY <2>2, <3>1 DEF Worker, WorkerTake, WorkerEnd, JoinWorkerThread, WorkerRun, SerialGet,
                              SerialRecheck, SerialRun
        <3>3. CASE WorkerTake(w) /\ Goes(w, {"get"}, {"leaving", "unregister", "join", "run", "serial"})
            <4>1. w \in threads
                BY <3>3 DEF Registered, Goes
            <4>2. Head(queue) # Unregister
                <5>1. queue # <<>> /\ queue \in Seq(Requests)
                    BY <3>3 DEF WorkerTake, IInv, TypeOK
                <5> QED BY <1>1, <5>1, TailElements
            <4>3. pc'[w] # "unregister"
                <5>1. PICK p \in {"leaving", "unregister", "join", "run", "serial"} :
                          pc' = [pc EXCEPT ![w] = p] /\ (p = "unregister" => Head(queue) = Unregister)
                    BY <3>3, TakeCases, RequestsDiffer
                <5> QED BY <4>2, <5>1 DEF IInv, TypeOK
            <4> QED BY <1>1, <3>2, <3>3, <4>1, <4>3 DEF Goes
        <3>4. CASE Frees(w)
            BY <1>1, <3>2, <3>4 DEF Frees
        <3>5. CASE Goes(w, {"leaving", "run", "serial", "recheck", "runserial"},
                           {"ended", "get", "runserial", "recheck", "serial"})
            BY <1>1, <3>2, <3>5 DEF Goes
        <3> QED BY <2>2, <3>1, <3>3, <3>4, <3>5, WorkerSteps DEF Goes
    <2> QED BY <2>1, <2>2, OtherSteps, GrowSteps
<1> QED BY <1>2, <1>3 DEF StopUnderWay

\* So the walk finds all its entries.
LEMMA AloneStep ==
    ASSUME IInv, DestroyPhase, Registered, JoinedOnce, Placed, Unwalked, Alone, [Next]_vars
    PROVE  Alone'
<1>0. /\ destroyer \in [pc : {"idle", "joinmaint", "stop", "join", "walk", "deleted"}, left : Int]
      /\ walk \in [at : Thread \cup {None}, next : Thread \cup {None}, read : SUBSET (Thread \cup {None})]
    BY DEF IInv, TypeOK
<1> SUFFICES ASSUME destroyer'.pc \in Stopping, ~overlap'
             PROVE  ~StopUnderWay' /\ ~stale' /\ walk'.next \in threads' \cup {None}
    BY DEF Alone
<1>1. maint.pc = "ended"
    BY StoppingSteps
<1>2. CASE destroyer.pc \notin Stopping
    <2>1. DestroyCount
        BY <1>2, StoppingSteps
    <2>2. ~StopUnderWay /\ UNCHANGED <<queue, pc, threads, walk, stale>>
        BY <2>1 DEF DestroyCount, workerVars
    <2>3. ~StopUnderWay'
        BY <2>2 DEF StopUnderWay
    <2>4. walk.next = None /\ ~stale
        BY <1>2 DEF Unwalked, Stopping, NoWalk
    <2> QED BY <2>2, <2>3, <2>4
<1>3. CASE destroyer.pc \in Stopping
    <2>1. ~overlap
        <3>1. CASE DestroyBegin \/ DestroyCount
            BY <1>3, <3>1 DEF DestroyBegin, DestroyCount, Stopping
        <3>2. CASE DestroyQueueStop \/ WalkThreads
            BY <3>2, WalkKeeps DEF DestroyQueueStop
        <3>3. CASE UNCHANGED walkVars
            BY <3>3
        <3> QED BY <3>1, <3>2, <3>3, ControlSteps
    <2>2. ~StopUnderWay /\ ~stale /\ walk.next \in threads \cup {None}
        BY <1>3, <2>1 DEF Alone
    <2>3. ~StopUnderWay' /\ threads' = threads
        BY <1>1, <2>2, NoStopBegins
    <2>4. ~stale' /\ walk'.next \in threads \cup {None}
        <3>1. CASE DestroyBegin \/ DestroyCount
            BY <1>3, <3>1 DEF DestroyBegin, DestroyCount, Stopping
        <3>2. CASE DestroyQueueStop
            BY <2>2, <3>2 DEF DestroyQueueStop
        <3>3. \A read : Following(read) \subseteq threads \cup {None}
            BY DEF Following
        <3>4. CASE DestroyWalk
            BY <2>2, <3>3, <3>4 DEF DestroyWalk
        <3>5. CASE DestroyJoin
            BY <2>2, <3>3, <3>5 DEF DestroyJoin
        <3>6. CASE DestroyJoinStale
            BY <2>2, <3>6 DEF DestroyJoinStale
        <3>7. CASE DestroyDelete
            BY <2>2, <3>7 DEF DestroyDelete, NoWalk
        <3>8. CASE UNCHANGED walkVars
            BY <2>2, <3>8
        <3> QED BY <3>1, <3>2, <3>4, <3>5, <3>6, <3>7, <3>8, ControlSteps DEF WalkThreads
    <2> QED BY <2>3, <2>4
<1> QED BY <1>2, <1>3

-----------------------------------------------------------------------------
(* The deletion *)

\* The walk is over when all threads have ended, unless an entry was removed meanwhile.
LEMMA DeleteEnded ==
    ASSUME IInv, DInv, DestroyDelete, ~stale
    PROVE  /\ \A w \in threads : pc[w] = "ended"
           /\ \A w \in Thread \ threads : pc[w] \in {"free", "unregistered", "leaving", "ended"}
<1>1. None \notin threads /\ threads \subseteq Thread
    BY NoneAssumption DEF IInv, TypeOK
<1>2. destroyer.pc = "walk" /\ walk.at = None
    BY DEF DestroyDelete
<1>3. walk.next = None /\ \A w \in threads : w \in {walk.at, walk.next} \/ pc[w] = "ended"
    BY <1>2 DEF DInv, Walking
<1> QED BY <1>1, <1>2, <1>3 DEF DInv, Registered

\* When all threads have ended, nothing is promised any more.
LEMMA DeletePromised ==
    ASSUME IInv, DInv, DestroyDelete, ~stale
    PROVE  promised = {}
<1>1. /\ destroyer.pc \in Stopping /\ \A w \in threads : pc[w] = "ended"
      /\ promised \in SUBSET Task
    BY DeleteEnded DEF DestroyDelete, Stopping, IInv, TypeOK
<1>2. \A w \in Thread : pc[w] \in {"free", "unregistered", "leaving", "ended"}
    BY DeleteEnded
<1> SUFFICES ASSUME NEW t \in promised PROVE FALSE
    BY <1>1
<1>3. ~AtWorker(t) /\ t \in Task
    BY <1>1, <1>2 DEF AtWorker
<1>4. Stopped # {}
    <2>1. SUFFICES ASSUME threads = {} PROVE ~(StopRequested < Cardinality(threads))
        BY <1>1 DEF Stopped, Gone, DInv, OneLeft
    <2>2. /\ queue \in Seq(Requests) /\ threads \in SUBSET Thread /\ Resigning \in SUBSET Thread
        BY DEF IInv, TypeOK, Resigning
    <2>3. /\ StopRequested = Count(queue, {Unregister}) + Cardinality(Resigning)
          /\ Count(queue, {Unregister}) \in Nat /\ Cardinality(Resigning) \in Nat
        BY <2>2, StopCounted DEF StopRequested, Resigning
    <2>4. Cardinality(threads) = 0
        BY <2>1, FS_EmptySet
    <2> QED BY <2>3, <2>4
<1>5. \A i \in 1..Len(queue) : ~Due(queue[i])
    BY <1>1, <1>4 DEF DInv, OneLeft
<1>6. ~Queued(Request("task", t))
    BY <1>5 DEF Queued, Due
<1>7. PICK k \in Key : InLine(k, t)
    BY <1>3, <1>6 DEF DInv, Placed
<1>8. Served(k)
    BY <1>3, <1>7 DEF DInv, Placed
<1>9. ~Queued(Request("serialized", k))
    BY <1>5, <1>7 DEF Queued, Due
<1> QED BY <1>2, <1>8, <1>9 DEF Served, InSerial

\* The pool is deleted after what is promised, and nothing goes on in it but threads that
\* were stopping by themselves.
LEMMA DestroyWaitsStep ==
    ASSUME IInv, DInv, [Next]_vars
    PROVE  DestroyWaits'
<1>1. DestroyPhase /\ Registered /\ DestroyWaits /\ Alone
    BY DEF DInv
<1>2. CASE DestroyDelete
    <2>1. UNCHANGED <<promised, pc, threads, overlap, stale>> /\ destroyer.pc \in Stopping
        BY <1>2 DEF DestroyDelete, workerVars, Stopping
    <2>2. ~stale => promised = {}
        BY <1>2, DeletePromised
    <2>3. ~stale => \A w \in Thread : \/ pc[w] \in {"free", "ended"}
                                      \/ w \notin threads /\ pc[w] \in {"unregistered", "leaving"}
        BY <1>2, DeleteEnded
    <2>4. ~overlap => \A w \in Thread : pc[w] \in {"free", "ended"}
        BY <1>1, <2>1, <2>3 DEF Alone, StopUnderWay
    <2> QED BY <2>1, <2>2, <2>3, <2>4 DEF DestroyWaits
<1>3. CASE Deleted
    <2>1. destroyer.pc = "deleted" /\ maint.pc = "ended" /\ shutdownMode
        BY <1>1, <1>3 DEF DestroyPhase, Deleted, Stopping
    <2>2. promised' \subseteq promised /\ UNCHANGED <<overlap, stale>>
        <3>1. promised' \subseteq promised
            BY <1>1, <2>1, StoppingSteps
        <3>2. ~(DestroyBegin \/ DestroyCount \/ DestroyQueueStop \/ WalkThreads)
            BY <2>1 DEF DestroyBegin, DestroyCount, DestroyQueueStop, WalkThreads, DestroyWalk,
                        DestroyJoin, DestroyJoinStale, DestroyDelete
        <3> QED BY <3>1, <3>2, ControlSteps
    <2>3. ASSUME ~overlap PROVE \A w \in Thread : pc'[w] \in {"free", "ended"}
        <3>1. \A w \in Thread : pc[w] \in {"free", "ended"}
            BY <1>1, <1>3, <2>3 DEF DestroyWaits
        <3>2. ~\E w \in Thread : Worker(w)
            BY <3>1, WorkerSteps DEF Goes, Frees
        <3> QED BY <2>1, <3>1, <3>2, OtherSteps, GrowSteps
    <2>4. ASSUME ~stale
          PROVE  \A w \in Thread : \/ pc'[w] \in {"free", "ended"}
                                   \/ w \notin threads' /\ pc'[w] \in {"unregistered", "leaving"}
        <3>1. \A w \in Thread : \/ pc[w] \in {"free", "ended"}
                                \/ w \notin threads /\ pc[w] \in {"unregistered", "leaving"}
            BY <1>1, <1>3, <2>4 DEF DestroyWaits
        <3>2. ASSUME NEW w \in Thread, Worker(w)
              PROVE  /\ UNCHANGED threads /\ pc'[w] \in {"leaving", "ended"} /\ w \notin threads
                     /\ \A v \in Thread : v # w => pc'[v] = pc[v]
            <4>1. \/ WorkerQueueJoin(w) /\ Goes(w, {"unregistered"}, {"leaving"})
                  \/ WorkerEnd(w) /\ Goes(w, {"leaving"}, {"ended"})
                BY <3>1, <3>2, WorkerSteps DEF Goes, Frees
            <4> QED BY <3>1, <4>1 DEF WorkerQueueJoin, WorkerEnd, Goes
        <3>3. CASE \E w \in Thread : Worker(w)
            BY <3>1, <3>2, <3>3
        <3>4. CASE UNCHANGED <<pc, job, key, threads>>
            BY <3>1, <3>4
        <3> QED BY <2>1, <3>3, <3>4, OtherSteps, GrowSteps
    <2>5. ~stale => promised = {}
        BY <1>1, <1>3 DEF DestroyWaits
    <2> QED BY <2>2, <2>3, <2>4, <2>5 DEF DestroyWaits
<1>4. CASE destroyer'.pc # "deleted"
    BY <1>4 DEF DestroyWaits, Deleted
<1> QED BY <1>1, <1>2, <1>3, <1>4, StoppingSteps DEF Deleted

\* The invariant holds when the pool has been created.
LEMMA InitDInv == Init => DInv
<1> SUFFICES ASSUME Init PROVE DInv
    OBVIOUS
<1>1. /\ queue = <<>> /\ Len(queue) = 0 /\ threads = FirstThread /\ promised = {} /\ shutdownMode = FALSE
      /\ destroyer.pc = "idle" /\ \A t \in Task : call[t] = "new"
      /\ \A w \in Thread : pc[w] = IF w \in FirstThread THEN "get" ELSE "free"
      /\ FirstThread \subseteq Thread
    BY SizeAssumption DEF Init
<1>2. DestroyPhase
    BY <1>1 DEF DestroyPhase, Stopping, Gone
<1>3. Registered
    BY <1>1 DEF Registered
<1>4. JoinedOnce
    <2>1. ASSUME NEW w \in Thread PROVE ToJoin(w) = 0
        <3>1. Joiners(w) = {} /\ At(queue, {Request("join", w)}) = {}
            BY <1>1 DEF Joiners, At
        <3> QED BY <3>1, FS_EmptySet DEF ToJoin, Count
    <2> QED BY <1>1, <2>1 DEF JoinedOnce, Gone
<1>5. Placed
    BY <1>1 DEF Placed
<1>6. DueFirst
    BY <1>1 DEF DueFirst
<1>7. OneLeft /\ DestroyWaits
    BY <1>1 DEF OneLeft, Stopping, DestroyWaits, Deleted
<1>8. Unwalked /\ Walking /\ Alone
    BY <1>1 DEF Init, Unwalked, Walking, Alone, Stopping
<1> QED BY <1>2, <1>3, <1>4, <1>5, <1>6, <1>7, <1>8 DEF DInv

\* Every step keeps it.
LEMMA NextDInv == IInv /\ IInv' /\ DInv /\ [Next]_vars => DInv'
<1> SUFFICES ASSUME IInv, IInv', DInv, [Next]_vars PROVE DInv'
    OBVIOUS
<1>1. /\ DestroyPhase /\ Registered /\ JoinedOnce /\ Placed /\ DueFirst /\ OneLeft
      /\ Unwalked /\ Walking /\ Alone
    BY DEF DInv
<1>2. DestroyPhase' /\ Registered' /\ JoinedOnce' /\ Placed'
    BY <1>1, DestroyPhaseStep, RegisteredStep, JoinedOnceStep, PlacedStep
<1>3. DueFirst' /\ OneLeft' /\ DestroyWaits'
    BY <1>1, <1>2, DueFirstStep, OneLeftStep, DestroyWaitsStep
<1>4. Unwalked' /\ Walking' /\ Alone'
    BY <1>1, UnwalkedStep, WalkingStep, AloneStep
<1> QED BY <1>2, <1>3, <1>4 DEF DInv

\* ThreadPoolDestroy deletes the pool when no thread uses it any more, if no thread was
\* stopping by itself when it counted them; else only such threads may still use it, as
\* long as none of them has removed the entry to which the walk over the threads went next.
\* Without that, every task that was accepted before has been run, if a thread was left.
THEOREM DestroyComplete == Spec => []DestroyWaits
<1>1. DInv => DestroyWaits
    BY DEF DInv
<1>2. Spec => []DInv
    BY InitDInv, NextDInv, Invariance, PTL DEF Spec
<1> QED BY <1>1, <1>2, PTL

=============================================================================
