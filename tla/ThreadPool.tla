----------------------------- MODULE ThreadPool -----------------------------
(***************************************************************************)
(* Thread pool (src/libnetxms/tp.cpp).  Callers put requests into one      *)
(* queue that the worker threads empty; requests with a serialization key  *)
(* go through a queue of their key, which one request of the main queue    *)
(* processes; scheduled requests wait for the maintenance thread, which    *)
(* also starts worker threads and asks them to stop.  A worker that is     *)
(* asked to stop unregisters itself and queues a request to join it.       *)
(* ThreadPoolDestroy stops everything.                                     *)
(***************************************************************************)
EXTENDS Integers, Sequences, FiniteSets

CONSTANTS
    Thread,         \* identities of worker threads (WorkerThreadInfo), used again after a join
    FirstThread,    \* the threads that ThreadPoolCreate has started
    Task,           \* tasks, each of them submitted once
    Key,            \* serialization keys
    MinThreads, MaxThreads,
    MaxStops,       \* bound: stop requests of the maintenance thread
    None

ASSUME NoneAssumption == None \notin Task \cup Key \cup Thread
ASSUME SizeAssumption ==
    /\ MinThreads \in Nat \ {0} /\ MaxThreads \in Nat /\ MinThreads <= MaxThreads /\ MaxStops \in Nat
    /\ FirstThread \subseteq Thread /\ Thread \subseteq Nat /\ IsFiniteSet(Thread) /\ Cardinality(FirstThread) <= MinThreads

\* WorkRequest: the function and its argument
Request(f, a) == [func |-> f, arg |-> a]
Stop       == Request("stop", None)         \* func = null
Unregister == Request("unregister", None)   \* func = null, arg = s_stopAndUnregister

VARIABLES
    queue,          \* requests, oldest first
    serialQueue,    \* serializationQueues: key -> waiting tasks
    serialKeys,     \* keys that are in serializationQueues
    schedulerQueue, \* scheduled tasks, by run time
    activeRequests,
    threads,        \* registered worker threads
    pc,             \* what every worker thread does
    job,            \* the task it runs, or the thread it joins
    key,            \* the serialization key it processes
    shutdownMode,
    maint,          \* maintenance thread and the stop requests it still has to queue
    stops,          \* stop requests it has queued so far
    destroyer,      \* ThreadPoolDestroy and the stop requests it still has to queue
    walk,           \* its walk over the threads: the entry, the one read as next, those read
    call,           \* progress of every task
    promised,       \* history: tasks that ThreadPoolDestroy still has to wait for
    overlap,        \* history: it counted the threads while some were stopping by themselves
    stale           \* history: its walk has used an entry that was removed from the map

serialVars  == <<serialQueue, serialKeys>>
workerVars  == <<pc, job, key>>
walkVars    == <<walk, overlap, stale>>
controlVars == <<shutdownMode, maint, stops, destroyer, promised, walkVars>>
vars == <<queue, serialQueue, serialKeys, schedulerQueue, activeRequests, threads, pc, job, key,
          shutdownMode, maint, stops, destroyer, walk, call, promised, overlap, stale>>

NoWalk == [at |-> None, next |-> None, read |-> {}]

Init ==
    /\ queue = <<>> /\ schedulerQueue = <<>> /\ activeRequests = 0
    /\ serialQueue = [k \in Key |-> <<>>] /\ serialKeys = {}
    /\ threads = FirstThread
    /\ pc = [w \in Thread |-> IF w \in FirstThread THEN "get" ELSE "free"]
    /\ job = [w \in Thread |-> None] /\ key = [w \in Thread |-> None]
    /\ shutdownMode = FALSE
    /\ maint = [pc |-> "wait", left |-> 0] /\ stops = 0
    /\ destroyer = [pc |-> "idle", left |-> 0]
    /\ walk = NoWalk /\ overlap = FALSE /\ stale = FALSE
    /\ call = [t \in Task |-> "new"] /\ promised = {}

\* A thread that holds the pool's mutex while it queues stop requests
MutexFree == maint.pc # "shrink" /\ destroyer.pc # "stop"
Deleted == destroyer.pc = "deleted"

-----------------------------------------------------------------------------
(* Callers.  A call that passed the check of shutdownMode may put its request after *)
(* ThreadPoolDestroy has begun; it is the caller's duty that the pool still exists. *)

\* if (p->shutdownMode) return; the same in all three functions
CheckShutdown(t) ==
    /\ call[t] = "new" /\ ~shutdownMode
    /\ call' = [call EXCEPT ![t] = "checked"]
    /\ UNCHANGED <<queue, serialVars, schedulerQueue, activeRequests, threads, workerVars, controlVars>>

\* The request is counted and queued in one step, here and below: the counter is only
\* read by the maintenance thread, once a minute
ThreadPoolExecute(t) ==
    /\ call[t] = "checked" /\ ~Deleted
    /\ queue' = Append(queue, Request("task", t))
    /\ activeRequests' = activeRequests + 1
    /\ call' = [call EXCEPT ![t] = "queued"]
    /\ UNCHANGED <<serialVars, schedulerQueue, threads, workerVars, controlVars>>

\* Mutant: every call starts a request that processes the key
BugThreadPoolExecuteSerialized(t, k) ==
    /\ call[t] = "checked" /\ ~Deleted
    /\ serialQueue' = [serialQueue EXCEPT ![k] = Append(@, t)]
    /\ serialKeys' = serialKeys \cup {k}
    /\ IF shutdownMode
       THEN UNCHANGED <<queue, activeRequests>>
       ELSE /\ queue' = Append(queue, Request("serialized", k))
            /\ activeRequests' = activeRequests + 1
    /\ call' = [call EXCEPT ![t] = "serialized"]
    /\ UNCHANGED <<schedulerQueue, threads, workerVars, controlVars>>

\* Under the serialization lock; the ThreadPoolExecute inside tests shutdownMode once
\* more, and then leaves a queue that nothing processes
ThreadPoolExecuteSerialized(t, k) ==
    /\ call[t] = "checked" /\ ~Deleted
    /\ serialQueue' = [serialQueue EXCEPT ![k] = Append(@, t)]
    /\ serialKeys' = serialKeys \cup {k}
    /\ IF k \in serialKeys \/ shutdownMode
       THEN UNCHANGED <<queue, activeRequests>>
       ELSE /\ queue' = Append(queue, Request("serialized", k))
            /\ activeRequests' = activeRequests + 1
    /\ call' = [call EXCEPT ![t] = "serialized"]
    /\ UNCHANGED <<schedulerQueue, threads, workerVars, controlVars>>

\* The run time puts the request at any place among those that are scheduled
ThreadPoolScheduleAbsoluteMs(t, i) ==
    /\ call[t] = "checked" /\ ~Deleted
    /\ schedulerQueue' = SubSeq(schedulerQueue, 1, i) \o <<t>>
                         \o SubSeq(schedulerQueue, i + 1, Len(schedulerQueue))
    /\ call' = [call EXCEPT ![t] = "scheduled"]
    /\ UNCHANGED <<queue, serialVars, activeRequests, threads, workerVars, controlVars>>

-----------------------------------------------------------------------------
(* WorkerThread *)

\* Take the oldest request and start what it asks for
WorkerTake(w) ==
    /\ pc[w] = "get" /\ queue # <<>>
    /\ LET rq == Head(queue) IN
       /\ pc' = [pc EXCEPT ![w] = CASE rq.func = "stop" -> "leaving"
                                    [] rq.func = "unregister" -> "unregister"
                                    [] rq.func = "join" -> "join"
                                    [] rq.func = "task" -> "run"
                                    [] rq.func = "serialized" -> "serial"]
       /\ job' = [job EXCEPT ![w] = IF rq.func \in {"task", "join"} THEN rq.arg ELSE None]
       /\ key' = [key EXCEPT ![w] = IF rq.func = "serialized" THEN rq.arg ELSE None]
    /\ queue' = Tail(queue)
    /\ UNCHANGED <<serialVars, schedulerQueue, activeRequests, threads, controlVars, call>>

WorkerUnregister(w) ==
    /\ pc[w] = "unregister" /\ MutexFree
    /\ threads' = threads \ {w}
    /\ pc' = [pc EXCEPT ![w] = "unregistered"]
    /\ UNCHANGED <<queue, serialVars, schedulerQueue, activeRequests, job, key, controlVars, call>>

\* Mutant: the request that joins the thread is not counted
BugWorkerQueueJoin(w) ==
    /\ pc[w] = "unregistered"
    /\ queue' = Append(queue, Request("join", w))
    /\ pc' = [pc EXCEPT ![w] = "leaving"]
    /\ UNCHANGED <<serialVars, schedulerQueue, activeRequests, threads, job, key, controlVars, call>>

\* Nobody waits for this thread: the pool may have been deleted, here and in WorkerEnd,
\* and the worker goes on with the memory that was the pool's
WorkerQueueJoin(w) ==
    /\ pc[w] = "unregistered"
    /\ activeRequests' = activeRequests + 1
    /\ queue' = Append(queue, Request("join", w))
    /\ pc' = [pc EXCEPT ![w] = "leaving"]
    /\ UNCHANGED <<serialVars, schedulerQueue, threads, job, key, controlVars, call>>

\* The last use of the pool, for its name
WorkerEnd(w) ==
    /\ pc[w] = "leaving"
    /\ pc' = [pc EXCEPT ![w] = "ended"]
    /\ UNCHANGED <<queue, serialVars, schedulerQueue, activeRequests, threads, job, key, controlVars, call>>

\* JoinWorkerThread returns when the other thread has ended, and frees its data
JoinWorkerThread(w) ==
    /\ pc[w] = "join" /\ pc[job[w]] = "ended"
    /\ pc' = [pc EXCEPT ![w] = "get", ![job[w]] = "free"]
    /\ job' = [job EXCEPT ![w] = None]
    /\ activeRequests' = activeRequests - 1
    /\ UNCHANGED <<queue, serialVars, schedulerQueue, threads, key, controlVars, call>>

\* A task ends
WorkerRun(w) ==
    /\ pc[w] = "run"
    /\ call' = [call EXCEPT ![job[w]] = "executed"]
    /\ pc' = [pc EXCEPT ![w] = "get"]
    /\ promised' = promised \ {job[w]}
    /\ job' = [job EXCEPT ![w] = None]
    /\ activeRequests' = activeRequests - 1
    /\ UNCHANGED <<queue, serialVars, schedulerQueue, threads, key, shutdownMode,
                   maint, stops, destroyer, walkVars>>

-----------------------------------------------------------------------------
(* ProcessSerializedRequests *)

TakeSerial(w) ==
    /\ job' = [job EXCEPT ![w] = Head(serialQueue[key[w]])]
    /\ serialQueue' = [serialQueue EXCEPT ![key[w]] = Tail(@)]
    /\ pc' = [pc EXCEPT ![w] = "runserial"]

\* Without the serialization lock
SerialGet(w) ==
    /\ pc[w] = "serial"
    /\ IF serialQueue[key[w]] # <<>> THEN TakeSerial(w)
       ELSE pc' = [pc EXCEPT ![w] = "recheck"] /\ UNCHANGED <<job, serialQueue>>
    /\ UNCHANGED <<queue, serialKeys, schedulerQueue, activeRequests, threads, key, controlVars, call>>

\* Mutant: the loop goes on after the queue has been removed
BugRemoveKey(w) ==
    /\ serialKeys' = serialKeys \ {key[w]}
    /\ serialQueue' = [serialQueue EXCEPT ![key[w]] = <<>>]
    /\ key' = [key EXCEPT ![w] = None]
    /\ pc' = [pc EXCEPT ![w] = "serial"]
    /\ activeRequests' = activeRequests - 1

\* The queue of the key is removed, with what it holds, and the request is done
RemoveKey(w) ==
    /\ serialKeys' = serialKeys \ {key[w]}
    /\ serialQueue' = [serialQueue EXCEPT ![key[w]] = <<>>]
    /\ key' = [key EXCEPT ![w] = None]
    /\ pc' = [pc EXCEPT ![w] = "get"]
    /\ activeRequests' = activeRequests - 1

\* Mutant: the queue is removed without another look at it
BugSerialRecheck(w) ==
    /\ pc[w] = "recheck"
    /\ RemoveKey(w)
    /\ UNCHANGED <<queue, schedulerQueue, threads, job, controlVars, call>>

\* Once more, with the serialization lock
SerialRecheck(w) ==
    /\ pc[w] = "recheck"
    /\ \/ /\ serialQueue[key[w]] # <<>>
          /\ TakeSerial(w)
          /\ UNCHANGED <<serialKeys, key, activeRequests>>
       \/ /\ serialQueue[key[w]] = <<>>
          /\ RemoveKey(w)
          /\ UNCHANGED job
    /\ UNCHANGED <<queue, schedulerQueue, threads, controlVars, call>>

\* A serialized task ends
SerialRun(w) ==
    /\ pc[w] = "runserial"
    /\ call' = [call EXCEPT ![job[w]] = "processed"]
    /\ promised' = promised \ {job[w]}
    /\ job' = [job EXCEPT ![w] = None]
    /\ pc' = [pc EXCEPT ![w] = "serial"]
    /\ UNCHANGED <<queue, serialVars, schedulerQueue, activeRequests, threads, key, shutdownMode,
                   maint, stops, destroyer, walkVars>>

-----------------------------------------------------------------------------
(* MaintenanceThread: a round of the loop may resize the pool (once a minute) before *)
(* it looks at the scheduled requests.  Wait times and load averages are arbitrary.  *)

\* Wait times are high, or no thread is left while there are requests; creation of a
\* thread may fail, which ends the loop
MaintGrow(new) ==
    /\ maint.pc = "wait" /\ new # {}
    /\ threads # {} \/ activeRequests > 0
    /\ Cardinality(threads) + Cardinality(new) <= MaxThreads
    /\ threads' = threads \cup new
    /\ pc' = [w \in Thread |-> IF w \in new THEN "get" ELSE pc[w]]
    /\ maint' = [maint EXCEPT !.pc = "schedule"]
    /\ UNCHANGED <<queue, serialVars, schedulerQueue, activeRequests, job, key, shutdownMode, stops,
                   destroyer, call, promised, walkVars>>

\* Wait times are low: threads are asked to stop, down to the minimum.  A thread whose
\* request of an earlier round is still in the queue counts as one that stays.
MaintShrink(n) ==
    /\ maint.pc = "wait" /\ stops + n <= MaxStops
    /\ n <= Cardinality(threads) - MinThreads
    /\ maint' = [pc |-> "shrink", left |-> n]
    /\ stops' = stops + n
    /\ UNCHANGED <<queue, serialVars, schedulerQueue, activeRequests, threads, workerVars,
                   shutdownMode, destroyer, call, promised, walkVars>>

MaintQueueStop ==
    /\ maint.pc = "shrink"
    /\ queue' = Append(queue, Unregister)
    /\ maint' = [pc |-> IF maint.left = 1 THEN "schedule" ELSE "shrink", left |-> maint.left - 1]
    /\ UNCHANGED <<serialVars, schedulerQueue, activeRequests, threads, workerVars, shutdownMode,
                   stops, destroyer, call, promised, walkVars>>

\* The first n scheduled requests are due; then the next round, if there is one
MaintSchedule(n) ==
    /\ maint.pc \in {"wait", "schedule"}
    /\ queue' = queue \o [i \in 1..n |-> Request("task", schedulerQueue[i])]
    /\ call' = [t \in Task |-> IF \E i \in 1..n : schedulerQueue[i] = t THEN "queued" ELSE call[t]]
    /\ schedulerQueue' = SubSeq(schedulerQueue, n + 1, Len(schedulerQueue))
    /\ activeRequests' = activeRequests + n
    /\ maint' = [maint EXCEPT !.pc = IF shutdownMode THEN "ended" ELSE "wait"]
    /\ UNCHANGED <<serialVars, threads, workerVars, shutdownMode, stops, destroyer, promised, walkVars>>

-----------------------------------------------------------------------------
(* ThreadPoolDestroy *)

\* Registered threads for which a stop request of the maintenance thread is under way
StopRequested ==
    Cardinality({i \in 1..Len(queue) : queue[i] = Unregister})
    + Cardinality({w \in threads : pc[w] = "unregister"})

\* A thread is about to unregister itself, or has and still uses the pool
StopUnderWay ==
    \/ \E i \in 1..Len(queue) : queue[i] = Unregister
    \/ \E w \in Thread : \/ pc[w] \in {"unregister", "unregistered"}
                         \/ pc[w] = "leaving" /\ w \notin threads

DestroyBegin ==
    /\ destroyer.pc = "idle"
    /\ shutdownMode' = TRUE
    /\ destroyer' = [destroyer EXCEPT !.pc = "joinmaint"]
    /\ promised' = {t \in Task : call[t] \in {"queued", "serialized"}}
    /\ UNCHANGED <<queue, serialVars, schedulerQueue, activeRequests, threads, workerVars, maint,
                   stops, call, walkVars>>

\* Mutant: one stop request too few
BugDestroyCount ==
    /\ destroyer.pc = "joinmaint" /\ maint.pc = "ended"
    /\ destroyer' = [pc |-> IF Cardinality(threads) <= 1 THEN "join" ELSE "stop",
                     left |-> Cardinality(threads) - 1]
    /\ promised' = IF StopRequested < Cardinality(threads) THEN promised ELSE {}
    /\ overlap' = StopUnderWay
    /\ UNCHANGED <<queue, serialVars, schedulerQueue, activeRequests, threads, workerVars,
                   shutdownMode, maint, stops, call, walk, stale>>

\* The maintenance thread has been joined: one stop request for every registered thread.
\* When all of them have been asked to stop before, by overlapping rounds of the
\* maintenance thread, none may be left for the tasks, and nothing is promised.
DestroyCount ==
    /\ destroyer.pc = "joinmaint" /\ maint.pc = "ended"
    /\ destroyer' = [pc |-> IF threads = {} THEN "join" ELSE "stop", left |-> Cardinality(threads)]
    /\ promised' = IF StopRequested < Cardinality(threads) THEN promised ELSE {}
    /\ overlap' = StopUnderWay
    /\ UNCHANGED <<queue, serialVars, schedulerQueue, activeRequests, threads, workerVars,
                   shutdownMode, maint, stops, call, walk, stale>>

\* Mutant: the stop requests overtake the requests that wait
BugDestroyQueueStop ==
    /\ destroyer.pc = "stop"
    /\ queue' = <<Stop>> \o queue
    /\ destroyer' = [pc |-> IF destroyer.left = 1 THEN "join" ELSE "stop", left |-> destroyer.left - 1]
    /\ UNCHANGED <<serialVars, schedulerQueue, activeRequests, threads, workerVars, shutdownMode,
                   maint, stops, call, promised, walkVars>>

DestroyQueueStop ==
    /\ destroyer.pc = "stop"
    /\ queue' = Append(queue, Stop)
    /\ destroyer' = [pc |-> IF destroyer.left = 1 THEN "join" ELSE "stop", left |-> destroyer.left - 1]
    /\ UNCHANGED <<serialVars, schedulerQueue, activeRequests, threads, workerVars, shutdownMode,
                   maint, stops, call, promised, walkVars>>

\* forEach over the map of threads, without the mutex.  The entry that follows in the list
\* is read before the thread of the present entry is joined; it is any that is registered
\* and has not been read, as nothing is known of the order in which threads were started.
Following(read) == IF threads \subseteq read THEN {None} ELSE threads \ read

DestroyWalk ==
    /\ destroyer.pc = "join"
    /\ destroyer' = [destroyer EXCEPT !.pc = "walk"]
    /\ \E a \in Following({}) : \E n \in Following({a}) :
          walk' = [at |-> a, next |-> n, read |-> {a, n}]
    /\ UNCHANGED <<queue, serialVars, schedulerQueue, activeRequests, threads, workerVars,
                   shutdownMode, maint, stops, call, promised, overlap, stale>>

\* The thread has ended, and may have been joined by a worker too
Joined(w) == pc[w] \in {"ended", "free"}

DestroyJoin ==
    /\ destroyer.pc = "walk" /\ walk.at # None /\ Joined(walk.at)
    /\ walk.next \in threads \cup {None}
    /\ \E n \in IF walk.next = None THEN {None} ELSE Following(walk.read) :
          walk' = [at |-> walk.next, next |-> n, read |-> walk.read \cup {n}]
    /\ UNCHANGED <<queue, serialVars, schedulerQueue, activeRequests, threads, workerVars,
                   shutdownMode, maint, stops, destroyer, call, promised, overlap, stale>>

\* The same when the thread of the next entry has removed that entry from the map: its
\* memory has been freed.  It may still hold the thread, and lead to any, or end the walk.
DestroyJoinStale ==
    /\ destroyer.pc = "walk" /\ walk.at # None /\ Joined(walk.at)
    /\ walk.next \notin threads \cup {None}
    /\ stale' = TRUE
    /\ \/ walk' = [walk EXCEPT !.at = None, !.next = None]
       \/ \E n \in (Thread \ walk.read) \cup {None} :
             walk' = [at |-> walk.next, next |-> n, read |-> walk.read \cup {n}]
    /\ UNCHANGED <<queue, serialVars, schedulerQueue, activeRequests, threads, workerVars,
                   shutdownMode, maint, stops, destroyer, call, promised, overlap>>

\* The walk is over: delete p
DestroyDelete ==
    /\ destroyer.pc = "walk" /\ walk.at = None
    /\ destroyer' = [destroyer EXCEPT !.pc = "deleted"]
    /\ walk' = NoWalk
    /\ UNCHANGED <<queue, serialVars, schedulerQueue, activeRequests, threads, workerVars,
                   shutdownMode, maint, stops, call, promised, overlap, stale>>

-----------------------------------------------------------------------------
Terminated == Deleted /\ UNCHANGED vars

Worker(w) ==
    \/ WorkerTake(w) \/ WorkerUnregister(w) \/ WorkerQueueJoin(w)
    \/ WorkerEnd(w) \/ JoinWorkerThread(w) \/ WorkerRun(w)
    \/ SerialGet(w) \/ SerialRecheck(w) \/ SerialRun(w)

\* Identities are numbers; the lowest that are free are used for new threads
Free == {w \in Thread : pc[w] = "free"}
NewThreads == {new \in SUBSET Free : \A w \in new, x \in Free \ new : w < x}

Maintenance ==
    \/ \E new \in NewThreads : MaintGrow(new)
    \/ MaintQueueStop
    \/ \E n \in 0..Len(schedulerQueue) : MaintSchedule(n)

WalkThreads == DestroyWalk \/ DestroyJoin \/ DestroyJoinStale \/ DestroyDelete
Destroy == DestroyCount \/ DestroyQueueStop \/ WalkThreads

Next ==
    \/ \E t \in Task : CheckShutdown(t)
    \/ \E t \in Task : ThreadPoolExecute(t)
    \/ \E t \in Task, k \in Key : ThreadPoolExecuteSerialized(t, k)
    \/ \E t \in Task, i \in 0..Len(schedulerQueue) : ThreadPoolScheduleAbsoluteMs(t, i)
    \/ \E w \in Thread : Worker(w)
    \/ Maintenance
    \/ \E n \in 1..MaxThreads : MaintShrink(n)
    \/ DestroyBegin \/ Destroy
    \/ Terminated

Spec == Init /\ [][Next]_vars

Rescue == threads = {} /\ \E new \in NewThreads : MaintGrow(new)
RunDue == \E n \in 1..Len(schedulerQueue) : MaintSchedule(n)

\* Threads run and tasks end; a pool without threads gets one, as the maintenance thread
\* tries every minute; every run time comes.  Nothing is assumed of the callers, and
\* ThreadPoolDestroy, once called, goes on.
FairSpec ==
    /\ Spec
    /\ \A w \in Thread : WF_vars(Worker(w))
    /\ WF_vars(Maintenance) /\ SF_vars(Rescue) /\ SF_vars(RunDue)
    /\ WF_vars(Destroy)

-----------------------------------------------------------------------------
Requests == [func : {"stop", "unregister"}, arg : {None}] \cup [func : {"join"}, arg : Thread]
            \cup [func : {"task"}, arg : Task]
            \cup [func : {"serialized"}, arg : Key]
Idle == {"free", "get", "unregister", "unregistered", "leaving", "ended"}
InSerial == {"serial", "recheck", "runserial"}

\* Every variable has its type; what a worker holds fits what it does.
TypeOK ==
    /\ queue \in Seq(Requests)
    /\ serialQueue \in [Key -> Seq(Task)] /\ serialKeys \in SUBSET Key
    /\ schedulerQueue \in Seq(Task)
    /\ activeRequests \in Int
    /\ threads \in SUBSET Thread
    /\ pc \in [Thread -> Idle \cup InSerial \cup {"join", "run"}]
    /\ job \in [Thread -> Task \cup Thread \cup {None}] /\ key \in [Thread -> Key \cup {None}]
    /\ \A w \in Thread :
          /\ pc[w] = "run" => job[w] \in Task
          /\ pc[w] = "runserial" => job[w] \in Task
          /\ pc[w] = "join" => job[w] \in Thread
          /\ pc[w] \in InSerial => key[w] \in Key
    /\ shutdownMode \in BOOLEAN
    /\ maint \in [pc : {"wait", "shrink", "schedule", "ended"}, left : Int] /\ stops \in Int
    /\ destroyer \in [pc : {"idle", "joinmaint", "stop", "join", "walk", "deleted"}, left : Int]
    /\ walk \in [at : Thread \cup {None}, next : Thread \cup {None}, read : SUBSET (Thread \cup {None})]
    /\ overlap \in BOOLEAN /\ stale \in BOOLEAN
    /\ call \in [Task -> {"new", "checked", "scheduled", "queued", "executed",
                      "serialized", "processed"}]
    /\ promised \in SUBSET Task

\* The counter from which the maintenance thread learns that a pool without threads has
\* work is exact: requests in the queue, other than stop requests, and at the workers.
ActiveRequestsExact ==
    activeRequests = Cardinality({i \in 1..Len(queue) : queue[i].func \in {"join", "task", "serialized"}})
                     + Cardinality({w \in Thread : pc[w] \in InSerial \cup {"join", "run"}})

\* A registered key has exactly one request that processes it, in the queue or at a
\* worker, and no other key has one; only a call that races with ThreadPoolDestroy may
\* leave a key without.
QueuedFor(k) == {i \in 1..Len(queue) : queue[i] = Request("serialized", k)}
WorkersOn(k) == {w \in Thread : pc[w] \in InSerial /\ key[w] = k}
OneProcessor ==
    \A k \in Key :
        LET n == Cardinality(QueuedFor(k)) + Cardinality(WorkersOn(k))
        IN IF k \in serialKeys THEN n = 1 \/ (n = 0 /\ shutdownMode)
           ELSE n = 0 /\ serialQueue[k] = <<>>

\* When the pool is deleted, no thread uses it any more, if no thread was stopping by
\* itself when ThreadPoolDestroy counted the threads.  If some were, those may still use the
\* deleted pool (and no others), and one may remove the entry that the walk goes to next.
\* Unless it does, every task that was accepted before ThreadPoolDestroy was called has
\* been run, if one thread was left for it.
DestroyWaits ==
    Deleted => /\ ~overlap => \A w \in Thread : pc[w] \in {"free", "ended"}
               /\ ~stale => /\ promised = {}
                            /\ \A w \in Thread : \/ pc[w] \in {"free", "ended"}
                                                 \/ w \notin threads /\ pc[w] \in {"unregistered", "leaving"}

\* What the abstract specification sees of serialized execution
Running(k) ==
    LET on == {w \in Thread : pc[w] = "runserial" /\ key[w] = k}
    IN IF on = {} THEN None ELSE job[CHOOSE w \in on : TRUE]
Serial == INSTANCE SerialExecution WITH
    SerialTask <- Task,
    submitted <- {t \in Task : call[t] \in {"serialized", "processed"}},
    waiting <- serialQueue,
    running <- [k \in Key |-> Running(k)]

\* Serialized execution keeps its promise, whichever workers process the key, however
\* often its queue is removed and created again.
ImplementsSerialExecution == Serial!Spec

\* An accepted task is run, unless the pool is shut down: no stop request, no removal of
\* a key and no loss of all the threads leaves it behind.
Outstanding == {t \in Task : call[t] \in {"scheduled", "queued", "serialized"}}
AcceptedRuns == Outstanding # {} ~> Outstanding = {} \/ shutdownMode

\* ThreadPoolDestroy returns: every thread that it joins gets a stop request.
DestroyReturns == shutdownMode ~> Deleted

=============================================================================
