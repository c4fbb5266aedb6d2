--------------------------- MODULE EventProcessor ---------------------------
(***************************************************************************)
(* Parallel event processing (src/server/core/evproc.cpp), used when       *)
(* Events.Processor.PoolSize is above 1.  The master thread takes events   *)
(* from g_eventQueue, computes the queue key of each with the configured   *)
(* selector and hands it to the worker to which that key is bound.  A key  *)
(* may be bound to another worker only while none of its events is in      *)
(* flight; bindings that are not in use are freed.  The storm detector     *)
(* switches the server to dropping events, and shutdown drains the queues. *)
(***************************************************************************)
EXTENDS Integers, Sequences, FiniteSets

CONSTANTS
    QueueKey,       \* values of the queue selector
    MgmtKey,        \* queue key of the server's own events
    PoolSize,       \* number of event processing threads
    MaxEvents,      \* bound: events posted
    Duration,       \* configuration EventStorm.Duration, 0 if detection is off
    NoKey           \* no queue key

ASSUME QueueKeyAssumption == MgmtKey \in QueueKey /\ NoKey \notin QueueKey /\ IsFiniteSet(QueueKey)
ASSUME NumberAssumption == PoolSize \in Nat \ {0} /\ MaxEvents \in Nat /\ Duration \in Nat

Worker == 1..PoolSize
Event == [id : 1..MaxEvents, key : QueueKey, storm : BOOLEAN]
NoEvent == [id |-> 0, key |-> NoKey, storm |-> FALSE]
Stop == [id |-> -1, key |-> NoKey, storm |-> FALSE]     \* INVALID_POINTER_VALUE
\* EventQueueBinding; worker 0 if the key is not in the hash table
Binding == [worker : 0..PoolSize, usage : 0..MaxEvents]
Unbound == [worker |-> 0, usage |-> 0]

VARIABLES
    eventQueue,     \* g_eventQueue
    posted,         \* number of events posted
    stopping,       \* the shutdown indicator has been posted
    master,         \* state of the master thread
    binding,        \* queueBindings: key -> binding
    queue,          \* queue of every worker
    bindings,       \* number of keys bound to every worker
    worker,         \* state of every worker and the event it works on
    loggerQueue,    \* s_loggerQueue
    logger,         \* the logger thread is running
    storm,          \* AF_EVENT_STORM_DETECTED
    actualDuration, \* seconds above the threshold that the detector has counted
    hotRun          \* history: consecutive seconds above the threshold, up to Duration

poolVars  == <<binding, queue, bindings>>
logVars   == <<loggerQueue, logger>>
stormVars == <<storm, actualDuration, hotRun>>
vars == <<eventQueue, posted, stopping, master, binding, queue, bindings, worker,
          loggerQueue, logger, storm, actualDuration, hotRun>>

Init ==
    /\ eventQueue = <<>> /\ posted = 0 /\ stopping = FALSE
    /\ master = [pc |-> "loop", e |-> NoEvent, target |-> 0]
    /\ binding = [k \in QueueKey |-> Unbound]
    /\ queue = [w \in Worker |-> <<>>]
    /\ bindings = [w \in Worker |-> 0]
    /\ worker = [w \in Worker |-> [pc |-> "get", e |-> NoEvent]]
    /\ loggerQueue = <<>> /\ logger = TRUE
    /\ storm = FALSE /\ actualDuration = 0 /\ hotRun = 0

-----------------------------------------------------------------------------
(* Producers *)

\* g_eventQueue.put by any thread that posts an event
PostEvent(k) ==
    /\ posted < MaxEvents
    /\ posted' = posted + 1
    /\ eventQueue' = Append(eventQueue, [id |-> posted + 1, key |-> k, storm |-> FALSE])
    /\ UNCHANGED <<stopping, master, poolVars, worker, logVars, stormVars>>

\* Server shutdown
PostStop ==
    /\ ~stopping
    /\ stopping' = TRUE
    /\ eventQueue' = Append(eventQueue, Stop)
    /\ UNCHANGED <<posted, master, poolVars, worker, logVars, stormVars>>

-----------------------------------------------------------------------------
(* Storm detector: one second; hot if the event rate was above the threshold.   *)
(* It sees the shutdown flag at some time before the master has joined it.      *)

StormTick(hot) ==
    /\ Duration > 0 /\ master.pc # "done"
    /\ hotRun' = IF ~hot THEN 0 ELSE IF hotRun < Duration THEN hotRun + 1 ELSE hotRun
    /\ \/ /\ hot /\ ~storm /\ actualDuration + 1 < Duration
          /\ actualDuration' = actualDuration + 1
          /\ UNCHANGED <<storm, eventQueue, posted>>
       \/ /\ hot /\ ~storm /\ actualDuration + 1 >= Duration /\ posted < MaxEvents
          /\ actualDuration' = actualDuration + 1
          /\ storm' = TRUE
          /\ posted' = posted + 1
          /\ eventQueue' = Append(eventQueue, [id |-> posted + 1, key |-> MgmtKey, storm |-> TRUE])
       \/ /\ ~hot /\ storm /\ posted < MaxEvents
          /\ actualDuration' = 0
          /\ storm' = FALSE
          /\ posted' = posted + 1
          /\ eventQueue' = Append(eventQueue, [id |-> posted + 1, key |-> MgmtKey, storm |-> FALSE])
       \/ /\ hot = storm
          /\ UNCHANGED <<actualDuration, storm, eventQueue, posted>>
    /\ UNCHANGED <<stopping, master, poolVars, worker, logVars>>

-----------------------------------------------------------------------------
(* Master thread *)

AtLoop == master.pc \in {"loop", "after"}
\* Mutant: a key moves away from a busy worker even while its events are in flight
BugNeedsWorker(k) ==
    \/ binding[k].worker = 0
    \/ queue[binding[k].worker] # <<>>

\* The key needs a (new) worker: it is not bound, or it is bound to a worker that is
\* busy with other keys while none of its own events is in flight
NeedsWorker(k) ==
    \/ binding[k].worker = 0
    \/ binding[k].usage = 0 /\ queue[binding[k].worker] # <<>>

MasterDrop ==
    /\ AtLoop /\ eventQueue # <<>> /\ Head(eventQueue) # Stop
    /\ storm /\ ~Head(eventQueue).storm
    /\ eventQueue' = Tail(eventQueue)
    /\ master' = [master EXCEPT !.pc = "loop"]
    /\ UNCHANGED <<posted, stopping, poolVars, worker, logVars, stormVars>>

\* Look up the binding; the less loaded worker, if one is needed, may be any
MasterSelect(target) ==
    /\ AtLoop /\ eventQueue # <<>> /\ Head(eventQueue) # Stop
    /\ storm => Head(eventQueue).storm
    /\ (target # 0) = NeedsWorker(Head(eventQueue).key)
    /\ eventQueue' = Tail(eventQueue)
    /\ master' = [pc |-> "put", e |-> Head(eventQueue), target |-> target]
    /\ UNCHANGED <<posted, stopping, poolVars, worker, logVars, stormVars>>

\* Bind the key or count one more event in flight, and queue the event
MasterPut ==
    /\ master.pc = "put"
    /\ LET k == master.e.key
           old == binding[k].worker
           w == IF master.target = 0 THEN old ELSE master.target
           n == IF master.target = 0 THEN binding[k].usage + 1 ELSE 1
       IN /\ binding' = [binding EXCEPT ![k] = [worker |-> w, usage |-> n]]
          /\ bindings' = IF master.target = 0 THEN bindings
                         ELSE [x \in Worker |-> bindings[x] + (IF x = w THEN 1 ELSE 0)
                                                            - (IF x = old THEN 1 ELSE 0)]
          /\ queue' = [queue EXCEPT ![w] = Append(@, master.e)]
    /\ master' = [pc |-> "after", e |-> NoEvent, target |-> 0]
    /\ UNCHANGED <<eventQueue, posted, stopping, worker, logVars, stormVars>>

\* Mutant: the load figure of the workers is left alone
BugMasterCleanup ==
    /\ master.pc = "after" \/ (master.pc = "loop" /\ eventQueue = <<>>)
    /\ binding' = [k \in QueueKey |-> IF binding[k].usage = 0 THEN Unbound ELSE binding[k]]
    /\ master' = [master EXCEPT !.pc = "loop"]
    /\ UNCHANGED <<eventQueue, posted, stopping, queue, bindings, worker, logVars, stormVars>>

\* Remove outdated bindings: on a timeout of the queue, or after an event when the
\* last cleanup was long ago
MasterCleanup ==
    /\ master.pc = "after" \/ (master.pc = "loop" /\ eventQueue = <<>>)
    /\ binding' = [k \in QueueKey |-> IF binding[k].usage = 0 THEN Unbound ELSE binding[k]]
    /\ bindings' = [w \in Worker |-> bindings[w] -
                      Cardinality({k \in QueueKey : binding[k].worker = w /\ binding[k].usage = 0})]
    /\ master' = [master EXCEPT !.pc = "loop"]
    /\ UNCHANGED <<eventQueue, posted, stopping, queue, worker, logVars, stormVars>>

\* Shutdown indicator: the workers are stopped and joined one after the other
MasterStop ==
    /\ AtLoop /\ eventQueue # <<>> /\ Head(eventQueue) = Stop
    /\ eventQueue' = Tail(eventQueue)
    /\ queue' = [queue EXCEPT ![1] = Append(@, Stop)]
    /\ master' = [pc |-> "join", e |-> NoEvent, target |-> 1]
    /\ UNCHANGED <<posted, stopping, binding, bindings, worker, logVars, stormVars>>

\* Mutant: only the first worker is told to stop
BugMasterJoin ==
    /\ master.pc = "join" /\ worker[master.target].pc = "done"
    /\ IF master.target < PoolSize
       THEN /\ master' = [master EXCEPT !.target = @ + 1]
            /\ UNCHANGED loggerQueue
       ELSE /\ master' = [master EXCEPT !.pc = "joinlogger"]
            /\ loggerQueue' = Append(loggerQueue, Stop)
    /\ UNCHANGED <<eventQueue, posted, stopping, poolVars, worker, logger, stormVars>>

MasterJoin ==
    /\ master.pc = "join" /\ worker[master.target].pc = "done"
    /\ IF master.target < PoolSize
       THEN /\ queue' = [queue EXCEPT ![master.target + 1] = Append(@, Stop)]
            /\ master' = [master EXCEPT !.target = @ + 1]
            /\ UNCHANGED loggerQueue
       ELSE /\ master' = [master EXCEPT !.pc = "joinlogger"]
            /\ loggerQueue' = Append(loggerQueue, Stop)
            /\ UNCHANGED queue
    /\ UNCHANGED <<eventQueue, posted, stopping, binding, bindings, worker, logger, stormVars>>

MasterExit ==
    /\ master.pc = "joinlogger" /\ ~logger
    /\ master' = [master EXCEPT !.pc = "done"]
    /\ UNCHANGED <<eventQueue, posted, stopping, poolVars, worker, logVars, stormVars>>

-----------------------------------------------------------------------------
(* EventProcessingThread::run *)

\* Mutant: the shutdown indicator is taken for an event
BugWorkerTake(w) ==
    /\ worker[w].pc = "get" /\ queue[w] # <<>>
    /\ worker' = [worker EXCEPT ![w] = [pc |-> "process", e |-> Head(queue[w])]]
    /\ queue' = [queue EXCEPT ![w] = Tail(@)]
    /\ UNCHANGED <<eventQueue, posted, stopping, master, binding, bindings, logVars, stormVars>>

WorkerTake(w) ==
    /\ worker[w].pc = "get" /\ queue[w] # <<>>
    /\ worker' = [worker EXCEPT ![w] = IF Head(queue[w]) = Stop
                                       THEN [pc |-> "done", e |-> NoEvent]
                                       ELSE [pc |-> "process", e |-> Head(queue[w])]]
    /\ queue' = [queue EXCEPT ![w] = Tail(@)]
    /\ UNCHANGED <<eventQueue, posted, stopping, master, binding, bindings, logVars, stormVars>>

\* ProcessEvent is done: the event goes to the logger, or is deleted
WorkerProcess(w) ==
    /\ worker[w].pc = "process"
    /\ worker' = [worker EXCEPT ![w].pc = "release"]
    /\ \/ loggerQueue' = Append(loggerQueue, worker[w].e)
       \/ UNCHANGED loggerQueue
    /\ UNCHANGED <<eventQueue, posted, stopping, master, poolVars, logger, stormVars>>

\* Mutant: the counter is reset instead of decremented
BugWorkerRelease(w) ==
    /\ worker[w].pc = "release"
    /\ binding' = [binding EXCEPT ![worker[w].e.key].usage = 0]
    /\ worker' = [worker EXCEPT ![w] = [pc |-> "get", e |-> NoEvent]]
    /\ UNCHANGED <<eventQueue, posted, stopping, master, queue, bindings, logVars, stormVars>>

\* InterlockedDecrement of the binding's usage counter
WorkerRelease(w) ==
    /\ worker[w].pc = "release"
    /\ binding' = [binding EXCEPT ![worker[w].e.key].usage = @ - 1]
    /\ worker' = [worker EXCEPT ![w] = [pc |-> "get", e |-> NoEvent]]
    /\ UNCHANGED <<eventQueue, posted, stopping, master, queue, bindings, logVars, stormVars>>

\* EventLogger: write the event, if it may be written, and free it
LoggerStep ==
    /\ logger /\ loggerQueue # <<>>
    /\ loggerQueue' = Tail(loggerQueue)
    /\ logger' = (Head(loggerQueue) # Stop)
    /\ UNCHANGED <<eventQueue, posted, stopping, master, poolVars, worker, stormVars>>

-----------------------------------------------------------------------------
Terminated == master.pc = "done" /\ posted = MaxEvents /\ UNCHANGED vars

Master == \/ MasterDrop \/ \E target \in 0..PoolSize : MasterSelect(target)
          \/ MasterPut \/ MasterStop \/ MasterJoin \/ MasterExit
WorkerStep(w) == WorkerTake(w) \/ WorkerProcess(w) \/ WorkerRelease(w)

Next ==
    \/ \E k \in QueueKey : PostEvent(k)
    \/ PostStop
    \/ \E hot \in BOOLEAN : StormTick(hot)
    \/ Master \/ MasterCleanup
    \/ \E w \in Worker : WorkerStep(w)
    \/ LoggerStep
    \/ Terminated

Spec == Init /\ [][Next]_vars

\* Every thread that can run does; nothing is assumed of the producers
FairSpec ==
    /\ Spec
    /\ WF_vars(Master) /\ WF_vars(LoggerStep)
    /\ \A w \in Worker : WF_vars(WorkerStep(w))

-----------------------------------------------------------------------------
\* Worker w has an event of key k in its hands
Handles(w, k) == worker[w].pc \in {"process", "release"} /\ worker[w].e.key = k
\* Events of key k that have been given to worker w and not been released
InFlight(w, k) == Cardinality({i \in 1..Len(queue[w]) : queue[w][i].key = k})
                  + IF Handles(w, k) THEN 1 ELSE 0

\* Every variable has its type; whoever has an event to handle has one.
TypeOK ==
    /\ eventQueue \in Seq(Event \cup {Stop})
    /\ posted \in 0..MaxEvents /\ stopping \in BOOLEAN
    /\ master \in [pc : {"loop", "put", "after", "join", "joinlogger", "done"},
                   e : Event \cup {NoEvent}, target : 0..PoolSize]
    /\ master.pc = "put" => master.e \in Event
    /\ binding \in [QueueKey -> Binding]
    /\ queue \in [Worker -> Seq(Event \cup {Stop})]
    /\ bindings \in [Worker -> 0..Cardinality(QueueKey)]
    /\ worker \in [Worker -> [pc : {"get", "process", "release", "done"},
                              e : Event \cup {NoEvent}]]
    /\ \A w \in Worker : worker[w].pc \in {"process", "release"} => worker[w].e \in Event
    /\ loggerQueue \in Seq(Event \cup {Stop}) /\ logger \in BOOLEAN
    /\ storm \in BOOLEAN /\ actualDuration \in 0..Duration /\ hotRun \in 0..Duration

\* The usage counter of a binding is exactly the number of events of its key in flight,
\* all of them at the worker it names: a binding that is freed or moved has none, and
\* no worker ever decrements the counter of a binding that has been freed.
UsageCountsInFlight ==
    \A k \in QueueKey, w \in Worker :
        InFlight(w, k) = IF binding[k].worker = w THEN binding[k].usage ELSE 0

\* The load figure of a worker is the number of keys bound to it; it steers the choice
\* of the less loaded worker and resets its statistics at zero.
BindingsCounted ==
    \A w \in Worker : bindings[w] = Cardinality({k \in QueueKey : binding[k].worker = w})

\* What the abstract specification sees: the accepted events of a key are in the queues of
\* the workers and in the hands of the master.
Elements(q) == {q[i] : i \in 1..Len(q)}
Line(k) == {e \in UNION {Elements(queue[w]) : w \in Worker} : e.key = k}
           \cup (IF master.pc = "put" /\ master.e.key = k THEN {master.e} ELSE {})
Running(k) == {worker[w].e : w \in {v \in Worker : worker[v].pc = "process" /\ worker[v].e.key = k}}

Order == INSTANCE EventOrder WITH
    inbox <- Elements(eventQueue) \ {Stop},
    line <- [k \in QueueKey |-> Line(k)],
    running <- [k \in QueueKey |-> Running(k)]

\* Parallel processing keeps the promise of EventOrder: per key, events are processed
\* in posting order, one at a time, none lost or repeated, however keys move between
\* workers and whenever bindings are freed.
ImplementsEventOrder == Order!Spec

\* Once the shutdown indicator has been posted the processor stops, with every event
\* that was accepted before it processed and every logged event written.
ShutdownDrains ==
    stopping ~> /\ master.pc = "done" /\ loggerQueue = <<>>
                /\ \A w \in Worker : queue[w] = <<>> /\ worker[w].pc = "done"

\* An event storm is declared only when the event rate has been above the threshold
\* for EventStorm.Duration seconds in a row.
StormAfterDuration == storm => hotRun >= Duration

=============================================================================
