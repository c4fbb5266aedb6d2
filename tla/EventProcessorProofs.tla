------------------------ MODULE EventProcessorProofs ------------------------
(***************************************************************************)
(* Proofs about parallel event processing, for any number of workers,      *)
(* queue keys and events: the usage counters are exact, the load figures   *)
(* of the workers too, and processing implements EventOrder.               *)
(*                                                                         *)
(* The counters are inductive together with what the master thread has     *)
(* found out about a key (MasterFits).  The refinement needs that events   *)
(* go through the queues in posting order (Ordered); that a key has one    *)
(* worker at a time is what UsageCountsInFlight says.                      *)
(***************************************************************************)
EXTENDS EventProcessor, SequenceLemmas

-----------------------------------------------------------------------------
(* The invariant *)

\* Workers that have an event in their hands
Handled(w) == worker[w].pc \in {"process", "release"}

\* Events of a queue are numbered upwards, and all of them from a number on
Increasing(s) == \A i, j \in 1..Len(s) : i < j /\ s[i] # Stop /\ s[j] # Stop => s[i].id < s[j].id
After(n, s) == \A i \in 1..Len(s) : s[i] # Stop => n < s[i].id

\* Worker w has event e, in its queue or in its hands
Has(w, e) == e \in Event /\ (e \in Elements(queue[w]) \/ (Handled(w) /\ worker[w].e = e))

\* Events reach the master and from there the workers in posting order
InboxOrdered ==
    Increasing(eventQueue) /\ \A x \in Elements(eventQueue) : x.id <= posted
MasterOrdered ==
    master.pc = "put" => master.e.id <= posted /\ After(master.e.id, eventQueue)
HandedOrdered ==
    \A w \in Worker, e \in Event :
        Has(w, e) => /\ e.id <= posted /\ After(e.id, eventQueue)
                     /\ master.pc = "put" => e.id < master.e.id
WorkersOrdered ==
    \A w \in Worker : /\ Increasing(queue[w])
                      /\ Handled(w) => After(worker[w].e.id, queue[w])
Ordered == InboxOrdered /\ MasterOrdered /\ HandedOrdered /\ WorkersOrdered

\* What the master has found out about a key stays true until it uses it: a key that
\* stays with its worker is bound, a key that gets one has no events in flight
MasterFits ==
    /\ \A k \in QueueKey : binding[k].worker = 0 => binding[k].usage = 0
    /\ master.pc = "put" => IF master.target = 0 THEN binding[master.e.key].worker # 0
                            ELSE binding[master.e.key].usage = 0

\* The detector declares a storm when it has counted Duration seconds
DurationFits == ~storm /\ Duration > 0 => actualDuration < Duration

\* The inductive invariant
IInv == TypeOK /\ UsageCountsInFlight /\ BindingsCounted /\ Ordered /\ MasterFits /\ DurationFits

-----------------------------------------------------------------------------
(* Events and queues *)

\* What a queue may hold
Item == Event \cup {Stop}

\* The events of a key
KeyEvents(k) == {e \in Event : e.key = k}

\* The fields of an event; the shutdown indicator is not an event and has no key.
LEMMA EventFields ==
    /\ Stop \notin Event /\ NoEvent \notin Event /\ Stop.key = NoKey /\ Stop.id = -1
    /\ NoKey \notin QueueKey /\ MgmtKey \in QueueKey
    /\ \A e \in Event : e.id \in 1..MaxEvents /\ e.key \in QueueKey /\ e.storm \in BOOLEAN
    /\ \A i \in 1..MaxEvents, k \in QueueKey, b \in BOOLEAN :
          LET e == [id |-> i, key |-> k, storm |-> b] IN e \in Event /\ e.id = i /\ e.key = k /\ e.storm = b
BY QueueKeyAssumption, NumberAssumption DEF Event, Stop, NoEvent

\* The invariant counts the elements of a queue that are events of a key.
LEMMA KeyCounted ==
    ASSUME NEW q \in Seq(Item), NEW k \in QueueKey
    PROVE  /\ Cardinality({i \in 1..Len(q) : q[i].key = k}) = Count(q, KeyEvents(k))
           /\ Count(q, KeyEvents(k)) \in Nat
<1>1. \A i \in 1..Len(q) : q[i] \in Item
    BY ElementOfSeq
<1>2. {i \in 1..Len(q) : q[i].key = k} = At(q, KeyEvents(k))
    BY <1>1, EventFields DEF At, KeyEvents, Item
<1> QED BY <1>2, CountType DEF Count

\* An element at the end of a queue.
LEMMA QueueAppend ==
    ASSUME NEW q \in Seq(Item), NEW x \in Item
    PROVE  /\ Append(q, x) \in Seq(Item)
           /\ Elements(Append(q, x)) = Elements(q) \cup {x}
           /\ Increasing(q) /\ (x = Stop \/ \A e \in Elements(q) : e # Stop => e.id < x.id)
                 => Increasing(Append(q, x))
           /\ \A n : After(n, q) /\ (x = Stop \/ n < x.id) => After(n, Append(q, x))
<1> DEFINE p == Append(q, x)
<1>1. /\ p \in Seq(Item) /\ Len(p) = Len(q) + 1 /\ Len(q) \in Nat
      /\ \A i \in 1..Len(q) : p[i] = q[i]
      /\ p[Len(q) + 1] = x
    BY AppendProperties, LenProperties
<1> HIDE DEF p
<1>2. \A i \in 1..Len(p) : i \in 1..Len(q) \/ i = Len(q) + 1
    BY <1>1
<1>3. \A i \in 1..Len(q) : i \in 1..Len(p) /\ p[i] = q[i]
    BY <1>1
<1>4. Len(q) + 1 \in 1..Len(p)
    BY <1>1
<1>5. Elements(p) = Elements(q) \cup {x}
    BY <1>1, <1>2, <1>3, <1>4 DEF Elements
<1>6. ASSUME Increasing(q), x = Stop \/ \A e \in Elements(q) : e # Stop => e.id < x.id
      PROVE  Increasing(p)
    <2> SUFFICES ASSUME NEW i \in 1..Len(p), NEW j \in 1..Len(p), i < j, p[i] # Stop, p[j] # Stop
                 PROVE  p[i].id < p[j].id
        BY DEF Increasing
    <2>1. i \in 1..Len(q)
        BY <1>1
    <2>2. CASE j \in 1..Len(q)
        BY <1>3, <1>6, <2>1, <2>2 DEF Increasing
    <2>3. CASE j = Len(q) + 1
        BY <1>1, <1>3, <1>6, <2>1, <2>3 DEF Elements
    <2> QED BY <1>2, <2>2, <2>3
<1>7. ASSUME NEW n, After(n, q), x = Stop \/ n < x.id PROVE After(n, p)
    BY <1>1, <1>2, <1>7 DEF After
<1> QED BY <1>1, <1>5, <1>6, <1>7 DEF p

\* A queue without its first element.
LEMMA QueueTail ==
    ASSUME NEW q \in Seq(Item), q # <<>>
    PROVE  /\ Tail(q) \in Seq(Item) /\ Head(q) \in Item
           /\ Elements(q) = {Head(q)} \cup Elements(Tail(q))
           /\ Increasing(q) => Increasing(Tail(q)) /\ (Head(q) # Stop => After(Head(q).id, Tail(q)))
           /\ \A n : After(n, q) => After(n, Tail(q)) /\ (Head(q) # Stop => n < Head(q).id)
<1> DEFINE p == Tail(q)
<1>1. /\ p \in Seq(Item) /\ Head(q) \in Item /\ Len(p) = Len(q) - 1 /\ Len(q) \in Nat \ {0}
      /\ \A i \in 1..Len(p) : p[i] = q[i + 1]
      /\ Head(q) = q[1]
    BY HeadTailProperties, LenProperties, EmptySeq
<1> HIDE DEF p
<1>2. 1 \in 1..Len(q) /\ \A i \in 1..Len(p) : i + 1 \in 1..Len(q) /\ p[i] = q[i + 1] /\ 1 < i + 1
    BY <1>1
<1>3. \A i \in 1..Len(q) : i # 1 => i - 1 \in 1..Len(p) /\ p[i - 1] = q[i]
    BY <1>1
<1>4. Elements(q) = {Head(q)} \cup Elements(p)
    <2>1. Head(q) \in Elements(q)
        BY <1>1, <1>2 DEF Elements
    <2>2. Elements(p) \subseteq Elements(q)
        BY <1>2 DEF Elements
    <2>3. ASSUME NEW i \in 1..Len(q) PROVE q[i] = Head(q) \/ q[i] \in Elements(p)
        BY <1>1, <1>3 DEF Elements
    <2>4. Elements(q) \subseteq {Head(q)} \cup Elements(p)
        BY <2>3 DEF Elements
    <2> QED BY <2>1, <2>2, <2>4
<1>5. Increasing(q) => Increasing(p)
    <2> SUFFICES ASSUME Increasing(q), NEW i \in 1..Len(p), NEW j \in 1..Len(p), i < j, p[i] # Stop, p[j] # Stop
                 PROVE  p[i].id < p[j].id
        BY DEF Increasing
    <2>1. i + 1 < j + 1
        OBVIOUS
    <2> QED BY <1>2, <2>1 DEF Increasing
<1>6. Increasing(q) /\ Head(q) # Stop => After(Head(q).id, p)
    BY <1>1, <1>2 DEF Increasing, After
<1>7. \A n : After(n, q) => After(n, p) /\ (Head(q) # Stop => n < Head(q).id)
    BY <1>1, <1>2 DEF After
<1> QED BY <1>1, <1>4, <1>5, <1>6, <1>7 DEF p

-----------------------------------------------------------------------------
(* Types *)

\* The parts of the type invariant: queues, master, workers, storm detector
QueuesTyped ==
    /\ eventQueue \in Seq(Item) /\ loggerQueue \in Seq(Item) /\ queue \in [Worker -> Seq(Item)]
    /\ posted \in 0..MaxEvents /\ stopping \in BOOLEAN /\ logger \in BOOLEAN
MasterTyped ==
    /\ master \in [pc : {"loop", "put", "after", "join", "joinlogger", "done"},
                   e : Event \cup {NoEvent}, target : 0..PoolSize]
    /\ master.pc = "put" => master.e \in Event
WorkersTyped ==
    /\ worker \in [Worker -> [pc : {"get", "process", "release", "done"}, e : Event \cup {NoEvent}]]
    /\ \A w \in Worker : Handled(w) => worker[w].e \in Event
StormTyped == storm \in BOOLEAN /\ actualDuration \in 0..Duration /\ hotRun \in 0..Duration
BindingsTyped ==
    binding \in [QueueKey -> Binding] /\ bindings \in [Worker -> 0..Cardinality(QueueKey)]

\* They are all of it.
LEMMA TypeParts ==
    TypeOK <=> QueuesTyped /\ MasterTyped /\ WorkersTyped /\ StormTyped /\ BindingsTyped
BY DEF TypeOK, QueuesTyped, MasterTyped, WorkersTyped, StormTyped, BindingsTyped, Item, Handled

\* After a step too.
LEMMA TypePartsNext ==
    TypeOK' <=> QueuesTyped' /\ MasterTyped' /\ WorkersTyped' /\ StormTyped' /\ BindingsTyped'
BY DEF TypeOK, QueuesTyped, MasterTyped, WorkersTyped, StormTyped, BindingsTyped, Item, Handled

\* Something is put into the queue of a worker.
LEMMA PutInto ==
    ASSUME QueuesTyped, NEW w \in Worker, NEW x \in Item, queue' = [queue EXCEPT ![w] = Append(@, x)]
    PROVE  /\ queue' \in [Worker -> Seq(Item)] /\ queue[w] \in Seq(Item)
           /\ queue'[w] = Append(queue[w], x)
           /\ \A v \in Worker : v # w => queue'[v] = queue[v]
<1>1. queue \in [Worker -> Seq(Item)] /\ queue[w] \in Seq(Item)
    BY DEF QueuesTyped
<1>2. Append(queue[w], x) \in Seq(Item)
    BY <1>1, QueueAppend
<1> QED BY <1>1, <1>2

\* The first element is taken from the queue of a worker.
LEMMA TakeFrom ==
    ASSUME QueuesTyped, NEW w \in Worker, queue[w] # <<>>, queue' = [queue EXCEPT ![w] = Tail(@)]
    PROVE  /\ queue' \in [Worker -> Seq(Item)] /\ queue[w] \in Seq(Item)
           /\ queue'[w] = Tail(queue[w]) /\ Head(queue[w]) \in Item
           /\ \A v \in Worker : v # w => queue'[v] = queue[v]
<1>1. queue \in [Worker -> Seq(Item)] /\ queue[w] \in Seq(Item)
    BY DEF QueuesTyped
<1>2. Tail(queue[w]) \in Seq(Item) /\ Head(queue[w]) \in Item
    BY <1>1, QueueTail
<1> QED BY <1>1, <1>2

\* The worker to which the master gives an event.
LEMMA PutTarget ==
    ASSUME TypeOK, MasterFits, MasterPut
    PROVE  LET k == master.e.key
               w == IF master.target = 0 THEN binding[k].worker ELSE master.target
           IN /\ master.e \in Event /\ k \in QueueKey /\ w \in Worker /\ binding[k] \in Binding
              /\ queue' = [queue EXCEPT ![w] = Append(@, master.e)]
<1>1. PoolSize \in Nat \ {0} /\ MaxEvents \in Nat
    BY NumberAssumption
<1>2. MasterTyped /\ binding \in [QueueKey -> Binding] /\ master.pc = "put"
    BY TypeParts DEF BindingsTyped, MasterPut
<1>3. master.e \in Event /\ master.e.key \in QueueKey /\ master.target \in 0..PoolSize
    BY <1>2, EventFields DEF MasterTyped
<1>4. binding[master.e.key] \in Binding /\ binding[master.e.key].worker \in 0..PoolSize
    BY <1>2, <1>3 DEF Binding
<1>5. CASE master.target = 0
    <2>1. binding[master.e.key].worker \in Worker
        BY <1>1, <1>2, <1>4, <1>5 DEF MasterFits, Worker
    <2> QED BY <1>3, <1>4, <1>5, <2>1 DEF MasterPut
<1>6. CASE master.target # 0
    <2>1. master.target \in Worker
        BY <1>1, <1>3, <1>6 DEF Worker
    <2> QED BY <1>3, <1>4, <1>6, <2>1 DEF MasterPut
<1> QED BY <1>5, <1>6

\* Queues hold events and shutdown indicators.
LEMMA QueuesStep ==
    ASSUME TypeOK, [Next]_vars, MasterFits
    PROVE  QueuesTyped'
<1>0. QueuesTyped /\ MasterTyped /\ WorkersTyped /\ binding \in [QueueKey -> Binding]
    BY TypeParts DEF BindingsTyped
<1>1. MaxEvents \in Nat /\ PoolSize \in Nat \ {0} /\ Stop \in Item /\ \A e \in Event : e \in Item
    BY NumberAssumption DEF Item
<1>2. ASSUME NEW k \in QueueKey, PostEvent(k) PROVE QueuesTyped'
    <2>1. posted + 1 \in 1..MaxEvents
        BY <1>0, <1>1, <1>2 DEF PostEvent, QueuesTyped
    <2>2. [id |-> posted + 1, key |-> k, storm |-> FALSE] \in Item
        BY <1>1, <2>1, EventFields
    <2> QED BY <1>0, <1>2, <2>1, <2>2, QueueAppend DEF PostEvent, QueuesTyped, poolVars, logVars
<1>3. CASE PostStop
    BY <1>0, <1>1, <1>3, QueueAppend DEF PostStop, QueuesTyped, poolVars, logVars
<1>4. ASSUME NEW hot \in BOOLEAN, StormTick(hot) PROVE QueuesTyped'
    <2>1. UNCHANGED <<stopping, queue, loggerQueue, logger>>
        BY <1>4 DEF StormTick, poolVars, logVars
    <2>2. CASE UNCHANGED <<eventQueue, posted>>
        BY <1>0, <2>1, <2>2 DEF QueuesTyped
    <2>3. ASSUME NEW b \in BOOLEAN, posted < MaxEvents, posted' = posted + 1,
                 eventQueue' = Append(eventQueue, [id |-> posted + 1, key |-> MgmtKey, storm |-> b])
          PROVE  QueuesTyped'
        <3>1. posted + 1 \in 1..MaxEvents
            BY <1>0, <1>1, <2>3 DEF QueuesTyped
        <3>2. [id |-> posted + 1, key |-> MgmtKey, storm |-> b] \in Item
            BY <1>1, <3>1, EventFields
        <3> QED BY <1>0, <2>1, <2>3, <3>1, <3>2, QueueAppend DEF QueuesTyped
    <2> QED BY <1>4, <2>2, <2>3 DEF StormTick
<1>5. CASE MasterDrop \/ \E target \in 0..PoolSize : MasterSelect(target)
    BY <1>0, <1>5, QueueTail DEF MasterDrop, MasterSelect, QueuesTyped, poolVars, logVars
<1>6. CASE MasterPut
    <2>1. PICK w \in Worker : queue' = [queue EXCEPT ![w] = Append(@, master.e)] /\ master.e \in Item
        BY <1>1, <1>6, PutTarget
    <2>2. queue' \in [Worker -> Seq(Item)]
        BY <1>0, <2>1, PutInto
    <2> QED BY <1>0, <1>6, <2>2 DEF MasterPut, QueuesTyped, logVars
<1>7. CASE MasterStop
    <2>1. 1 \in Worker
        BY <1>1 DEF Worker
    <2> QED BY <1>0, <1>1, <1>7, <2>1, QueueAppend, QueueTail DEF MasterStop, QueuesTyped, logVars
<1>8. CASE MasterJoin
    <2>1. CASE master.target < PoolSize
        <3>1. master.target + 1 \in Worker
            BY <1>0, <1>1, <2>1 DEF Worker, MasterTyped
        <3>2. queue' \in [Worker -> Seq(Item)]
            BY <1>0, <1>1, <1>8, <2>1, <3>1, PutInto DEF MasterJoin
        <3> QED BY <1>0, <1>8, <2>1, <3>2 DEF MasterJoin, QueuesTyped
    <2>2. CASE ~(master.target < PoolSize)
        BY <1>0, <1>1, <1>8, <2>2, QueueAppend DEF MasterJoin, QueuesTyped
    <2> QED BY <2>1, <2>2
<1>9. CASE MasterExit \/ MasterCleanup \/ UNCHANGED vars \/ Terminated
    BY <1>0, <1>9 DEF MasterExit, MasterCleanup, Terminated, vars, QueuesTyped, poolVars, logVars
<1>10. ASSUME NEW w \in Worker, WorkerTake(w) PROVE QueuesTyped'
    BY <1>0, <1>10, QueueTail DEF WorkerTake, QueuesTyped, logVars
<1>11. ASSUME NEW w \in Worker, WorkerProcess(w) PROVE QueuesTyped'
    <2>1. worker[w].e \in Item
        BY <1>0, <1>1, <1>11 DEF WorkerProcess, WorkersTyped, Handled
    <2> QED BY <1>0, <1>11, <2>1, QueueAppend DEF WorkerProcess, QueuesTyped, poolVars
<1>12. ASSUME NEW w \in Worker, WorkerRelease(w) PROVE QueuesTyped'
    BY <1>0, <1>12 DEF WorkerRelease, QueuesTyped, logVars
<1>13. CASE LoggerStep
    BY <1>0, <1>13, QueueTail DEF LoggerStep, QueuesTyped, poolVars
<1> QED BY <1>2, <1>3, <1>4, <1>5, <1>6, <1>7, <1>8, <1>9, <1>10, <1>11, <1>12, <1>13
        DEF Next, Master, WorkerStep

\* The master takes events from the queue.
LEMMA MasterStep ==
    ASSUME TypeOK, [Next]_vars
    PROVE  MasterTyped'
<1>0. QueuesTyped /\ MasterTyped
    BY TypeParts
<1>1. MaxEvents \in Nat /\ PoolSize \in Nat \ {0}
    BY NumberAssumption
<1>2. CASE UNCHANGED master
    BY <1>0, <1>2 DEF MasterTyped
<1>3. ASSUME NEW target \in 0..PoolSize, MasterSelect(target) PROVE MasterTyped'
    <2>1. Head(eventQueue) \in Event
        BY <1>0, <1>3, QueueTail DEF MasterSelect, QueuesTyped, Item
    <2> QED BY <1>3, <2>1 DEF MasterSelect, MasterTyped
<1>4. CASE MasterDrop \/ MasterPut \/ MasterCleanup \/ MasterStop \/ MasterExit
    <2>1. CASE MasterDrop \/ MasterCleanup \/ MasterExit
        <3>1. master' = [master EXCEPT !.pc = "loop"] \/ master' = [master EXCEPT !.pc = "done"]
            BY <2>1 DEF MasterDrop, MasterCleanup, MasterExit
        <3> QED BY <1>0, <3>1 DEF MasterTyped
    <2>2. CASE MasterPut \/ MasterStop
        <3>1. \/ master' = [pc |-> "after", e |-> NoEvent, target |-> 0]
              \/ master' = [pc |-> "join", e |-> NoEvent, target |-> 1]
            BY <2>2 DEF MasterPut, MasterStop
        <3>2. 0 \in 0..PoolSize /\ 1 \in 0..PoolSize
            BY <1>1
        <3> QED BY <3>1, <3>2 DEF MasterTyped
    <2> QED BY <1>4, <2>1, <2>2
<1>5. CASE MasterJoin
    <2>1. CASE master.target < PoolSize
        <3>1. master' = [master EXCEPT !.target = @ + 1] /\ master.pc = "join"
            BY <1>5, <2>1 DEF MasterJoin
        <3>2. master.target + 1 \in 0..PoolSize
            BY <1>0, <1>1, <2>1 DEF MasterTyped
        <3> QED BY <1>0, <3>1, <3>2 DEF MasterTyped
    <2>2. CASE ~(master.target < PoolSize)
        BY <1>0, <1>5, <2>2 DEF MasterJoin, MasterTyped
    <2> QED BY <2>1, <2>2
<1>6. CASE \E w \in Worker : WorkerStep(w)
    BY <1>2, <1>6 DEF WorkerStep, WorkerTake, WorkerProcess, WorkerRelease
<1>7. CASE \/ \E k \in QueueKey : PostEvent(k)
           \/ PostStop \/ (\E hot \in BOOLEAN : StormTick(hot))
           \/ LoggerStep \/ Terminated \/ UNCHANGED vars
    BY <1>2, <1>7 DEF PostEvent, PostStop, StormTick, LoggerStep, Terminated, vars
<1> QED BY <1>3, <1>4, <1>5, <1>6, <1>7 DEF Next, Master

\* A worker that has something to do has an event.
LEMMA WorkersStep ==
    ASSUME TypeOK, [Next]_vars
    PROVE  WorkersTyped'
<1>0. QueuesTyped /\ WorkersTyped
    BY TypeParts
<1>1. CASE UNCHANGED worker
    BY <1>0, <1>1 DEF WorkersTyped, Handled
<1>2. ASSUME NEW w \in Worker, WorkerTake(w) PROVE WorkersTyped'
    <2>1. queue[w] # <<>> /\ Head(queue[w]) \in Item
        BY <1>0, <1>2, QueueTail DEF WorkerTake, QueuesTyped
    <2>2. CASE Head(queue[w]) = Stop
        BY <1>0, <1>2, <2>2 DEF WorkerTake, WorkersTyped, Handled
    <2>3. CASE Head(queue[w]) # Stop
        <3>1. Head(queue[w]) \in Event /\ worker' = [worker EXCEPT ![w] = [pc |-> "process", e |-> Head(queue[w])]]
            BY <1>2, <2>1, <2>3 DEF WorkerTake, Item
        <3> QED BY <1>0, <3>1 DEF WorkersTyped, Handled
    <2> QED BY <2>2, <2>3
<1>3. ASSUME NEW w \in Worker, WorkerProcess(w) PROVE WorkersTyped'
    BY <1>0, <1>3 DEF WorkerProcess, WorkersTyped, Handled
<1>4. ASSUME NEW w \in Worker, WorkerRelease(w) PROVE WorkersTyped'
    BY <1>0, <1>4 DEF WorkerRelease, WorkersTyped, Handled
<1>5. CASE Master \/ MasterCleanup
    BY <1>1, <1>5 DEF Master, MasterDrop, MasterSelect, MasterPut, MasterCleanup, MasterStop, MasterJoin,
                      MasterExit
<1>6. CASE \/ \E k \in QueueKey : PostEvent(k)
           \/ PostStop \/ (\E hot \in BOOLEAN : StormTick(hot))
           \/ LoggerStep \/ Terminated \/ UNCHANGED vars
    BY <1>1, <1>6 DEF PostEvent, PostStop, StormTick, LoggerStep, Terminated, vars
<1> QED BY <1>2, <1>3, <1>4, <1>5, <1>6 DEF Next, WorkerStep

\* The storm detector does not count beyond Duration.
LEMMA StormStep ==
    ASSUME TypeOK, DurationFits, [Next]_vars
    PROVE  StormTyped' /\ DurationFits'
<1>0. StormTyped
    BY TypeParts
<1>1. Duration \in Nat
    BY NumberAssumption
<1>2. CASE UNCHANGED stormVars
    BY <1>0, <1>2 DEF StormTyped, DurationFits, stormVars
<1>3. ASSUME NEW hot \in BOOLEAN, StormTick(hot) PROVE StormTyped' /\ DurationFits'
    <2>1. hotRun' \in 0..Duration
        BY <1>0, <1>1, <1>3 DEF StormTick, StormTyped
    <2>2. storm' \in BOOLEAN /\ actualDuration' \in 0..Duration /\ DurationFits'
        <3>1. actualDuration \in 0..Duration /\ Duration > 0
            BY <1>0, <1>3 DEF StormTyped, StormTick
        <3>2. CASE hot /\ ~storm /\ actualDuration + 1 < Duration /\ actualDuration' = actualDuration + 1
                   /\ UNCHANGED storm
            BY <1>0, <1>1, <3>1, <3>2 DEF StormTyped, DurationFits
        <3>3. CASE hot /\ ~storm /\ actualDuration' = actualDuration + 1 /\ storm' = TRUE
            BY <1>1, <3>1, <3>3 DEF DurationFits
        <3>4. CASE actualDuration' = 0 /\ storm' = FALSE
            <4>1. actualDuration' \in 0..Duration /\ actualDuration' < Duration
                BY <1>1, <3>1, <3>4
            <4> QED BY <3>4, <4>1 DEF DurationFits
        <3>5. CASE UNCHANGED <<actualDuration, storm>>
            BY <1>0, <3>5 DEF StormTyped, DurationFits
        <3> QED BY <1>3, <3>2, <3>3, <3>4, <3>5 DEF StormTick
    <2> QED BY <2>1, <2>2 DEF StormTyped
<1>4. CASE Master \/ MasterCleanup
    BY <1>2, <1>4 DEF Master, MasterDrop, MasterSelect, MasterPut, MasterCleanup, MasterStop, MasterJoin,
                      MasterExit
<1>5. CASE \E w \in Worker : WorkerStep(w)
    BY <1>2, <1>5 DEF WorkerStep, WorkerTake, WorkerProcess, WorkerRelease
<1>6. CASE \/ \E k \in QueueKey : PostEvent(k)
           \/ PostStop \/ LoggerStep \/ Terminated \/ UNCHANGED vars
    BY <1>2, <1>6 DEF PostEvent, PostStop, LoggerStep, Terminated, vars, stormVars
<1> QED BY <1>3, <1>4, <1>5, <1>6 DEF Next

-----------------------------------------------------------------------------
(* The usage counters *)

\* Events in flight, in terms of the count.
LEMMA InFlightNow ==
    ASSUME TypeOK, NEW w \in Worker, NEW k \in QueueKey
    PROVE  /\ InFlight(w, k) = Count(queue[w], KeyEvents(k)) + IF Handles(w, k) THEN 1 ELSE 0
           /\ Count(queue[w], KeyEvents(k)) \in Nat /\ InFlight(w, k) \in Nat
<1>1. queue[w] \in Seq(Item)
    BY TypeParts DEF QueuesTyped
<1> QED BY <1>1, KeyCounted DEF InFlight

\* And after a step.
LEMMA InFlightNext ==
    ASSUME QueuesTyped', NEW w \in Worker, NEW k \in QueueKey
    PROVE  InFlight(w, k)' = Count(queue'[w], KeyEvents(k)) + IF Handles(w, k)' THEN 1 ELSE 0
<1>1. queue'[w] \in Seq(Item)
    BY DEF QueuesTyped
<1> QED BY <1>1, KeyCounted DEF InFlight

\* Workers that keep their queues and events keep what is in flight.
LEMMA InFlightSame ==
    ASSUME NEW w \in Worker, NEW k \in QueueKey, queue'[w] = queue[w],
           Handles(w, k)' <=> Handles(w, k)
    PROVE  InFlight(w, k)' = InFlight(w, k)
BY DEF InFlight

\* All events of a key that are in flight are at the worker to which it is bound.
LEMMA OneWorker ==
    ASSUME TypeOK, UsageCountsInFlight, NEW w \in Worker, NEW k \in QueueKey, InFlight(w, k) # 0
    PROVE  /\ binding[k].worker = w /\ binding[k].usage = InFlight(w, k)
           /\ \A v \in Worker : v # w => InFlight(v, k) = 0
BY DEF UsageCountsInFlight

\* A worker with an event has one in flight.
LEMMA InFlightWitness ==
    ASSUME TypeOK, NEW w \in Worker, NEW e \in Event, Has(w, e)
    PROVE  e.key \in QueueKey /\ InFlight(w, e.key) # 0
<1>1. e.key \in QueueKey /\ queue[w] \in Seq(Item)
    BY EventFields, TypeParts DEF QueuesTyped
<1>2. PICK n \in Nat : /\ n = Count(queue[w], KeyEvents(e.key))
                       /\ InFlight(w, e.key) = n + IF Handles(w, e.key) THEN 1 ELSE 0
    BY <1>1, InFlightNow
<1>3. CASE Handled(w) /\ worker[w].e = e
    <2>1. Handles(w, e.key)
        BY <1>3 DEF Handles, Handled
    <2>2. InFlight(w, e.key) = n + 1
        BY <1>2, <2>1
    <2> QED BY <1>1, <2>2
<1>4. CASE e \in Elements(queue[w])
    <2>1. PICK i \in 1..Len(queue[w]) : queue[w][i] = e
        BY <1>4 DEF Elements
    <2>2. i \in At(queue[w], KeyEvents(e.key)) /\ IsFiniteSet(At(queue[w], KeyEvents(e.key)))
        BY <1>1, <2>1, CountType DEF At, KeyEvents
    <2>3. Count(queue[w], KeyEvents(e.key)) # 0
        BY <2>2, FS_EmptySet DEF Count
    <2>4. InFlight(w, e.key) = n \/ InFlight(w, e.key) = n + 1
        BY <1>2
    <2> QED BY <1>1, <1>2, <2>3, <2>4
<1> QED BY <1>3, <1>4 DEF Has

\* Events in flight have different numbers below that of the event at the master.
LEMMA InFlightBelow ==
    ASSUME TypeOK, Ordered, master.pc = "put", NEW w \in Worker, NEW k \in QueueKey
    PROVE  InFlight(w, k) < MaxEvents
<1> DEFINE A == At(queue[w], KeyEvents(k))
           S == IF Handles(w, k) THEN A \cup {0} ELSE A
           T == 1..(master.e.id - 1)
           f == [i \in S |-> IF i = 0 THEN worker[w].e.id ELSE queue[w][i].id]
<1>1. queue[w] \in Seq(Item) /\ master.e \in Event /\ (Handled(w) => worker[w].e \in Event)
    BY TypeParts DEF QueuesTyped, MasterTyped, WorkersTyped
<1>2. master.e.id \in 1..MaxEvents /\ MaxEvents \in Nat /\ Len(queue[w]) \in Nat
    BY <1>1, EventFields, NumberAssumption, LenProperties
<1>3. IsFiniteSet(A) /\ A \subseteq 1..Len(queue[w]) /\ Cardinality(A) \in Nat /\ 0 \notin A
    BY <1>1, <1>2, CountType DEF Count
<1>4. InFlight(w, k) = Cardinality(S)
    <2>1. InFlight(w, k) = Cardinality(A) + IF Handles(w, k) THEN 1 ELSE 0
        BY InFlightNow DEF Count
    <2>2. Cardinality(A \cup {0}) = Cardinality(A) + 1
        BY <1>3, FS_AddElement
    <2> QED BY <1>3, <2>1, <2>2
<1>5. \A i \in A : /\ queue[w][i] \in Event /\ queue[w][i] # Stop /\ i \in 1..Len(queue[w]) /\ i # 0
                   /\ queue[w][i].id \in 1..MaxEvents /\ Has(w, queue[w][i])
    BY <1>3, EventFields DEF At, KeyEvents, Has, Elements
<1>6. \A i \in A : queue[w][i].id \in T
    <2> TAKE i \in A
    <2>1. queue[w][i].id < master.e.id
        BY <1>5 DEF Ordered, HandedOrdered
    <2> QED BY <1>2, <1>5, <2>1
<1>7. ASSUME Handles(w, k)
      PROVE  worker[w].e.id \in T /\ \A i \in A : worker[w].e.id < queue[w][i].id
    <2>1. Handled(w) /\ worker[w].e \in Event
        BY <1>1, <1>7 DEF Handles, Handled
    <2>2. worker[w].e.id < master.e.id /\ worker[w].e.id \in 1..MaxEvents
        BY <2>1, EventFields DEF Ordered, HandedOrdered, Has
    <2>3. worker[w].e.id \in T
        BY <1>2, <2>2
    <2> QED BY <1>5, <2>1, <2>3 DEF Ordered, WorkersOrdered, After
<1>8. \A i, j \in A : i # j => queue[w][i].id # queue[w][j].id
    <2> TAKE i, j \in A
    <2> HAVE i # j
    <2>1. i < j \/ j < i
        BY <1>2, <1>5
    <2>2. Increasing(queue[w])
        BY DEF Ordered, WorkersOrdered
    <2>3. queue[w][i].id < queue[w][j].id \/ queue[w][j].id < queue[w][i].id
        BY <1>5, <2>1, <2>2 DEF Increasing
    <2> QED BY <1>5, <2>3
<1> HIDE DEF A
<1>9. f \in Injection(S, T)
    <2>1. f \in [S -> T]
        BY <1>6, <1>7, <1>3
    <2>2. ASSUME NEW i \in S, NEW j \in S, f[i] = f[j] PROVE i = j
        <3>1. CASE i \in A /\ j \in A
            BY <1>3, <1>8, <2>2, <3>1
        <3>2. CASE i = 0 /\ j \in A
            BY <1>3, <1>5, <1>7, <2>2, <3>2
        <3>3. CASE i \in A /\ j = 0
            BY <1>3, <1>5, <1>7, <2>2, <3>3
        <3> QED BY <3>1, <3>2, <3>3
    <2> QED BY <2>1, <2>2 DEF Injection, IsInjective
<1>10. IsFiniteSet(T) /\ Cardinality(T) = master.e.id - 1
    <2>1. PICK b \in Nat : b = master.e.id - 1
        BY <1>2
    <2>2. IsFiniteSet(1..b) /\ Cardinality(1..b) = IF 1 > b THEN 0 ELSE b - 1 + 1
        BY FS_Interval
    <2> QED BY <2>1, <2>2
<1>11. Cardinality(S) <= master.e.id - 1 /\ Cardinality(S) \in Nat
    BY <1>9, <1>10, FS_Injection, FS_CardinalityType
<1> QED BY <1>2, <1>4, <1>11

\* A shutdown indicator is not in flight.
LEMMA StopInto ==
    ASSUME TypeOK, QueuesTyped', NEW w \in Worker, queue' = [queue EXCEPT ![w] = Append(@, Stop)],
           UNCHANGED worker, NEW v \in Worker, NEW k \in QueueKey
    PROVE  InFlight(v, k)' = InFlight(v, k)
<1>1. QueuesTyped /\ Stop \in Item
    BY TypeParts DEF Item
<1>2. CASE v # w
    BY <1>1, <1>2, PutInto, InFlightSame DEF Handles
<1>3. CASE v = w
    <2>1. queue[w] \in Seq(Item) /\ queue'[w] = Append(queue[w], Stop)
        BY <1>1, PutInto
    <2>2. Stop \notin KeyEvents(k)
        BY EventFields DEF KeyEvents
    <2>3. Count(queue'[w], KeyEvents(k)) = Count(queue[w], KeyEvents(k)) /\ Count(queue[w], KeyEvents(k)) \in Nat
        BY <1>1, <2>1, <2>2, CountAppend, CountType
    <2>4. Handles(w, k)' <=> Handles(w, k)
        BY DEF Handles
    <2> QED BY <1>3, <2>3, <2>4, InFlightNow, InFlightNext
<1> QED BY <1>2, <1>3

\* What is in flight after the master has given its event to a worker.
LEMMA PutInFlight ==
    ASSUME TypeOK, MasterFits, QueuesTyped', MasterPut, NEW w \in Worker,
           w = IF master.target = 0 THEN binding[master.e.key].worker ELSE master.target,
           NEW v \in Worker, NEW k \in QueueKey
    PROVE  InFlight(v, k)' = InFlight(v, k) + IF v = w /\ k = master.e.key THEN 1 ELSE 0
<1>1. QueuesTyped /\ master.e \in Event /\ master.e \in Item /\ UNCHANGED worker
      /\ queue' = [queue EXCEPT ![w] = Append(@, master.e)]
    BY TypeParts, PutTarget DEF MasterPut, Item
<1>2. InFlight(v, k) \in Nat /\ (Handles(v, k)' <=> Handles(v, k))
    BY <1>1, InFlightNow DEF Handles
<1>3. CASE v # w
    <2>1. InFlight(v, k)' = InFlight(v, k)
        BY <1>1, <1>2, <1>3, PutInto, InFlightSame
    <2> QED BY <1>2, <1>3, <2>1
<1>4. CASE v = w
    <2>1. queue[w] \in Seq(Item) /\ queue'[w] = Append(queue[w], master.e)
        BY <1>1, PutInto
    <2>2. master.e \in KeyEvents(k) <=> k = master.e.key
        BY <1>1 DEF KeyEvents
    <2>3. Count(queue'[w], KeyEvents(k)) = Count(queue[w], KeyEvents(k)) + IF k = master.e.key THEN 1 ELSE 0
        <3>1. PICK q \in Seq(Item), x \in Item : q = queue[w] /\ x = master.e
            BY <1>1, <2>1
        <3>2. Count(Append(q, x), KeyEvents(k)) = Count(q, KeyEvents(k)) + IF x \in KeyEvents(k) THEN 1 ELSE 0
            BY CountAppend
        <3> QED BY <2>1, <2>2, <3>1, <3>2
    <2>4. Count(queue[w], KeyEvents(k)) \in Nat
        BY <2>1, CountType
    <2> QED BY <1>2, <1>4, <2>3, <2>4, InFlightNow, InFlightNext
<1> QED BY <1>3, <1>4

\* What is in flight when a worker takes the next element of its queue.
LEMMA TakeInFlight ==
    ASSUME TypeOK, QueuesTyped', NEW w \in Worker, WorkerTake(w), NEW v \in Worker, NEW k \in QueueKey
    PROVE  InFlight(v, k)' = InFlight(v, k)
<1>1. /\ QueuesTyped /\ WorkersTyped /\ queue[w] # <<>> /\ queue' = [queue EXCEPT ![w] = Tail(@)]
      /\ worker[w].pc = "get"
      /\ worker' = [worker EXCEPT ![w] = IF Head(queue[w]) = Stop
                                         THEN [pc |-> "done", e |-> NoEvent]
                                         ELSE [pc |-> "process", e |-> Head(queue[w])]]
    BY TypeParts DEF WorkerTake
<1>2. /\ queue[w] \in Seq(Item) /\ queue'[w] = Tail(queue[w]) /\ Head(queue[w]) \in Item
      /\ \A u \in Worker : u # w => queue'[u] = queue[u]
    BY <1>1, TakeFrom
<1>3. /\ worker'[w] = IF Head(queue[w]) = Stop THEN [pc |-> "done", e |-> NoEvent]
                      ELSE [pc |-> "process", e |-> Head(queue[w])]
      /\ \A u \in Worker : u # w => worker'[u] = worker[u]
    BY <1>1 DEF WorkersTyped
<1>4. CASE v # w
    BY <1>2, <1>3, <1>4, InFlightSame DEF Handles
<1>5. CASE v = w
    <2>1. Head(queue[w]) \in KeyEvents(k) <=> Handles(w, k)'
        <3>1. CASE Head(queue[w]) = Stop
            <4>1. worker'[w].pc = "done" /\ Stop \notin KeyEvents(k)
                BY <1>3, <3>1, EventFields DEF KeyEvents
            <4> QED BY <3>1, <4>1 DEF Handles
        <3>2. CASE Head(queue[w]) # Stop
            <4>1. /\ worker'[w].pc = "process" /\ worker'[w].e = Head(queue[w])
                  /\ Head(queue[w]) \in Event
                BY <1>2, <1>3, <3>2 DEF Item
            <4> QED BY <4>1 DEF Handles, KeyEvents
        <3> QED BY <3>1, <3>2
    <2>2. ~Handles(w, k)
        BY <1>1 DEF Handles
    <2>3. Count(queue[w], KeyEvents(k)) = Count(queue'[w], KeyEvents(k))
                                          + IF Head(queue[w]) \in KeyEvents(k) THEN 1 ELSE 0
        BY <1>1, <1>2, CountTail
    <2>4. queue'[w] \in Seq(Item)
        BY DEF QueuesTyped
    <2>5. Count(queue[w], KeyEvents(k)) \in Nat /\ Count(queue'[w], KeyEvents(k)) \in Nat
        BY <1>2, <2>4, CountType
    <2>6. InFlight(w, k) = Count(queue[w], KeyEvents(k))
        BY <2>2, <2>5, InFlightNow
    <2> QED BY <1>5, <2>1, <2>3, <2>5, <2>6, InFlightNext
<1> QED BY <1>4, <1>5

\* What is in flight when a worker has released its event.
LEMMA ReleaseInFlight ==
    ASSUME TypeOK, QueuesTyped', NEW w \in Worker, WorkerRelease(w), NEW v \in Worker, NEW k \in QueueKey
    PROVE  /\ worker[w].e \in Event /\ Handles(w, worker[w].e.key) /\ InFlight(w, worker[w].e.key) # 0
           /\ InFlight(v, k)' = InFlight(v, k) - IF v = w /\ k = worker[w].e.key THEN 1 ELSE 0
<1>1. /\ WorkersTyped /\ UNCHANGED queue /\ worker[w].pc = "release"
      /\ worker' = [worker EXCEPT ![w] = [pc |-> "get", e |-> NoEvent]]
    BY TypeParts DEF WorkerRelease
<1>2. worker[w].e \in Event /\ Handles(w, worker[w].e.key) /\ Handled(w)
    BY <1>1 DEF WorkersTyped, Handled, Handles
<1>3. worker'[w].pc = "get" /\ \A u \in Worker : u # w => worker'[u] = worker[u]
    BY <1>1 DEF WorkersTyped
<1>4. InFlight(w, worker[w].e.key) # 0
    BY <1>2, InFlightWitness DEF Has
<1>5. InFlight(v, k) \in Nat
    BY InFlightNow
<1>6. CASE v # w
    <2>1. InFlight(v, k)' = InFlight(v, k)
        BY <1>1, <1>3, <1>6, InFlightSame DEF Handles
    <2> QED BY <1>2, <1>4, <1>5, <1>6, <2>1
<1>7. CASE v = w
    <2>1. ~Handles(w, k)' /\ (Handles(w, k) <=> k = worker[w].e.key)
        BY <1>1, <1>2, <1>3 DEF Handles
    <2>2. PICK n \in Nat : n = Count(queue[w], KeyEvents(k)) /\ n = Count(queue'[w], KeyEvents(k))
        BY <1>1, InFlightNow
    <2>3. InFlight(w, k)' = n
        BY <2>1, <2>2, InFlightNext
    <2>4. InFlight(w, k) = n + IF k = worker[w].e.key THEN 1 ELSE 0
        BY <2>1, <2>2, InFlightNow
    <2>5. InFlight(v, k)' = InFlight(v, k) - IF v = w /\ k = worker[w].e.key THEN 1 ELSE 0
        BY <1>7, <2>3, <2>4
    <2> QED BY <1>2, <1>4, <2>5
<1> QED BY <1>6, <1>7

\* The counters are exact after every step, and in their bounds.
LEMMA UsageStep ==
    ASSUME IInv, QueuesTyped', [Next]_vars
    PROVE  UsageCountsInFlight' /\ binding' \in [QueueKey -> Binding]
<1>0. /\ TypeOK /\ UsageCountsInFlight /\ Ordered /\ MasterFits
      /\ binding \in [QueueKey -> Binding] /\ PoolSize \in Nat \ {0} /\ MaxEvents \in Nat
    BY TypeParts, NumberAssumption DEF IInv, BindingsTyped
<1>1. \A k \in QueueKey : /\ binding[k].worker \in 0..PoolSize /\ binding[k].usage \in 0..MaxEvents
                          /\ binding[k] = [worker |-> binding[k].worker, usage |-> binding[k].usage]
    BY <1>0 DEF Binding
<1>2. ASSUME UNCHANGED binding, \A w \in Worker, k \in QueueKey : InFlight(w, k)' = InFlight(w, k)
      PROVE  UsageCountsInFlight' /\ binding' \in [QueueKey -> Binding]
    BY <1>0, <1>2 DEF UsageCountsInFlight
<1>3. CASE UNCHANGED <<binding, queue, worker>>
    <2>1. \A w \in Worker, k \in QueueKey : InFlight(w, k)' = InFlight(w, k)
        BY <1>3 DEF InFlight, Handles
    <2> QED BY <1>2, <1>3, <2>1
<1>4. CASE MasterPut
    <2>1. PICK m \in QueueKey, w \in Worker :
              /\ m = master.e.key
              /\ w = IF master.target = 0 THEN binding[master.e.key].worker ELSE master.target
              /\ master.e \in Event
        BY <1>0, <1>4, PutTarget
    <2>2. PICK n : n = IF master.target = 0 THEN binding[m].usage + 1 ELSE 1
        OBVIOUS
    <2>3. binding' = [binding EXCEPT ![m] = [worker |-> w, usage |-> n]] /\ master.pc = "put"
        BY <1>4, <2>1, <2>2 DEF MasterPut
    <2>4. \A v \in Worker, k \in QueueKey :
              InFlight(v, k) \in Nat /\ InFlight(v, k)' = InFlight(v, k) + IF v = w /\ k = m THEN 1 ELSE 0
        BY <1>0, <1>4, <2>1, PutInFlight, InFlightNow
    <2>5. master.target # 0 => binding[m].usage = 0
        BY <1>0, <2>1, <2>3 DEF MasterFits
    <2>6. /\ \A v \in Worker : v # w => InFlight(v, m) = 0
          /\ n = InFlight(w, m) + 1
        <3>1. CASE master.target = 0
            <4>1. binding[m].worker = w
                BY <2>1, <3>1
            <4> QED BY <1>0, <2>2, <3>1, <4>1 DEF UsageCountsInFlight
        <3>2. CASE master.target # 0
            <4>1. \A v \in Worker : InFlight(v, m) = 0
                BY <1>0, <2>5, <3>2 DEF UsageCountsInFlight
            <4> QED BY <2>2, <3>2, <4>1
        <3> QED BY <3>1, <3>2
    <2>7. n \in 0..MaxEvents
        <3>1. InFlight(w, m) < MaxEvents /\ InFlight(w, m) \in Nat
            BY <1>0, <2>3, <2>4, InFlightBelow
        <3> QED BY <1>0, <2>6, <3>1
    <2>8. [worker |-> w, usage |-> n] \in Binding
        BY <1>0, <2>1, <2>7 DEF Binding, Worker
    <2>9. binding'[m].worker = w /\ binding'[m].usage = n /\ \A k \in QueueKey : k # m => binding'[k] = binding[k]
        BY <1>0, <2>3
    <2>10. ASSUME NEW v \in Worker, NEW k \in QueueKey
           PROVE  InFlight(v, k)' = IF binding'[k].worker = v THEN binding'[k].usage ELSE 0
        <3>1. CASE k = m
            BY <2>4, <2>6, <2>9, <3>1
        <3>2. CASE k # m
            BY <1>0, <2>4, <2>9, <3>2 DEF UsageCountsInFlight
        <3> QED BY <3>1, <3>2
    <2> QED BY <1>0, <2>3, <2>8, <2>10 DEF UsageCountsInFlight
<1>5. CASE MasterCleanup
    <2>1. /\ binding' = [k \in QueueKey |-> IF binding[k].usage = 0 THEN Unbound ELSE binding[k]]
          /\ UNCHANGED <<queue, worker>>
        BY <1>5 DEF MasterCleanup
    <2>2. Unbound \in Binding /\ Unbound.worker = 0 /\ Unbound.usage = 0 /\ 0 \notin Worker
        BY <1>0 DEF Unbound, Binding, Worker
    <2>3. ASSUME NEW v \in Worker, NEW k \in QueueKey
          PROVE  InFlight(v, k)' = IF binding'[k].worker = v THEN binding'[k].usage ELSE 0
        <3>1. InFlight(v, k)' = InFlight(v, k)
            BY <2>1 DEF InFlight, Handles
        <3>2. InFlight(v, k) = IF binding[k].worker = v THEN binding[k].usage ELSE 0
            BY <1>0 DEF UsageCountsInFlight
        <3>3. binding'[k] = IF binding[k].usage = 0 THEN Unbound ELSE binding[k]
            BY <2>1
        <3> QED BY <2>2, <3>1, <3>2, <3>3
    <2> QED BY <1>0, <2>1, <2>2, <2>3 DEF UsageCountsInFlight
<1>6. ASSUME NEW w \in Worker, WorkerTake(w) PROVE UsageCountsInFlight' /\ binding' \in [QueueKey -> Binding]
    <2>1. UNCHANGED binding
        BY <1>6 DEF WorkerTake
    <2> QED BY <1>0, <1>2, <1>6, <2>1, TakeInFlight
<1>7. ASSUME NEW w \in Worker, WorkerProcess(w) PROVE UsageCountsInFlight' /\ binding' \in [QueueKey -> Binding]
    <2>1. /\ UNCHANGED <<binding, queue>> /\ worker[w].pc = "process"
          /\ worker'[w].pc = "release" /\ worker'[w].e = worker[w].e
          /\ \A u \in Worker : u # w => worker'[u] = worker[u]
        <3>1. WorkersTyped
            BY <1>0, TypeParts
        <3> QED BY <1>7, <3>1 DEF WorkerProcess, WorkersTyped, poolVars
    <2>2. \A u \in Worker, k \in QueueKey : Handles(u, k)' <=> Handles(u, k)
        BY <2>1 DEF Handles
    <2> QED BY <1>2, <2>1, <2>2, InFlightSame
<1>8. ASSUME NEW w \in Worker, WorkerRelease(w) PROVE UsageCountsInFlight' /\ binding' \in [QueueKey -> Binding]
    <2>1. PICK m \in QueueKey : m = worker[w].e.key /\ InFlight(w, m) # 0
        BY <1>0, <1>8, ReleaseInFlight, EventFields
    <2>2. \A v \in Worker, k \in QueueKey :
              InFlight(v, k) \in Nat /\ InFlight(v, k)' = InFlight(v, k) - IF v = w /\ k = m THEN 1 ELSE 0
        BY <1>0, <1>8, <2>1, ReleaseInFlight, InFlightNow
    <2>3. binding[m].worker = w /\ binding[m].usage = InFlight(w, m) /\ \A v \in Worker : v # w => InFlight(v, m) = 0
        BY <1>0, <2>1, OneWorker
    <2>4. binding' = [binding EXCEPT ![m].usage = @ - 1]
        BY <1>8, <2>1 DEF WorkerRelease
    <2>5. /\ binding'[m] = [worker |-> w, usage |-> binding[m].usage - 1]
          /\ \A k \in QueueKey : k # m => binding'[k] = binding[k]
        BY <1>0, <1>1, <2>3, <2>4
    <2>6. binding[m].usage - 1 \in 0..MaxEvents
        BY <1>0, <1>1, <2>1, <2>2, <2>3
    <2>7. binding' \in [QueueKey -> Binding]
        <3>1. binding'[m] \in Binding
            BY <1>0, <2>5, <2>6 DEF Binding, Worker
        <3> QED BY <1>0, <2>4, <2>5, <3>1
    <2>8. ASSUME NEW v \in Worker, NEW k \in QueueKey
          PROVE  InFlight(v, k)' = IF binding'[k].worker = v THEN binding'[k].usage ELSE 0
        <3>1. CASE k = m
            BY <1>1, <2>2, <2>3, <2>5, <3>1
        <3>2. CASE k # m
            <4>1. InFlight(v, k)' = InFlight(v, k)
                BY <2>2, <3>2
            <4> QED BY <1>0, <2>5, <3>2, <4>1 DEF UsageCountsInFlight
        <3> QED BY <3>1, <3>2
    <2> QED BY <2>7, <2>8 DEF UsageCountsInFlight
<1>9. ASSUME MasterStop \/ MasterJoin PROVE UsageCountsInFlight' /\ binding' \in [QueueKey -> Binding]
    <2>1. UNCHANGED <<binding, worker>>
        BY <1>9 DEF MasterStop, MasterJoin
    <2>2. UNCHANGED queue \/ \E w \in Worker : queue' = [queue EXCEPT ![w] = Append(@, Stop)]
        <3>1. CASE MasterStop
            <4>1. 1 \in Worker
                BY <1>0 DEF Worker
            <4> QED BY <3>1, <4>1 DEF MasterStop
        <3>2. CASE MasterJoin
            <4>1. master.target < PoolSize => master.target + 1 \in Worker
                BY <1>0, TypeParts DEF Worker, MasterTyped
            <4> QED BY <3>2, <4>1 DEF MasterJoin
        <3> QED BY <1>9, <3>1, <3>2
    <2> QED BY <1>0, <1>2, <1>3, <2>1, <2>2, StopInto
<1>10. CASE MasterDrop \/ (\E target \in 0..PoolSize : MasterSelect(target)) \/ MasterExit
    BY <1>3, <1>10 DEF MasterDrop, MasterSelect, MasterExit, poolVars
<1>11. CASE \/ \E k \in QueueKey : PostEvent(k)
            \/ PostStop \/ (\E hot \in BOOLEAN : StormTick(hot))
            \/ LoggerStep \/ Terminated \/ UNCHANGED vars
    BY <1>3, <1>11 DEF PostEvent, PostStop, StormTick, LoggerStep, Terminated, vars, poolVars
<1> QED BY <1>4, <1>5, <1>6, <1>7, <1>8, <1>9, <1>10, <1>11 DEF Next, Master, WorkerStep

-----------------------------------------------------------------------------
(* The load figures *)

\* The keys that are bound to a worker
KeysOf(w) == {k \in QueueKey : binding[k].worker = w}

\* There are finitely many.
LEMMA KeysFinite ==
    ASSUME NEW K \in SUBSET QueueKey
    PROVE  IsFiniteSet(K) /\ Cardinality(K) \in 0..Cardinality(QueueKey) /\ Cardinality(K) \in Nat
BY QueueKeyAssumption, FS_Subset, FS_CardinalityType

\* A key that is bound to another worker is counted there and not where it was before.
LEMMA PutBindings ==
    ASSUME TypeOK, BindingsCounted, MasterFits, MasterPut, NEW x \in Worker
    PROVE  bindings'[x] = Cardinality(KeysOf(x)')
<1>1. PICK m \in QueueKey, w \in Worker :
          /\ m = master.e.key
          /\ w = IF master.target = 0 THEN binding[master.e.key].worker ELSE master.target
    BY PutTarget
<1>2. binding \in [QueueKey -> Binding] /\ bindings[x] = Cardinality(KeysOf(x))
    BY TypeParts DEF BindingsTyped, BindingsCounted, KeysOf
<1>3. PICK n : binding' = [binding EXCEPT ![m] = [worker |-> w, usage |-> n]]
    BY <1>1 DEF MasterPut
<1>4. binding'[m].worker = w /\ \A k \in QueueKey : k # m => binding'[k].worker = binding[k].worker
    BY <1>2, <1>3
<1>5. CASE master.target = 0
    <2>1. KeysOf(x)' = KeysOf(x)
        BY <1>1, <1>4, <1>5 DEF KeysOf
    <2> QED BY <1>2, <1>5, <2>1 DEF MasterPut
<1>6. CASE master.target # 0
    <2>1. PICK o : o = binding[m].worker
        OBVIOUS
    <2>2. bindings' = [y \in Worker |-> bindings[y] + (IF y = w THEN 1 ELSE 0) - (IF y = o THEN 1 ELSE 0)]
        BY <1>1, <1>6, <2>1 DEF MasterPut
    <2>3. bindings'[x] = Cardinality(KeysOf(x)) + (IF x = w THEN 1 ELSE 0) - (IF x = o THEN 1 ELSE 0)
        BY <1>2, <2>2
    <2>4. IsFiniteSet(KeysOf(x)) /\ Cardinality(KeysOf(x)) \in Nat
        BY KeysFinite DEF KeysOf
    <2>5. m \in KeysOf(x) <=> x = o
        BY <2>1 DEF KeysOf
    <2>6. CASE x = w /\ x = o
        <3>1. KeysOf(x)' = KeysOf(x)
            BY <1>4, <2>1, <2>6 DEF KeysOf
        <3> QED BY <2>3, <2>4, <2>6, <3>1
    <2>7. CASE x = w /\ x # o
        <3>1. KeysOf(x)' = KeysOf(x) \cup {m}
            BY <1>4, <2>7 DEF KeysOf
        <3>2. Cardinality(KeysOf(x) \cup {m}) = Cardinality(KeysOf(x)) + 1
            BY <2>4, <2>5, <2>7, FS_AddElement
        <3> QED BY <2>3, <2>4, <2>7, <3>1, <3>2
    <2>8. CASE x # w /\ x = o
        <3>1. KeysOf(x)' = KeysOf(x) \ {m}
            BY <1>4, <2>8 DEF KeysOf
        <3>2. Cardinality(KeysOf(x) \ {m}) = Cardinality(KeysOf(x)) - 1
            BY <2>4, <2>5, <2>8, FS_RemoveElement
        <3> QED BY <2>3, <2>4, <2>8, <3>1, <3>2
    <2>9. CASE x # w /\ x # o
        <3>1. KeysOf(x)' = KeysOf(x)
            BY <1>4, <2>1, <2>9 DEF KeysOf
        <3> QED BY <2>3, <2>4, <2>9, <3>1
    <2> QED BY <2>6, <2>7, <2>8, <2>9
<1> QED BY <1>5, <1>6

\* Keys whose binding is freed are not counted any more.
LEMMA CleanupBindings ==
    ASSUME TypeOK, BindingsCounted, MasterCleanup, NEW x \in Worker
    PROVE  bindings'[x] = Cardinality(KeysOf(x)')
<1> DEFINE F == {k \in QueueKey : binding[k].worker = x /\ binding[k].usage = 0}
<1>1. /\ binding' = [k \in QueueKey |-> IF binding[k].usage = 0 THEN Unbound ELSE binding[k]]
      /\ bindings'[x] = bindings[x] - Cardinality(F)
    BY DEF MasterCleanup
<1>2. bindings[x] = Cardinality(KeysOf(x))
    BY DEF BindingsCounted, KeysOf
<1>3. Unbound.worker # x
    BY NumberAssumption DEF Unbound, Worker
<1>4. KeysOf(x)' = KeysOf(x) \ F /\ KeysOf(x) \cap F = F
    BY <1>1, <1>3 DEF KeysOf
<1>5. Cardinality(KeysOf(x) \ F) = Cardinality(KeysOf(x)) - Cardinality(KeysOf(x) \cap F)
    BY KeysFinite, FS_Difference DEF KeysOf
<1> QED BY <1>1, <1>2, <1>4, <1>5

\* The load figures are the numbers of keys after every step.
LEMMA BindingsStep ==
    ASSUME IInv, [Next]_vars
    PROVE  BindingsCounted' /\ bindings' \in [Worker -> 0..Cardinality(QueueKey)]
<1>0. /\ TypeOK /\ BindingsCounted /\ MasterFits
      /\ binding \in [QueueKey -> Binding] /\ bindings \in [Worker -> 0..Cardinality(QueueKey)]
    BY TypeParts DEF IInv, BindingsTyped
<1>1. ASSUME bindings' \in [Worker -> Int] \/ bindings' = bindings \/ \E g : bindings' = [x \in Worker |-> g[x]],
             \A x \in Worker : bindings'[x] = Cardinality(KeysOf(x)')
      PROVE  BindingsCounted' /\ bindings' \in [Worker -> 0..Cardinality(QueueKey)]
    <2>1. \A x \in Worker : KeysOf(x)' \in SUBSET QueueKey
        BY DEF KeysOf
    <2>2. \A x \in Worker : bindings'[x] \in 0..Cardinality(QueueKey)
        BY <1>1, <2>1, KeysFinite
    <2>3. BindingsCounted'
        BY <1>1 DEF BindingsCounted, KeysOf
    <2> QED BY <1>0, <1>1, <2>2, <2>3
<1>2. CASE UNCHANGED bindings /\ \A k \in QueueKey : binding'[k].worker = binding[k].worker
    <2>1. \A x \in Worker : KeysOf(x)' = KeysOf(x)
        BY <1>2 DEF KeysOf
    <2>2. \A x \in Worker : bindings'[x] = Cardinality(KeysOf(x)')
        BY <1>0, <1>2, <2>1 DEF BindingsCounted, KeysOf
    <2> QED BY <1>1, <1>2, <2>2
<1>3. CASE MasterPut
    <2>1. \A x \in Worker : bindings'[x] = Cardinality(KeysOf(x)')
        BY <1>0, <1>3, PutBindings
    <2>2. bindings' = bindings \/ \E g : bindings' = [x \in Worker |-> g[x]]
        <3>1. CASE master.target = 0
            BY <1>3, <3>1 DEF MasterPut
        <3>2. CASE master.target # 0
            <4>1. bindings' = [x \in Worker |-> bindings'[x]]
                BY <1>3, <3>2 DEF MasterPut
            <4> QED BY <4>1
        <3> QED BY <3>1, <3>2
    <2> QED BY <1>1, <2>1, <2>2
<1>4. CASE MasterCleanup
    <2>1. \A x \in Worker : bindings'[x] = Cardinality(KeysOf(x)')
        BY <1>0, <1>4, CleanupBindings
    <2>2. bindings' = [x \in Worker |-> bindings'[x]]
        BY <1>4 DEF MasterCleanup
    <2> QED BY <1>1, <2>1, <2>2
<1>5. ASSUME NEW w \in Worker, WorkerStep(w)
      PROVE  UNCHANGED bindings /\ \A k \in QueueKey : binding'[k].worker = binding[k].worker
    <2>1. CASE WorkerTake(w) \/ WorkerProcess(w)
        BY <2>1 DEF WorkerTake, WorkerProcess, poolVars
    <2>2. CASE WorkerRelease(w)
        <3>1. binding' = [binding EXCEPT ![worker[w].e.key].usage = @ - 1]
            BY <2>2 DEF WorkerRelease
        <3>2. \A k \in QueueKey : binding'[k].worker = binding[k].worker
            BY <1>0, <3>1 DEF Binding
        <3> QED BY <2>2, <3>2 DEF WorkerRelease
    <2> QED BY <1>5, <2>1, <2>2 DEF WorkerStep
<1>6. CASE MasterDrop \/ (\E target \in 0..PoolSize : MasterSelect(target)) \/ MasterStop \/ MasterJoin \/ MasterExit
    BY <1>2, <1>6 DEF MasterDrop, MasterSelect, MasterStop, MasterJoin, MasterExit, poolVars
<1>7. CASE \/ \E k \in QueueKey : PostEvent(k)
           \/ PostStop \/ (\E hot \in BOOLEAN : StormTick(hot))
           \/ LoggerStep \/ Terminated \/ UNCHANGED vars
    BY <1>2, <1>7 DEF PostEvent, PostStop, StormTick, LoggerStep, Terminated, vars, poolVars
<1> QED BY <1>2, <1>3, <1>4, <1>5, <1>6, <1>7 DEF Next, Master

\* What the master knows of a key stays true.
LEMMA MasterFitsStep ==
    ASSUME IInv, QueuesTyped', [Next]_vars
    PROVE  MasterFits'
<1>0. /\ TypeOK /\ UsageCountsInFlight /\ MasterFits /\ MasterTyped /\ QueuesTyped
      /\ binding \in [QueueKey -> Binding] /\ PoolSize \in Nat \ {0}
    BY TypeParts, NumberAssumption DEF IInv, BindingsTyped
<1>1. CASE UNCHANGED <<binding, master>>
    BY <1>0, <1>1 DEF MasterFits
<1>2. CASE UNCHANGED binding /\ master'.pc # "put"
    BY <1>0, <1>2 DEF MasterFits
<1>3. ASSUME NEW target \in 0..PoolSize, MasterSelect(target) PROVE MasterFits'
    <2>1. PICK e \in Event : e = Head(eventQueue)
        BY <1>0, <1>3, QueueTail DEF MasterSelect, QueuesTyped, Item
    <2>2. /\ UNCHANGED binding /\ master'.e = e /\ master'.target = target
          /\ (target # 0) <=> NeedsWorker(e.key)
        BY <1>3, <2>1 DEF MasterSelect, poolVars, NeedsWorker
    <2>3. e.key \in QueueKey
        BY EventFields
    <2> QED BY <1>0, <2>2, <2>3 DEF MasterFits, NeedsWorker
<1>4. CASE MasterPut
    <2>1. PICK m, w, n : /\ m \in QueueKey /\ w \in Worker
                         /\ binding' = [binding EXCEPT ![m] = [worker |-> w, usage |-> n]]
        <3>1. PICK m \in QueueKey, w \in Worker :
                  /\ m = master.e.key
                  /\ w = IF master.target = 0 THEN binding[master.e.key].worker ELSE master.target
            BY <1>0, <1>4, PutTarget
        <3> QED BY <1>4, <3>1 DEF MasterPut
    <2>2. /\ binding'[m].worker = w /\ w # 0 /\ master'.pc = "after"
          /\ \A k \in QueueKey : k # m => binding'[k] = binding[k]
        BY <1>0, <1>4, <2>1 DEF Worker, MasterPut
    <2> QED BY <1>0, <2>2 DEF MasterFits
<1>5. CASE MasterCleanup
    <2>1. \A k \in QueueKey : binding'[k] = IF binding[k].usage = 0 THEN Unbound ELSE binding[k]
        BY <1>5 DEF MasterCleanup
    <2>2. Unbound.usage = 0 /\ master'.pc = "loop"
        BY <1>0, <1>5 DEF MasterCleanup, MasterTyped, Unbound
    <2> QED BY <1>0, <2>1, <2>2 DEF MasterFits
<1>6. ASSUME NEW w \in Worker, WorkerRelease(w) PROVE MasterFits'
    <2>1. PICK m \in QueueKey : m = worker[w].e.key /\ InFlight(w, m) # 0
        BY <1>0, <1>6, ReleaseInFlight, EventFields
    <2>2. binding[m].worker = w /\ binding[m].usage # 0 /\ w # 0
        BY <1>0, <2>1, OneWorker DEF Worker
    <2>3. binding' = [binding EXCEPT ![m].usage = @ - 1] /\ UNCHANGED master
        BY <1>6, <2>1 DEF WorkerRelease
    <2>4. binding'[m].worker = binding[m].worker /\ \A k \in QueueKey : k # m => binding'[k] = binding[k]
        BY <1>0, <2>3 DEF Binding
    <2>5. master.pc = "put" => master.e.key \in QueueKey
        BY <1>0, EventFields DEF MasterTyped
    <2> QED BY <1>0, <2>2, <2>3, <2>4, <2>5 DEF MasterFits
<1>7. ASSUME NEW w \in Worker, WorkerTake(w) \/ WorkerProcess(w) PROVE MasterFits'
    BY <1>1, <1>7 DEF WorkerTake, WorkerProcess, poolVars
<1>8. CASE MasterDrop \/ MasterExit \/ MasterStop
    BY <1>0, <1>2, <1>8 DEF MasterDrop, MasterStop, MasterExit, MasterTyped, poolVars
<1>9. CASE MasterJoin
    <2>1. master'.pc # "put"
        BY <1>0, <1>9 DEF MasterJoin, MasterTyped
    <2> QED BY <1>2, <1>9, <2>1 DEF MasterJoin
<1>10. CASE \/ \E k \in QueueKey : PostEvent(k)
            \/ PostStop \/ (\E hot \in BOOLEAN : StormTick(hot))
            \/ LoggerStep \/ Terminated \/ UNCHANGED vars
    BY <1>1, <1>10 DEF PostEvent, PostStop, StormTick, LoggerStep, Terminated, vars, poolVars
<1> QED BY <1>3, <1>4, <1>5, <1>6, <1>7, <1>8, <1>9, <1>10 DEF Next, Master, WorkerStep

-----------------------------------------------------------------------------
(* Posting order *)

\* The queue of the event processor stays in posting order: events that come in have
\* larger numbers than all before them, and what was before all that waits still is.
LEMMA InboxStep ==
    ASSUME TypeOK, Ordered, [Next]_vars
    PROVE  /\ InboxOrdered'
           /\ \A n \in Int : n <= posted /\ After(n, eventQueue) => n <= posted' /\ After(n, eventQueue')
<1>0. InboxOrdered /\ eventQueue \in Seq(Item) /\ posted \in Nat /\ Stop \in Item
    BY TypeParts, NumberAssumption DEF Ordered, QueuesTyped, Item
<1> DEFINE Goal == /\ InboxOrdered'
                   /\ \A n \in Int : n <= posted /\ After(n, eventQueue) => n <= posted' /\ After(n, eventQueue')
<1> SUFFICES Goal
    OBVIOUS
<1>1. CASE UNCHANGED <<eventQueue, posted>>
    BY <1>0, <1>1 DEF InboxOrdered
<1>2. ASSUME NEW x \in Event, x.id = posted + 1, posted' = posted + 1, eventQueue' = Append(eventQueue, x)
      PROVE  Goal
    <2>1. x \in Item
        BY DEF Item
    <2>2. \A y \in Elements(eventQueue) : y.id <= posted /\ y.id \in Int
        <3>1. \A y \in Elements(eventQueue) : y \in Item
            BY <1>0, ElementOfSeq DEF Elements
        <3>2. \A y \in Item : y.id \in Int
            BY EventFields DEF Item
        <3> QED BY <1>0, <3>1, <3>2 DEF InboxOrdered
    <2>3. Elements(eventQueue') = Elements(eventQueue) \cup {x}
        BY <1>0, <1>2, <2>1, QueueAppend
    <2>4. \A y \in Elements(eventQueue') : y.id <= posted'
        BY <1>0, <1>2, <2>2, <2>3
    <2>5. \A y \in Elements(eventQueue) : y.id < x.id
        BY <1>0, <1>2, <2>2
    <2>6. Increasing(eventQueue')
        BY <1>0, <1>2, <2>1, <2>5, QueueAppend DEF InboxOrdered
    <2>7. ASSUME NEW n \in Int, n <= posted, After(n, eventQueue) PROVE n <= posted' /\ After(n, eventQueue')
        <3>1. n <= posted' /\ n < x.id
            BY <1>0, <1>2, <2>7
        <3> QED BY <1>0, <1>2, <2>1, <2>7, <3>1, QueueAppend
    <2> QED BY <2>4, <2>6, <2>7 DEF InboxOrdered
<1>3. CASE UNCHANGED posted /\ eventQueue' = Append(eventQueue, Stop)
    <2>1. Elements(eventQueue') = Elements(eventQueue) \cup {Stop}
        BY <1>0, <1>3, QueueAppend
    <2>2. Stop.id <= posted
        BY <1>0, EventFields
    <2>3. Increasing(eventQueue') /\ \A n \in Int : After(n, eventQueue) => After(n, eventQueue')
        BY <1>0, <1>3, QueueAppend DEF InboxOrdered
    <2> QED BY <1>0, <1>3, <2>1, <2>2, <2>3 DEF InboxOrdered
<1>4. CASE UNCHANGED posted /\ eventQueue # <<>> /\ eventQueue' = Tail(eventQueue)
    <2>1. /\ Elements(eventQueue') \subseteq Elements(eventQueue) /\ Increasing(eventQueue')
          /\ \A n \in Int : After(n, eventQueue) => After(n, eventQueue')
        BY <1>0, <1>4, QueueTail DEF InboxOrdered
    <2> QED BY <1>0, <1>4, <2>1 DEF InboxOrdered
<1>5. ASSUME NEW k \in QueueKey, NEW b \in BOOLEAN, posted < MaxEvents, posted' = posted + 1,
             eventQueue' = Append(eventQueue, [id |-> posted + 1, key |-> k, storm |-> b])
      PROVE  Goal
    <2>1. posted + 1 \in 1..MaxEvents
        BY <1>0, <1>5, NumberAssumption
    <2> DEFINE x == [id |-> posted + 1, key |-> k, storm |-> b]
    <2>2. x \in Event /\ x.id = posted + 1
        BY <2>1, EventFields
    <2> QED BY <1>2, <1>5, <2>2
<1> HIDE DEF Goal
<1>6. CASE \E hot \in BOOLEAN : StormTick(hot)
    BY <1>1, <1>5, <1>6, EventFields DEF StormTick
<1>7. ASSUME NEW k \in QueueKey, PostEvent(k) PROVE Goal
    BY <1>5, <1>7 DEF PostEvent
<1>8. CASE PostStop
    BY <1>3, <1>8 DEF PostStop
<1>9. CASE MasterDrop \/ (\E target \in 0..PoolSize : MasterSelect(target)) \/ MasterStop
    BY <1>4, <1>9 DEF MasterDrop, MasterSelect, MasterStop
<1>10. CASE MasterPut \/ MasterCleanup \/ MasterJoin \/ MasterExit \/ LoggerStep \/ Terminated \/ UNCHANGED vars
    BY <1>1, <1>10 DEF MasterPut, MasterCleanup, MasterJoin, MasterExit, LoggerStep, Terminated, vars
<1>11. CASE \E w \in Worker : WorkerStep(w)
    BY <1>1, <1>11 DEF WorkerStep, WorkerTake, WorkerProcess, WorkerRelease
<1> QED BY <1>6, <1>7, <1>8, <1>9, <1>10, <1>11 DEF Next, Master

\* The master gets an event in hand only when it takes one from the queue.
LEMMA MasterChange ==
    ASSUME TypeOK, [Next]_vars
    PROVE  \/ UNCHANGED master \/ master'.pc # "put"
           \/ \E target \in 0..PoolSize : MasterSelect(target)
<1>0. MasterTyped
    BY TypeParts
<1>1. CASE MasterDrop \/ MasterPut \/ MasterCleanup \/ MasterStop \/ MasterExit
    <2>1. CASE MasterDrop \/ MasterCleanup \/ MasterExit
        <3>1. master' = [master EXCEPT !.pc = "loop"] \/ master' = [master EXCEPT !.pc = "done"]
            BY <2>1 DEF MasterDrop, MasterCleanup, MasterExit
        <3> QED BY <1>0, <3>1 DEF MasterTyped
    <2>2. CASE MasterPut \/ MasterStop
        <3>1. \/ master' = [pc |-> "after", e |-> NoEvent, target |-> 0]
              \/ master' = [pc |-> "join", e |-> NoEvent, target |-> 1]
            BY <2>2 DEF MasterPut, MasterStop
        <3>2. master'.pc # "put"
            BY <3>1
        <3> QED BY <3>2
    <2> QED BY <1>1, <2>1, <2>2
<1>2. CASE MasterJoin
    BY <1>0, <1>2 DEF MasterJoin, MasterTyped
<1>3. CASE \E w \in Worker : WorkerStep(w)
    BY <1>3 DEF WorkerStep, WorkerTake, WorkerProcess, WorkerRelease
<1>4. CASE \/ \E k \in QueueKey : PostEvent(k)
           \/ PostStop \/ (\E hot \in BOOLEAN : StormTick(hot))
           \/ LoggerStep \/ Terminated \/ UNCHANGED vars
    BY <1>4 DEF PostEvent, PostStop, StormTick, LoggerStep, Terminated, vars
<1> QED BY <1>1, <1>2, <1>3, <1>4 DEF Next, Master

\* How the queue of a worker changes: it gets the event of the master or a shutdown
\* indicator, or the worker takes the first element.
LEMMA QueueChange ==
    ASSUME TypeOK, MasterFits, [Next]_vars, NEW w \in Worker
    PROVE  \/ /\ queue'[w] = queue[w]
              /\ Handled(w)' => Handled(w) /\ worker'[w].e = worker[w].e
           \/ /\ MasterPut /\ master.e \in Event /\ queue'[w] = Append(queue[w], master.e)
              /\ UNCHANGED worker
           \/ queue'[w] = Append(queue[w], Stop) /\ UNCHANGED worker
           \/ WorkerTake(w)
<1>0. QueuesTyped /\ WorkersTyped /\ MasterTyped /\ Stop \in Item /\ PoolSize \in Nat \ {0}
    BY TypeParts, NumberAssumption DEF Item
<1>1. CASE UNCHANGED <<queue, worker>>
    BY <1>1 DEF Handled
<1>2. CASE MasterPut
    <2>1. PICK v \in Worker : queue' = [queue EXCEPT ![v] = Append(@, master.e)] /\ master.e \in Event
        BY <1>2, PutTarget
    <2>2. queue'[v] = Append(queue[v], master.e) /\ (w # v => queue'[w] = queue[w])
        BY <1>0, <2>1 DEF QueuesTyped
    <2>3. UNCHANGED worker
        BY <1>2 DEF MasterPut
    <2> QED BY <1>2, <2>1, <2>2, <2>3 DEF Handled
<1>3. ASSUME NEW v \in Worker, queue' = [queue EXCEPT ![v] = Append(@, Stop)], UNCHANGED worker
      PROVE  queue'[w] = queue[w] \/ queue'[w] = Append(queue[w], Stop)
    BY <1>0, <1>3 DEF QueuesTyped
<1>4. CASE MasterStop
    <2>1. 1 \in Worker
        BY <1>0 DEF Worker
    <2> QED BY <1>3, <1>4, <2>1 DEF MasterStop, Handled
<1>5. CASE MasterJoin
    <2>1. master.target < PoolSize => master.target + 1 \in Worker
        BY <1>0 DEF Worker, MasterTyped
    <2> QED BY <1>3, <1>5, <2>1 DEF MasterJoin, Handled
<1>6. ASSUME NEW v \in Worker, WorkerStep(v), v # w
      PROVE  queue'[w] = queue[w] /\ worker'[w] = worker[w]
    BY <1>0, <1>6 DEF WorkerStep, WorkerTake, WorkerProcess, WorkerRelease, poolVars, QueuesTyped, WorkersTyped
<1>7. CASE WorkerProcess(w) \/ WorkerRelease(w)
    BY <1>0, <1>7 DEF WorkerProcess, WorkerRelease, poolVars, WorkersTyped, Handled
<1>8. CASE \E v \in Worker : WorkerStep(v)
    BY <1>6, <1>7, <1>8 DEF WorkerStep, Handled
<1>9. CASE MasterDrop \/ (\E target \in 0..PoolSize : MasterSelect(target)) \/ MasterExit \/ MasterCleanup
    BY <1>1, <1>9 DEF MasterDrop, MasterSelect, MasterExit, MasterCleanup, poolVars
<1>10. CASE \/ \E k \in QueueKey : PostEvent(k)
            \/ PostStop \/ (\E hot \in BOOLEAN : StormTick(hot))
            \/ LoggerStep \/ Terminated \/ UNCHANGED vars
    BY <1>1, <1>10 DEF PostEvent, PostStop, StormTick, LoggerStep, Terminated, vars, poolVars
<1> QED BY <1>2, <1>4, <1>5, <1>8, <1>9, <1>10 DEF Next, Master

\* A worker takes an event: it has it in hand, the rest stays in its queue.
LEMMA TakeEffect ==
    ASSUME TypeOK, NEW w \in Worker, WorkerTake(w)
    PROVE  /\ queue[w] \in Seq(Item) /\ queue[w] # <<>> /\ queue'[w] = Tail(queue[w])
           /\ Head(queue[w]) \in Item /\ worker[w].pc = "get"
           /\ worker'[w] = IF Head(queue[w]) = Stop THEN [pc |-> "done", e |-> NoEvent]
                           ELSE [pc |-> "process", e |-> Head(queue[w])]
           /\ \A v \in Worker : v # w => queue'[v] = queue[v] /\ worker'[v] = worker[v]
<1>1. /\ QueuesTyped /\ WorkersTyped /\ queue[w] # <<>> /\ queue' = [queue EXCEPT ![w] = Tail(@)]
      /\ worker[w].pc = "get"
      /\ worker' = [worker EXCEPT ![w] = IF Head(queue[w]) = Stop
                                         THEN [pc |-> "done", e |-> NoEvent]
                                         ELSE [pc |-> "process", e |-> Head(queue[w])]]
    BY TypeParts DEF WorkerTake
<1>2. worker'[w] = (IF Head(queue[w]) = Stop THEN [pc |-> "done", e |-> NoEvent]
                    ELSE [pc |-> "process", e |-> Head(queue[w])])
      /\ \A u \in Worker : u # w => worker'[u] = worker[u]
    BY <1>1 DEF WorkersTyped
<1> QED BY <1>1, <1>2, TakeFrom

\* What a worker has after a step it had before, or got from the master.
LEMMA HandedFrom ==
    ASSUME TypeOK, MasterFits, [Next]_vars, NEW w \in Worker, NEW e \in Event, Has(w, e)'
    PROVE  Has(w, e) \/ (MasterPut /\ e = master.e)
<1>0. queue[w] \in Seq(Item) /\ Stop \in Item /\ e # Stop /\ \A x \in Event : x \in Item
    BY TypeParts, EventFields DEF QueuesTyped, Item
<1>1. CASE queue'[w] = queue[w] /\ (Handled(w)' => Handled(w) /\ worker'[w].e = worker[w].e)
    BY <1>1 DEF Has
<1>2. CASE MasterPut /\ master.e \in Event /\ queue'[w] = Append(queue[w], master.e) /\ UNCHANGED worker
    <2>1. Elements(queue'[w]) = Elements(queue[w]) \cup {master.e}
        BY <1>0, <1>2, QueueAppend
    <2> QED BY <1>2, <2>1 DEF Has, Handled
<1>3. CASE queue'[w] = Append(queue[w], Stop) /\ UNCHANGED worker
    <2>1. Elements(queue'[w]) = Elements(queue[w]) \cup {Stop}
        BY <1>0, <1>3, QueueAppend
    <2> QED BY <1>0, <1>3, <2>1 DEF Has, Handled
<1>4. CASE WorkerTake(w)
    <2>1. /\ queue[w] # <<>> /\ queue'[w] = Tail(queue[w])
          /\ worker'[w] = IF Head(queue[w]) = Stop THEN [pc |-> "done", e |-> NoEvent]
                          ELSE [pc |-> "process", e |-> Head(queue[w])]
        BY <1>4, TakeEffect
    <2>2. Elements(queue[w]) = {Head(queue[w])} \cup Elements(queue'[w])
        BY <1>0, <2>1, QueueTail
    <2>3. Handled(w)' => worker'[w].e = Head(queue[w])
        BY <2>1 DEF Handled
    <2> QED BY <2>2, <2>3 DEF Has
<1> QED BY <1>1, <1>2, <1>3, <1>4, QueueChange

\* The first event of the queue, when the master selects a worker for it.
LEMMA SelectEffect ==
    ASSUME TypeOK, Ordered, NEW target \in 0..PoolSize, MasterSelect(target)
    PROVE  /\ Head(eventQueue) \in Event /\ master'.e = Head(eventQueue) /\ master'.pc = "put"
           /\ eventQueue' = Tail(eventQueue) /\ UNCHANGED <<posted, queue, worker, storm>>
           /\ Head(eventQueue).id <= posted /\ After(Head(eventQueue).id, eventQueue')
           /\ \A n : After(n, eventQueue) => n < Head(eventQueue).id
<1>1. eventQueue \in Seq(Item) /\ eventQueue # <<>> /\ Head(eventQueue) # Stop /\ eventQueue' = Tail(eventQueue)
    BY TypeParts DEF QueuesTyped, MasterSelect
<1>2. Head(eventQueue) \in Event /\ Head(eventQueue) \in Elements(eventQueue)
    BY <1>1, QueueTail DEF Item
<1>3. Increasing(eventQueue) /\ Head(eventQueue).id <= posted
    BY <1>2 DEF Ordered, InboxOrdered
<1>4. After(Head(eventQueue).id, eventQueue') /\ \A n : After(n, eventQueue) => n < Head(eventQueue).id
    BY <1>1, <1>3, QueueTail
<1> QED BY <1>1, <1>2, <1>3, <1>4 DEF MasterSelect, poolVars, stormVars

\* Posting order, after every step.
LEMMA OrderedStep ==
    ASSUME IInv, [Next]_vars
    PROVE  Ordered'
<1>0. /\ TypeOK /\ Ordered /\ MasterFits /\ QueuesTyped /\ MasterTyped /\ WorkersTyped
      /\ posted \in Nat
    BY TypeParts, NumberAssumption DEF IInv, QueuesTyped
<1>1. /\ InboxOrdered'
      /\ \A n \in Int : n <= posted /\ After(n, eventQueue) => n <= posted' /\ After(n, eventQueue')
    BY <1>0, InboxStep
<1>2. \A e \in Event : e.id \in Int
    BY EventFields
<1>3. master.pc = "put" => master.e \in Event
    BY <1>0 DEF MasterTyped
<1>4. MasterOrdered'
    <2>1. CASE UNCHANGED master
        BY <1>0, <1>1, <1>2, <1>3, <2>1 DEF Ordered, MasterOrdered
    <2>2. CASE master'.pc # "put"
        BY <2>2 DEF MasterOrdered
    <2>3. CASE \E target \in 0..PoolSize : MasterSelect(target)
        BY <1>0, <2>3, SelectEffect DEF MasterOrdered
    <2> QED BY <1>0, <2>1, <2>2, <2>3, MasterChange
<1>5. ASSUME NEW w \in Worker, NEW e \in Event, Has(w, e)'
      PROVE  /\ e.id <= posted' /\ After(e.id, eventQueue')
             /\ master'.pc = "put" => e.id < master'.e.id
    <2>1. CASE MasterPut /\ e = master.e
        <3>1. master.pc = "put" /\ master'.pc = "after"
            BY <2>1 DEF MasterPut
        <3> QED BY <1>0, <1>1, <1>2, <2>1, <3>1 DEF Ordered, MasterOrdered
    <2>2. CASE Has(w, e)
        <3>1. e.id <= posted /\ After(e.id, eventQueue) /\ (master.pc = "put" => e.id < master.e.id)
            BY <1>0, <2>2 DEF Ordered, HandedOrdered
        <3>2. e.id <= posted' /\ After(e.id, eventQueue')
            BY <1>1, <1>2, <3>1
        <3>3. CASE UNCHANGED master \/ master'.pc # "put"
            BY <3>1, <3>2, <3>3
        <3>4. CASE \E target \in 0..PoolSize : MasterSelect(target)
            BY <1>0, <3>1, <3>2, <3>4, SelectEffect
        <3> QED BY <1>0, <3>3, <3>4, MasterChange
    <2> QED BY <1>0, <1>5, <2>1, <2>2, HandedFrom
<1>6. HandedOrdered'
    BY <1>5 DEF HandedOrdered
<1>7. ASSUME NEW w \in Worker
      PROVE  Increasing(queue'[w]) /\ (Handled(w)' => After(worker'[w].e.id, queue'[w]))
    <2>1. /\ queue[w] \in Seq(Item) /\ Increasing(queue[w]) /\ (Handled(w) => After(worker[w].e.id, queue[w]))
          /\ Stop \in Item /\ \A e \in Event : e \in Item
        BY <1>0 DEF QueuesTyped, Ordered, WorkersOrdered, Item
    <2>2. CASE queue'[w] = queue[w] /\ (Handled(w)' => Handled(w) /\ worker'[w].e = worker[w].e)
        BY <2>1, <2>2
    <2>3. CASE MasterPut /\ master.e \in Event /\ queue'[w] = Append(queue[w], master.e) /\ UNCHANGED worker
        <3>1. \A e \in Event : Has(w, e) => e.id < master.e.id
            BY <1>0, <2>3 DEF Ordered, HandedOrdered, MasterPut
        <3>2. \A e \in Elements(queue[w]) : e # Stop => e \in Event
            BY <2>1, ElementOfSeq DEF Elements, Item
        <3>3. \A e \in Elements(queue[w]) : e # Stop => e.id < master.e.id
            BY <3>1, <3>2 DEF Has
        <3>4. Handled(w) => worker[w].e.id < master.e.id
            BY <1>0, <3>1 DEF WorkersTyped, Has
        <3>5. Increasing(queue'[w])
            BY <2>1, <2>3, <3>3, QueueAppend
        <3>6. Handled(w) => After(worker[w].e.id, queue'[w])
            BY <2>1, <2>3, <3>4, QueueAppend
        <3> QED BY <2>3, <3>5, <3>6 DEF Handled
    <2>4. CASE queue'[w] = Append(queue[w], Stop) /\ UNCHANGED worker
        <3>1. Increasing(queue'[w]) /\ (Handled(w) => After(worker[w].e.id, queue'[w]))
            BY <2>1, <2>4, QueueAppend
        <3> QED BY <2>4, <3>1 DEF Handled
    <2>5. CASE WorkerTake(w)
        <3>1. /\ queue[w] # <<>> /\ queue'[w] = Tail(queue[w])
              /\ worker'[w] = IF Head(queue[w]) = Stop THEN [pc |-> "done", e |-> NoEvent]
                              ELSE [pc |-> "process", e |-> Head(queue[w])]
            BY <1>0, <2>5, TakeEffect
        <3>2. Increasing(queue'[w]) /\ (Head(queue[w]) # Stop => After(Head(queue[w]).id, queue'[w]))
            BY <2>1, <3>1, QueueTail
        <3>3. Handled(w)' => worker'[w].e = Head(queue[w]) /\ Head(queue[w]) # Stop
            BY <3>1 DEF Handled
        <3> QED BY <3>2, <3>3
    <2> QED BY <1>0, <2>2, <2>3, <2>4, <2>5, QueueChange
<1>8. WorkersOrdered'
    BY <1>7 DEF WorkersOrdered
<1> QED BY <1>1, <1>4, <1>6, <1>8 DEF Ordered

-----------------------------------------------------------------------------
(* The theorems *)

\* Nothing is queued, bound or in flight at the start.
LEMMA InitIInv == Init => IInv
<1> SUFFICES ASSUME Init PROVE IInv
    OBVIOUS
<1>1. PoolSize \in Nat \ {0} /\ MaxEvents \in Nat /\ Duration \in Nat /\ IsFiniteSet(QueueKey)
    BY NumberAssumption, QueueKeyAssumption
<1>2. Cardinality(QueueKey) \in Nat
    BY <1>1, FS_CardinalityType
<1>3. QueuesTyped
    <2>1. <<>> \in Seq(Item)
        BY EmptySeq
    <2>2. queue \in [Worker -> Seq(Item)]
        BY <2>1 DEF Init
    <2>3. posted \in 0..MaxEvents
        BY <1>1 DEF Init
    <2> QED BY <2>1, <2>2, <2>3 DEF Init, QueuesTyped
<1>4. MasterTyped /\ StormTyped
    <2>1. 0 \in 0..PoolSize /\ 0 \in 0..Duration
        BY <1>1
    <2>2. MasterTyped
        BY <2>1 DEF Init, MasterTyped
    <2> QED BY <2>1, <2>2 DEF Init, StormTyped
<1>5. WorkersTyped
    BY DEF Init, WorkersTyped, Handled
<1>6. BindingsTyped
    BY <1>1, <1>2 DEF Init, BindingsTyped, Binding, Unbound
<1>7. TypeOK
    BY <1>3, <1>4, <1>5, <1>6, TypeParts
<1>8. \A w \in Worker : queue[w] = <<>> /\ worker[w].pc = "get" /\ bindings[w] = 0
    BY DEF Init
<1>9. \A k \in QueueKey : binding[k].worker = 0 /\ binding[k].usage = 0
    BY DEF Init, Unbound
<1>10. UsageCountsInFlight
    <2> SUFFICES ASSUME NEW k \in QueueKey, NEW w \in Worker
                 PROVE  InFlight(w, k) = IF binding[k].worker = w THEN binding[k].usage ELSE 0
        BY DEF UsageCountsInFlight
    <2>1. {i \in 1..Len(queue[w]) : queue[w][i].key = k} = {}
        BY <1>8
    <2>2. Cardinality({}) = 0
        BY FS_EmptySet
    <2>3. ~Handles(w, k)
        BY <1>8 DEF Handles
    <2>4. InFlight(w, k) = 0 + 0
        BY <2>1, <2>2, <2>3 DEF InFlight
    <2> QED BY <1>9, <2>4
<1>11. BindingsCounted
    <2> SUFFICES ASSUME NEW w \in Worker
                 PROVE  bindings[w] = Cardinality({k \in QueueKey : binding[k].worker = w})
        BY DEF BindingsCounted
    <2>1. {k \in QueueKey : binding[k].worker = w} = {}
        BY <1>1, <1>9 DEF Worker
    <2> QED BY <1>8, <2>1, FS_EmptySet
<1>12. Ordered
    <2>1. InboxOrdered
        BY DEF Init, InboxOrdered, Increasing, Elements
    <2>2. MasterOrdered
        BY DEF Init, MasterOrdered
    <2>3. \A w \in Worker, e \in Event : ~Has(w, e)
        BY <1>8 DEF Has, Elements, Handled
    <2>4. WorkersOrdered
        BY <1>8 DEF WorkersOrdered, Increasing, Handled
    <2> QED BY <2>1, <2>2, <2>3, <2>4 DEF Ordered, HandedOrdered
<1>13. MasterFits
    BY <1>9 DEF MasterFits, Init
<1>14. DurationFits
    BY <1>1 DEF DurationFits, Init
<1> QED BY <1>7, <1>10, <1>11, <1>12, <1>13, <1>14 DEF IInv

\* Every step keeps the invariant.
LEMMA NextIInv == IInv /\ [Next]_vars => IInv'
<1> SUFFICES ASSUME IInv, [Next]_vars PROVE IInv'
    OBVIOUS
<1>1. TypeOK /\ MasterFits /\ DurationFits
    BY DEF IInv
<1>2. QueuesTyped' /\ MasterTyped' /\ WorkersTyped' /\ StormTyped' /\ DurationFits'
    BY <1>1, QueuesStep, MasterStep, WorkersStep, StormStep
<1>3. UsageCountsInFlight' /\ BindingsCounted' /\ BindingsTyped'
    BY <1>2, UsageStep, BindingsStep DEF BindingsTyped
<1>4. TypeOK'
    BY <1>2, <1>3, TypePartsNext
<1>5. MasterFits' /\ Ordered'
    BY <1>2, MasterFitsStep, OrderedStep
<1> QED BY <1>2, <1>3, <1>4, <1>5 DEF IInv

\* The invariant holds in all behaviours.
LEMMA Invariance == Spec => []IInv
BY InitIInv, NextIInv, PTL DEF Spec

\* The types hold: no usage counter or load figure goes below zero or beyond the number of
\* events or keys, and a worker or the master that has an event to handle has one.
THEOREM TypeCorrect == Spec => []TypeOK
<1>1. IInv => TypeOK
    BY DEF IInv
<1> QED BY <1>1, Invariance, PTL

\* The usage counter of a binding is the number of events of its key in flight, and all of
\* these are at the worker it names: a key moves to another worker only when it has none.
THEOREM UsageExact == Spec => []UsageCountsInFlight
<1>1. IInv => UsageCountsInFlight
    BY DEF IInv
<1> QED BY <1>1, Invariance, PTL

\* The load figure of a worker is the number of keys that are bound to it, whatever keys
\* are bound, moved and freed.
THEOREM LoadExact == Spec => []BindingsCounted
<1>1. IInv => BindingsCounted
    BY DEF IInv
<1> QED BY <1>1, Invariance, PTL

-----------------------------------------------------------------------------
(* Event processing implements EventOrder *)

\* What the abstract specification sees
Inbox == Elements(eventQueue) \ {Stop}
Lines == [k \in QueueKey |-> Line(k)]
Runs == [k \in QueueKey |-> Running(k)]

\* An accepted event of a key is in the queue of a worker or at the master.
LEMMA LineMember ==
    ASSUME QueuesTyped, MasterTyped, NEW k \in QueueKey, NEW e
    PROVE  e \in Line(k) <=> /\ e \in Event /\ e.key = k
                             /\ \/ \E w \in Worker : e \in Elements(queue[w])
                                \/ master.pc = "put" /\ e = master.e
<1>1. \A w \in Worker : \A x \in Elements(queue[w]) : x \in Item
    BY ElementOfSeq DEF QueuesTyped, Elements
<1>2. \A x \in Item : x.key = k => x \in Event
    BY EventFields DEF Item
<1>3. master.pc = "put" => master.e \in Event
    BY DEF MasterTyped
<1>4. e \in Line(k) <=> \/ e.key = k /\ \E w \in Worker : e \in Elements(queue[w])
                        \/ master.pc = "put" /\ master.e.key = k /\ e = master.e
    BY DEF Line
<1> QED BY <1>1, <1>2, <1>3, <1>4

\* After a step too.
LEMMA LineMemberNext ==
    ASSUME QueuesTyped', MasterTyped', NEW k \in QueueKey, NEW e
    PROVE  e \in Line(k)' <=> /\ e \in Event /\ e.key = k
                              /\ \/ \E w \in Worker : e \in Elements(queue'[w])
                                 \/ master'.pc = "put" /\ e = master'.e
<1>1. \A w \in Worker : \A x \in Elements(queue'[w]) : x \in Item
    BY ElementOfSeq DEF QueuesTyped, Elements
<1>2. \A x \in Item : x.key = k => x \in Event
    BY EventFields DEF Item
<1>3. master'.pc = "put" => master'.e \in Event
    BY DEF MasterTyped
<1>4. e \in Line(k)' <=> \/ e.key = k /\ \E w \in Worker : e \in Elements(queue'[w])
                         \/ master'.pc = "put" /\ master'.e.key = k /\ e = master'.e
    BY DEF Line
<1> QED BY <1>1, <1>2, <1>3, <1>4

\* Lines and running events stay when the events of the workers and of the master do.
LEMMA LinesSame ==
    ASSUME TypeOK, TypeOK',
           \A w \in Worker, e \in Event : e \in Elements(queue'[w]) <=> e \in Elements(queue[w]),
           UNCHANGED master \/ (master.pc # "put" /\ master'.pc # "put")
    PROVE  UNCHANGED Lines
<1>1. QueuesTyped /\ MasterTyped /\ QueuesTyped' /\ MasterTyped'
    BY TypeParts, TypePartsNext
<1>2. ASSUME NEW k \in QueueKey, NEW e PROVE e \in Line(k)' <=> e \in Line(k)
    BY <1>1, LineMember, LineMemberNext
<1>3. \A k \in QueueKey : Line(k)' = Line(k)
    BY <1>2
<1> QED BY <1>3 DEF Lines

\* No worker begins or ends the processing of an event.
LEMMA RunsSame ==
    ASSUME \A w \in Worker : worker'[w].pc = "process" <=> worker[w].pc = "process",
           \A w \in Worker : worker[w].pc = "process" => worker'[w].e = worker[w].e
    PROVE  UNCHANGED Runs
<1>1. \A k \in QueueKey : Running(k)' = Running(k)
    BY DEF Running
<1> QED BY <1>1 DEF Runs

\* At the start nothing is posted, accepted or running.
LEMMA InitOrder == Init => Order!Init
<1> SUFFICES ASSUME Init PROVE Order!Init
    OBVIOUS
<1>1. Inbox = {}
    BY DEF Init, Inbox, Elements
<1>2. \A w \in Worker : Elements(queue[w]) = {} /\ worker[w].pc = "get"
    BY DEF Init, Elements
<1>3. \A k \in QueueKey : Line(k) = {} /\ Running(k) = {}
    BY <1>2 DEF Init, Line, Running
<1>4. Lines = [k \in QueueKey |-> {}] /\ Runs = [k \in QueueKey |-> {}]
    BY <1>3 DEF Lines, Runs
<1> QED BY <1>1, <1>4 DEF Init, Order!Init, Inbox, Lines, Runs

\* A posted event goes to the inbox, whoever posts it.
LEMMA PostsEvent ==
    ASSUME TypeOK, TypeOK', NEW k \in QueueKey, NEW b \in BOOLEAN, posted < MaxEvents, posted' = posted + 1,
           eventQueue' = Append(eventQueue, [id |-> posted + 1, key |-> k, storm |-> b]),
           UNCHANGED <<queue, master, worker>>
    PROVE  Order!Post
<1> DEFINE x == [id |-> posted + 1, key |-> k, storm |-> b]
<1>0. eventQueue \in Seq(Item) /\ posted \in Nat /\ storm' \in BOOLEAN
    BY TypeParts, TypePartsNext, NumberAssumption DEF QueuesTyped, StormTyped
<1>1. posted + 1 \in 1..MaxEvents
    BY <1>0, NumberAssumption
<1>2. x \in Event /\ x.id = posted + 1
    BY <1>1, EventFields
<1> HIDE DEF x
<1>3. x \in Item /\ x # Stop
    BY <1>2, EventFields DEF Item
<1>4. Elements(eventQueue') = Elements(eventQueue) \cup {x}
    BY <1>0, <1>3, QueueAppend DEF x
<1>5. Inbox' = Inbox \cup {x}
    BY <1>3, <1>4 DEF Inbox
<1>6. UNCHANGED <<Lines, Runs>>
    BY LinesSame, RunsSame
<1> QED BY <1>0, <1>2, <1>5, <1>6 DEF Order!Post, Inbox, Lines, Runs

\* The first event of the queue is the earliest one that waits.
LEMMA HeadEarliest ==
    ASSUME TypeOK, Ordered, eventQueue # <<>>, Head(eventQueue) # Stop, eventQueue' = Tail(eventQueue)
    PROVE  /\ Head(eventQueue) \in Event /\ Head(eventQueue) \in Order!Earliest(Inbox)
           /\ Inbox' = Inbox \ {Head(eventQueue)}
<1>1. eventQueue \in Seq(Item) /\ Increasing(eventQueue)
    BY TypeParts DEF QueuesTyped, Ordered, InboxOrdered
<1>2. PICK h : h = Head(eventQueue)
    OBVIOUS
<1>3. /\ h \in Event /\ h # Stop
      /\ Elements(eventQueue) = {h} \cup Elements(eventQueue')
      /\ After(h.id, eventQueue')
    BY <1>1, <1>2, QueueTail DEF Item
<1>4. \A f \in Elements(eventQueue') : f # Stop => h.id < f.id /\ f.id \in Int
    <2>1. \A f \in Elements(eventQueue') : f # Stop => h.id < f.id
        BY <1>3 DEF After, Elements
    <2>2. \A f \in Elements(eventQueue') : f \in Item
        <3>1. eventQueue' \in Seq(Item)
            BY <1>1, QueueTail
        <3> QED BY <3>1, ElementOfSeq DEF Elements
    <2> QED BY <2>1, <2>2, EventFields DEF Item
<1>5. h.id \in Int
    BY <1>3, EventFields
<1>6. h \notin Elements(eventQueue')
    BY <1>3, <1>4, <1>5
<1>7. h \in Inbox /\ \A f \in Inbox : h.id <= f.id
    BY <1>3, <1>4, <1>5 DEF Inbox
<1>8. Inbox' = Inbox \ {h}
    BY <1>3, <1>6 DEF Inbox
<1> QED BY <1>2, <1>3, <1>7, <1>8 DEF Order!Earliest

\* An event that is dropped in a storm is the earliest one, and not the notification.
LEMMA MasterDropDrops ==
    ASSUME IInv, TypeOK', MasterDrop
    PROVE  Order!Drop
<1>0. TypeOK /\ Ordered /\ MasterTyped
    BY TypeParts DEF IInv
<1>1. /\ eventQueue # <<>> /\ Head(eventQueue) # Stop /\ eventQueue' = Tail(eventQueue)
      /\ storm /\ ~Head(eventQueue).storm /\ master.pc # "put" /\ master' = [master EXCEPT !.pc = "loop"]
      /\ UNCHANGED <<posted, queue, worker, storm>>
    BY DEF MasterDrop, AtLoop, poolVars, stormVars
<1>2. master'.pc # "put"
    BY <1>0, <1>1 DEF MasterTyped
<1>3. UNCHANGED <<Lines, Runs>>
    BY <1>0, <1>1, <1>2, LinesSame, RunsSame
<1>4. Head(eventQueue) \in Order!Earliest(Inbox) /\ Inbox' = Inbox \ {Head(eventQueue)}
    BY <1>0, <1>1, HeadEarliest
<1> QED BY <1>1, <1>3, <1>4 DEF Order!Drop, Inbox, Lines, Runs

\* An event that the master takes from the queue is accepted.
LEMMA MasterSelectAccepts ==
    ASSUME IInv, TypeOK', NEW target \in 0..PoolSize, MasterSelect(target)
    PROVE  Order!Accept
<1>0. TypeOK /\ Ordered /\ QueuesTyped /\ MasterTyped /\ QueuesTyped' /\ MasterTyped'
    BY TypeParts, TypePartsNext DEF IInv
<1>1. /\ eventQueue # <<>> /\ Head(eventQueue) # Stop /\ eventQueue' = Tail(eventQueue)
      /\ master.pc # "put" /\ UNCHANGED <<posted, queue, worker, storm>>
    BY DEF MasterSelect, AtLoop, poolVars, stormVars
<1>2. PICK h \in Event : h = Head(eventQueue) /\ master'.e = h /\ master'.pc = "put"
    BY <1>0, SelectEffect
<1>3. h \in Order!Earliest(Inbox) /\ Inbox' = Inbox \ {h}
    BY <1>0, <1>1, <1>2, HeadEarliest
<1>4. h.key \in QueueKey
    BY EventFields
<1>5. ASSUME NEW k \in QueueKey, NEW e
      PROVE  e \in Line(k)' <=> e \in Line(k) \/ (k = h.key /\ e = h)
    BY <1>0, <1>1, <1>2, LineMember, LineMemberNext
<1>6. \A k \in QueueKey : Line(k)' = IF k = h.key THEN Line(k) \cup {h} ELSE Line(k)
    BY <1>5
<1>7. Lines' = [Lines EXCEPT ![h.key] = @ \cup {h}]
    BY <1>4, <1>6 DEF Lines
<1>8. UNCHANGED Runs
    BY <1>1, RunsSame
<1> QED BY <1>1, <1>3, <1>7, <1>8 DEF Order!Accept, Inbox, Lines, Runs

\* The hand-over of an event to a worker is not seen.
LEMMA MasterPutStutters ==
    ASSUME IInv, TypeOK', MasterPut
    PROVE  UNCHANGED <<Lines, Runs>>
<1>0. TypeOK /\ MasterFits /\ QueuesTyped /\ MasterTyped /\ QueuesTyped' /\ MasterTyped'
    BY TypeParts, TypePartsNext DEF IInv
<1>1. master.pc = "put" /\ master'.pc # "put" /\ UNCHANGED worker
    BY DEF MasterPut
<1>2. PICK w \in Worker : queue' = [queue EXCEPT ![w] = Append(@, master.e)] /\ master.e \in Event /\ master.e \in Item
    BY <1>0, PutTarget DEF Item
<1>3. /\ queue[w] \in Seq(Item) /\ queue'[w] = Append(queue[w], master.e)
      /\ \A v \in Worker : v # w => queue'[v] = queue[v]
    BY <1>0, <1>2, PutInto
<1>4. Elements(queue'[w]) = Elements(queue[w]) \cup {master.e}
    BY <1>2, <1>3, QueueAppend
<1>5. ASSUME NEW e PROVE (\E v \in Worker : e \in Elements(queue'[v])) <=>
                         (\E v \in Worker : e \in Elements(queue[v])) \/ e = master.e
    BY <1>3, <1>4
<1>6. ASSUME NEW k \in QueueKey, NEW e PROVE e \in Line(k)' <=> e \in Line(k)
    BY <1>0, <1>1, <1>5, LineMember, LineMemberNext
<1>7. \A k \in QueueKey : Line(k)' = Line(k)
    BY <1>6
<1>8. UNCHANGED Lines
    BY <1>7 DEF Lines
<1> QED BY <1>1, <1>8, RunsSame

\* Shutdown indicators are not seen.
LEMMA StopStutters ==
    ASSUME IInv, TypeOK', MasterStop \/ MasterJoin
    PROVE  UNCHANGED <<Lines, Runs, Inbox, posted, storm>>
<1>0. TypeOK /\ QueuesTyped /\ MasterTyped /\ Stop \in Item /\ Stop \notin Event /\ PoolSize \in Nat \ {0}
    BY TypeParts, NumberAssumption, EventFields DEF IInv, Item
<1>1. UNCHANGED worker /\ master.pc # "put" /\ master'.pc # "put" /\ UNCHANGED <<posted, storm>>
    BY <1>0 DEF MasterStop, MasterJoin, MasterTyped, AtLoop, stormVars
<1>2. UNCHANGED queue \/ \E w \in Worker : queue' = [queue EXCEPT ![w] = Append(@, Stop)]
    <2>1. CASE MasterStop
        <3>1. 1 \in Worker
            BY <1>0 DEF Worker
        <3> QED BY <2>1, <3>1 DEF MasterStop
    <2>2. CASE MasterJoin
        <3>1. master.target < PoolSize => master.target + 1 \in Worker
            BY <1>0 DEF Worker, MasterTyped
        <3> QED BY <2>2, <3>1 DEF MasterJoin
    <2> QED BY <2>1, <2>2
<1>3. ASSUME NEW v \in Worker, NEW e \in Event PROVE e \in Elements(queue'[v]) <=> e \in Elements(queue[v])
    <2>1. CASE UNCHANGED queue
        BY <2>1
    <2>2. ASSUME NEW w \in Worker, queue' = [queue EXCEPT ![w] = Append(@, Stop)]
          PROVE  e \in Elements(queue'[v]) <=> e \in Elements(queue[v])
        <3>1. /\ queue[w] \in Seq(Item) /\ queue'[w] = Append(queue[w], Stop)
              /\ \A u \in Worker : u # w => queue'[u] = queue[u]
            BY <1>0, <2>2, PutInto
        <3>2. Elements(queue'[w]) = Elements(queue[w]) \cup {Stop}
            BY <1>0, <3>1, QueueAppend
        <3>3. e # Stop
            BY <1>0
        <3>4. CASE v = w
            BY <3>2, <3>3, <3>4
        <3>5. CASE v # w
            BY <3>1, <3>5
        <3> QED BY <3>4, <3>5
    <2> QED BY <1>2, <2>1, <2>2
<1>4. UNCHANGED Inbox
    <2>1. CASE MasterStop
        <3>1. eventQueue # <<>> /\ Head(eventQueue) = Stop /\ eventQueue' = Tail(eventQueue) /\ eventQueue \in Seq(Item)
            BY <1>0, <2>1 DEF MasterStop, QueuesTyped
        <3>2. Elements(eventQueue) = {Stop} \cup Elements(eventQueue')
            BY <3>1, QueueTail
        <3> QED BY <3>2 DEF Inbox
    <2>2. CASE MasterJoin
        BY <2>2 DEF MasterJoin, Inbox
    <2> QED BY <2>1, <2>2
<1> QED BY <1>0, <1>1, <1>3, <1>4, LinesSame, RunsSame

\* Events of one key are with one worker: the one that takes an event of it has them all.
LEMMA SameWorker ==
    ASSUME TypeOK, UsageCountsInFlight, NEW v \in Worker, NEW w \in Worker,
           NEW e \in Event, NEW f \in Event, e.key = f.key, Has(v, e), Has(w, f)
    PROVE  v = w
<1>1. e.key \in QueueKey /\ InFlight(v, e.key) # 0 /\ InFlight(w, e.key) # 0
    BY InFlightWitness
<1> QED BY <1>1, OneWorker

\* A worker that takes an event starts the earliest one of its key, and nothing else of
\* that key is being processed.
LEMMA WorkerTakeStarts ==
    ASSUME IInv, TypeOK', NEW w \in Worker, WorkerTake(w), Head(queue[w]) # Stop
    PROVE  \E k \in QueueKey : Order!Start(k)
<1>0. /\ TypeOK /\ UsageCountsInFlight /\ Ordered /\ WorkersTyped
      /\ QueuesTyped /\ MasterTyped /\ QueuesTyped' /\ MasterTyped'
    BY TypeParts, TypePartsNext DEF IInv
<1>1. UNCHANGED <<posted, storm, master, eventQueue>>
    BY DEF WorkerTake, stormVars
<1>2. PICK h : h = Head(queue[w])
    OBVIOUS
<1>3. /\ h \in Event /\ queue[w] \in Seq(Item) /\ queue[w] # <<>> /\ queue'[w] = Tail(queue[w])
      /\ worker[w].pc = "get" /\ worker'[w] = [pc |-> "process", e |-> h]
      /\ \A v \in Worker : v # w => queue'[v] = queue[v] /\ worker'[v] = worker[v]
    BY <1>0, <1>2, TakeEffect DEF Item
<1>4. PICK k \in QueueKey : k = h.key /\ h.id \in Int
    BY <1>3, EventFields
<1>5. /\ Elements(queue[w]) = {h} \cup Elements(queue'[w]) /\ After(h.id, queue'[w])
      /\ Has(w, h)
    <2>1. Increasing(queue[w])
        BY <1>0 DEF Ordered, WorkersOrdered
    <2>2. Elements(queue[w]) = {h} \cup Elements(queue'[w]) /\ After(h.id, queue'[w])
        BY <1>2, <1>3, <2>1, QueueTail
    <2> QED BY <1>3, <2>2 DEF Has
<1>6. master.pc = "put" => h.id < master.e.id
    BY <1>0, <1>3, <1>5 DEF Ordered, HandedOrdered
<1>7. ASSUME NEW v \in Worker, NEW f \in Event, f.key = k, f \in Elements(queue[v]) PROVE v = w
    <2>1. Has(v, f)
        BY <1>7 DEF Has
    <2> QED BY <1>0, <1>3, <1>4, <1>5, <1>7, <2>1, SameWorker
<1>8. \A f \in Event : f \in Elements(queue'[w]) => h.id < f.id
    BY <1>5, EventFields DEF After, Elements
<1>9. \A f \in Event : f.id \in Int
    BY EventFields
<1>10. Line(k)' = Line(k) \ {h}
    <2>1. ASSUME NEW f PROVE f \in Line(k)' <=> f \in Line(k) /\ f # h
        <3>1. f = h => f \notin Line(k)'
            <4>1. ASSUME h \in Line(k)' PROVE FALSE
                <5>1. (\E v \in Worker : h \in Elements(queue'[v])) \/ (master.pc = "put" /\ h = master.e)
                    BY <1>0, <1>1, <4>1, LineMemberNext
                <5>2. ASSUME NEW v \in Worker, h \in Elements(queue'[v]) PROVE v = w
                    BY <1>3, <1>4, <1>7, <5>2
                <5> QED BY <1>3, <1>4, <1>6, <1>8, <5>1, <5>2
            <4> QED BY <4>1
        <3>2. ASSUME f # h
              PROVE  (\E v \in Worker : f \in Elements(queue'[v])) <=> (\E v \in Worker : f \in Elements(queue[v]))
            BY <1>3, <1>5, <3>2
        <3> QED BY <1>0, <1>1, <3>1, <3>2, LineMember, LineMemberNext
    <2> QED BY <2>1
<1>11. \A l \in QueueKey : l # k => Line(l)' = Line(l)
    <2>1. ASSUME NEW l \in QueueKey, l # k, NEW f PROVE f \in Line(l)' <=> f \in Line(l)
        <3>1. ASSUME f # h
              PROVE  (\E v \in Worker : f \in Elements(queue'[v])) <=> (\E v \in Worker : f \in Elements(queue[v]))
            BY <1>3, <1>5, <3>1
        <3>2. f.key = l => f # h
            BY <1>4, <2>1
        <3> QED BY <1>0, <1>1, <3>1, <3>2, LineMember, LineMemberNext
    <2> QED BY <2>1
<1>12. h \in Order!Earliest(Line(k))
    <2>1. h \in Line(k)
        BY <1>0, <1>3, <1>4, <1>5, LineMember
    <2>2. ASSUME NEW f \in Line(k) PROVE h.id <= f.id
        <3>1. f \in Event /\ f.key = k /\ ((\E v \in Worker : f \in Elements(queue[v])) \/ (master.pc = "put" /\ f = master.e))
            BY <1>0, LineMember
        <3>2. CASE \E v \in Worker : f \in Elements(queue[v])
            <4>1. f \in Elements(queue[w])
                BY <1>7, <3>1, <3>2
            <4>2. f = h \/ h.id < f.id
                BY <1>5, <1>8, <3>1, <4>1
            <4> QED BY <1>4, <1>9, <3>1, <4>2
        <3>3. CASE master.pc = "put" /\ f = master.e
            BY <1>4, <1>6, <1>9, <3>1, <3>3
        <3> QED BY <3>1, <3>2, <3>3
    <2> QED BY <2>1, <2>2 DEF Order!Earliest
<1>13. /\ \A v \in Worker : ~(worker[v].pc = "process" /\ worker[v].e.key = k)
       /\ Running(k) = {}
    <2>1. ASSUME NEW v \in Worker, worker[v].pc = "process", worker[v].e.key = k PROVE FALSE
        <3>1. Handled(v) /\ worker[v].e \in Event /\ Has(v, worker[v].e)
            BY <1>0, <2>1 DEF WorkersTyped, Handled, Has
        <3>2. v = w
            BY <1>0, <1>3, <1>4, <1>5, <2>1, <3>1, SameWorker
        <3> QED BY <1>3, <2>1, <3>2
    <2>2. \A v \in Worker : ~(worker[v].pc = "process" /\ worker[v].e.key = k)
        BY <2>1
    <2> QED BY <2>2 DEF Running
<1>14. Running(k)' = {h}
    <2>1. \A v \in Worker : v # w => ~(worker'[v].pc = "process" /\ worker'[v].e.key = k)
        BY <1>3, <1>13
    <2>2. worker'[w].pc = "process" /\ worker'[w].e = h /\ worker'[w].e.key = k
        BY <1>3, <1>4
    <2> QED BY <2>1, <2>2 DEF Running
<1>15. \A l \in QueueKey : l # k => Running(l)' = Running(l)
    <2>1. ASSUME NEW l \in QueueKey, l # k, NEW f PROVE f \in Running(l)' <=> f \in Running(l)
        <3>1. worker'[w].e.key # l /\ worker[w].pc # "process"
            BY <1>3, <1>4, <2>1
        <3> QED BY <1>3, <3>1 DEF Running
    <2> QED BY <2>1
<1>16. Lines[k] = Line(k) /\ Runs[k] = {} /\ Lines' = [Lines EXCEPT ![k] = @ \ {h}] /\ Runs' = [Runs EXCEPT ![k] = {h}]
    <2>1. Lines' = [Lines EXCEPT ![k] = @ \ {h}]
        BY <1>10, <1>11 DEF Lines
    <2>2. Runs' = [Runs EXCEPT ![k] = {h}]
        BY <1>14, <1>15 DEF Runs
    <2> QED BY <1>13, <2>1, <2>2 DEF Lines, Runs
<1>17. UNCHANGED Inbox
    BY <1>1 DEF Inbox
<1>18. Order!Start(k)
    BY <1>1, <1>12, <1>16, <1>17 DEF Order!Start, Inbox, Lines, Runs
<1> QED BY <1>18

\* A worker that takes a shutdown indicator is not seen.
LEMMA WorkerTakeStopStutters ==
    ASSUME IInv, TypeOK', NEW w \in Worker, WorkerTake(w), Head(queue[w]) = Stop
    PROVE  UNCHANGED <<Lines, Runs>>
<1>0. TypeOK /\ Stop \notin Event
    BY EventFields DEF IInv
<1>1. /\ queue[w] \in Seq(Item) /\ queue[w] # <<>> /\ queue'[w] = Tail(queue[w])
      /\ worker[w].pc = "get" /\ worker'[w] = [pc |-> "done", e |-> NoEvent]
      /\ \A v \in Worker : v # w => queue'[v] = queue[v] /\ worker'[v] = worker[v]
    BY <1>0, TakeEffect
<1>2. Elements(queue[w]) = {Stop} \cup Elements(queue'[w])
    BY <1>1, QueueTail
<1>3. ASSUME NEW v \in Worker, NEW e \in Event PROVE e \in Elements(queue'[v]) <=> e \in Elements(queue[v])
    <2>1. e # Stop
        BY <1>0
    <2>2. CASE v = w
        BY <1>2, <2>1, <2>2
    <2>3. CASE v # w
        BY <1>1, <2>3
    <2> QED BY <2>2, <2>3
<1>4. UNCHANGED master
    BY DEF WorkerTake
<1>5. UNCHANGED Lines
    BY <1>0, <1>3, <1>4, LinesSame
<1>6. /\ \A v \in Worker : worker'[v].pc = "process" <=> worker[v].pc = "process"
      /\ \A v \in Worker : worker[v].pc = "process" => worker'[v].e = worker[v].e
    BY <1>1
<1> QED BY <1>5, <1>6, RunsSame

\* The end of the processing of an event; it was the only one of its key.
LEMMA WorkerProcessFinishes ==
    ASSUME IInv, TypeOK', NEW w \in Worker, WorkerProcess(w)
    PROVE  \E k \in QueueKey : Order!Finish(k)
<1>0. TypeOK /\ UsageCountsInFlight /\ WorkersTyped
    BY TypeParts DEF IInv
<1>1. UNCHANGED <<posted, storm, master, eventQueue, queue>> /\ worker[w].pc = "process"
    BY DEF WorkerProcess, stormVars, poolVars
<1>2. worker'[w].pc = "release" /\ \A v \in Worker : v # w => worker'[v] = worker[v]
    BY <1>0 DEF WorkerProcess, WorkersTyped
<1>3. PICK k \in QueueKey : k = worker[w].e.key
    BY <1>0, <1>1, EventFields DEF WorkersTyped, Handled
<1>4. \A v \in Worker : Handled(v) => worker[v].e \in Event /\ Has(v, worker[v].e)
    BY <1>0 DEF WorkersTyped, Has
<1>5. ASSUME NEW v \in Worker, worker[v].pc = "process", worker[v].e.key = k PROVE v = w
    <2>1. Handled(v) /\ Handled(w)
        BY <1>1, <1>5 DEF Handled
    <2> QED BY <1>0, <1>3, <1>4, <1>5, <2>1, SameWorker
<1>6. Running(k) # {}
    BY <1>1, <1>3 DEF Running
<1>7. Running(k)' = {}
    <2>1. \A v \in Worker : ~(worker'[v].pc = "process" /\ worker'[v].e.key = k)
        BY <1>2, <1>5
    <2> QED BY <2>1 DEF Running
<1>8. \A l \in QueueKey : l # k => Running(l)' = Running(l)
    <2>1. ASSUME NEW l \in QueueKey, l # k, NEW f PROVE f \in Running(l)' <=> f \in Running(l)
        BY <1>1, <1>2, <1>3, <2>1 DEF Running
    <2> QED BY <2>1
<1>9. Runs[k] # {} /\ Runs' = [Runs EXCEPT ![k] = {}]
    BY <1>6, <1>7, <1>8 DEF Runs
<1>10. UNCHANGED <<Lines, Inbox>>
    BY <1>0, <1>1, LinesSame DEF Inbox
<1>11. Order!Finish(k)
    BY <1>1, <1>9, <1>10 DEF Order!Finish, Inbox, Lines, Runs
<1> QED BY <1>11

\* Every step is a step of EventOrder, or not seen by it.
LEMMA NextOrder == IInv /\ IInv' /\ [Next]_vars => [Order!Next]_(Order!vars)
<1> SUFFICES ASSUME IInv, IInv', [Next]_vars PROVE Order!Next \/ UNCHANGED Order!vars
    OBVIOUS
<1>0. TypeOK /\ TypeOK' /\ storm' \in BOOLEAN /\ MasterTyped /\ WorkersTyped
    BY TypeParts, TypePartsNext DEF IInv, StormTyped
<1>1. CASE UNCHANGED <<posted, storm, Inbox, Lines, Runs>>
    BY <1>1 DEF Order!vars, Inbox, Lines, Runs
<1>2. CASE UNCHANGED <<posted, storm, eventQueue, queue, master, worker>>
    <2>1. UNCHANGED <<Inbox, Lines, Runs>>
        BY <1>2 DEF Inbox, Lines, Line, Runs, Running
    <2> QED BY <1>1, <1>2, <2>1
<1>3. ASSUME NEW k \in QueueKey, PostEvent(k) PROVE Order!Next
    <2>1. Order!Post
        BY <1>0, <1>3, PostsEvent DEF PostEvent, poolVars
    <2> QED BY <2>1 DEF Order!Next
<1>4. CASE PostStop
    <2>1. /\ eventQueue' = Append(eventQueue, Stop) /\ UNCHANGED <<posted, storm, queue, master, worker>>
          /\ eventQueue \in Seq(Item) /\ Stop \in Item
        BY <1>0, <1>4, TypeParts DEF PostStop, poolVars, stormVars, QueuesTyped, Item
    <2>2. Elements(eventQueue') = Elements(eventQueue) \cup {Stop}
        BY <2>1, QueueAppend
    <2>3. UNCHANGED <<Inbox, Lines, Runs>>
        BY <2>1, <2>2 DEF Inbox, Lines, Line, Runs, Running
    <2> QED BY <1>1, <2>1, <2>3
<1>5. ASSUME NEW hot \in BOOLEAN, StormTick(hot) PROVE Order!Next
    <2>1. UNCHANGED <<queue, master, worker>>
        BY <1>5 DEF StormTick, poolVars
    <2>2. CASE UNCHANGED <<eventQueue, posted>>
        <3>1. UNCHANGED <<Inbox, Lines, Runs>>
            BY <2>1, <2>2 DEF Inbox, Lines, Line, Runs, Running
        <3> QED BY <1>0, <2>2, <3>1 DEF Order!Next, Inbox, Lines, Runs
    <2>3. ASSUME NEW b \in BOOLEAN, posted < MaxEvents, posted' = posted + 1,
                 eventQueue' = Append(eventQueue, [id |-> posted + 1, key |-> MgmtKey, storm |-> b])
          PROVE  Order!Next
        <3>1. Order!Post
            BY <1>0, <2>1, <2>3, EventFields, PostsEvent
        <3> QED BY <3>1 DEF Order!Next
    <2> QED BY <1>5, <2>2, <2>3 DEF StormTick
<1>6. CASE MasterDrop
    <2>1. Order!Drop
        BY <1>0, <1>6, MasterDropDrops
    <2> QED BY <2>1 DEF Order!Next
<1>7. CASE \E target \in 0..PoolSize : MasterSelect(target)
    <2>1. Order!Accept
        BY <1>0, <1>7, MasterSelectAccepts
    <2> QED BY <2>1 DEF Order!Next
<1>8. CASE MasterPut
    <2>1. UNCHANGED <<posted, storm, Inbox>>
        BY <1>8 DEF MasterPut, stormVars, Inbox
    <2> QED BY <1>0, <1>1, <1>8, <2>1, MasterPutStutters
<1>9. CASE MasterStop \/ MasterJoin
    BY <1>0, <1>1, <1>9, StopStutters
<1>10. CASE MasterCleanup \/ MasterExit
    <2>1. UNCHANGED <<posted, storm, eventQueue, queue, worker>> /\ master.pc # "put" /\ master'.pc # "put"
        BY <1>0, <1>10 DEF MasterCleanup, MasterExit, MasterTyped, poolVars, stormVars
    <2>2. UNCHANGED <<Inbox, Lines, Runs>>
        BY <1>0, <2>1, LinesSame, RunsSame DEF Inbox
    <2> QED BY <1>1, <2>1, <2>2
<1>11. ASSUME NEW w \in Worker, WorkerTake(w) PROVE Order!Next \/ UNCHANGED Order!vars
    <2>1. CASE Head(queue[w]) # Stop
        <3>1. \E k \in QueueKey : Order!Start(k)
            BY <1>0, <1>11, <2>1, WorkerTakeStarts
        <3> QED BY <3>1 DEF Order!Next
    <2>2. CASE Head(queue[w]) = Stop
        <3>1. UNCHANGED <<posted, storm, Inbox>>
            BY <1>11 DEF WorkerTake, stormVars, Inbox
        <3> QED BY <1>0, <1>1, <1>11, <2>2, <3>1, WorkerTakeStopStutters
    <2> QED BY <2>1, <2>2
<1>12. ASSUME NEW w \in Worker, WorkerProcess(w) PROVE Order!Next
    <2>1. \E k \in QueueKey : Order!Finish(k)
        BY <1>0, <1>12, WorkerProcessFinishes
    <2> QED BY <2>1 DEF Order!Next
<1>13. ASSUME NEW w \in Worker, WorkerRelease(w) PROVE UNCHANGED Order!vars
    <2>1. UNCHANGED <<posted, storm, eventQueue, queue, master>> /\ worker[w].pc = "release"
        BY <1>13 DEF WorkerRelease, stormVars
    <2>2. worker'[w].pc = "get" /\ \A v \in Worker : v # w => worker'[v] = worker[v]
        BY <1>0, <1>13 DEF WorkerRelease, WorkersTyped
    <2>3. UNCHANGED Runs
        BY <2>1, <2>2, RunsSame
    <2>4. UNCHANGED <<Inbox, Lines>>
        BY <1>0, <2>1, LinesSame DEF Inbox
    <2> QED BY <1>1, <2>1, <2>3, <2>4 DEF Order!vars, Inbox, Lines, Runs
<1>14. CASE LoggerStep \/ Terminated \/ UNCHANGED vars
    BY <1>2, <1>14 DEF LoggerStep, Terminated, vars, poolVars, stormVars
<1> QED BY <1>3, <1>4, <1>5, <1>6, <1>7, <1>8, <1>9, <1>10, <1>11, <1>12, <1>13, <1>14
        DEF Next, Master, WorkerStep

\* Event processing implements EventOrder: the events of a key are processed in posting
\* order, one at a time, none lost or repeated, with any number of workers and keys,
\* however keys move between workers and whenever bindings are freed.
THEOREM OrderRefinement == Spec => ImplementsEventOrder
<1>1. Spec => []IInv
    BY Invariance
<1> QED BY <1>1, InitOrder, NextOrder, PTL DEF Spec, ImplementsEventOrder, Order!Spec
=============================================================================
