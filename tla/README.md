# TLA+ models of the NetXMS server core

This directory holds a verification project for the concurrent core of the NetXMS
management server: TLA+ modules written from the C++ source, TLC configurations that
check them on small instances, and TLAPS proofs of the most important invariants for
every size of the instance. All paths below are relative to the repository root
(`src/src/server/core/...` in `PROJECT.json` is `src/server/core/...` of the
repository). `PROJECT.json` records, for every definition, the lines it models.

How to use it, in this directory:

    tlc -workers 2 -config alarm_core.cfg MCAlarmManager
    tlapm AlarmManagerProofs.tla

## 1. The system and its parts

NetXMS monitors networks. The server (`netxmsd`) polls devices and agents, turns what it
sees into *events*, runs every event through a policy of rules, and keeps *alarms* with a
life cycle that operators, rules and an external helpdesk drive. Alarms decide the status
of the objects that the map and the dashboards show.

    pollers, traps, syslog, agents
              |  EventBuilder::post
              v
        g_eventQueue --> event processor (master + workers) --> event log writer
                               |  rules (EPP)
                               v
                         alarm manager  <--- client sessions, helpdesk link, watchdog,
                               |             root cause thread, background jobs
              severity tables  |
                               v
                         object status  <--- status pollers
    every thread finds objects through the object indexes, runs background work in thread
    pools, talks to agents over agent connections and to the database over the connection
    pool; alarm changes go to the database through the alarm writer and the SQL writer

| Part | State | Operations | What is hard | What makes it correct |
|---|---|---|---|---|
| Alarm manager, `core/alarm.cpp` | list of alarms by id, key index, severity table per object, parents and subordinates, root cause flags | report (create or update by key), acknowledge, resolve, terminate, delete, open/close/unlink issue, timeouts, cascades in the background, root cause evaluation | most operations finish after they have unlocked the list: the severity is dropped, the parent linked, the status recalculated later | key index never dangles; severity tables match the alarms; subordinates known to their parents; no alarm forgotten by the root cause thread |
| Object status, `core/netobj.cpp` | `m_status` | `calculateCompoundStatus` | reads the most critical alarm with no lock, stores later | status settles on the most critical alarm |
| Event processor, `core/evproc.cpp` | `g_eventQueue`, queue bindings with usage counters, worker queues, logger queue, storm flag | post, select worker, put, process, release, clean up bindings, detect storms, shut down | counters decremented by workers while the master moves or frees bindings | order per key, nothing lost or processed twice, shutdown ends |
| Object index, `core/index.cpp` | two copies of a sorted array, reader and writer counters | get, put, remove, clear, startup mode | readers take no lock; every change is made twice | copies agree, lookups exact, no reader in a copy being changed, writers not starved |
| Alarm persistence, `core/alarm.cpp`, `core/dbwrite.cpp`, `core/main.cpp` | alarm writer queue, SQL queue, table `alarms` | insert, update, delete, repeat, shut down, reload | two queues, repeated statements, crashes, changes during shutdown | table and queues together describe the list; rows do not go back; an orderly restart loses nothing |
| Thread pool, `libnetxms/tp.cpp` | workers, request queue, serialization queues, scheduled requests | execute, serialize, schedule, grow, shrink, destroy | a serialized request queued while its worker goes idle; stop requests in the same queue as the tasks | requests of one key in order, one at a time; every accepted request runs; destruction waits and ends |
| Message wait queue, `libnetxms/msgwq.cpp` | waiters, unclaimed messages | put, wait, expire | the waiter looks at its entry without the lock | no waiter left with its message in the queue; no destroyed waiter in the list |
| Agent connection, `server/libnxsrv/agent.cpp` | request counter, channel | request, output of commands, connect, disconnect | late and lost answers | no answer of another request; complete output when success is reported |
| Database connection pool, `db/libnxdb/dbcp.cpp` | connections and their flags | acquire, release, shrink, expire, reset | reconnects are done without the lock | a session belongs to one thread; no session and no place is lost; every acquire returns |
| Thresholds, `core/dcithreshold.cpp`, `core/dcitem.cpp` | activation flag, sample counts, last event time | check, error, repeat | order of thresholds, repeats, script errors | activation and deactivation events alternate |
| Agent tunnels, scheduler, notification channels, incidents, polling, correlation | see `PROJECT.json` | | timeouts, retries, life cycles | |
| Sessions, users, other services, agent, NXSL, codecs, web API | see `PROJECT.json` | | mostly translation and I/O | |

## 2. The modules

| Module | What it is |
|---|---|
| `AlarmManager` | the in-memory alarm manager and the alarm-driven part of object status |
| `MCAlarmManager` | its instance for TLC (model values, symmetry) |
| `AlarmManagerProofs` | type correctness, `MostCriticalIsMax`, `KeyIndexSound`, `NoGhostSeverity`, `ParentKnowsSubordinate`, `RcaNotForgotten` |
| `EventOrder` | abstract: what event processing promises |
| `EventProcessor` | parallel event processing, storm detector, logger, shutdown; implements `EventOrder` |
| `MCEventProcessor` | its instance for TLC |
| `EventProcessorProofs` | types, `UsageCountsInFlight`, `BindingsCounted`, refinement of `EventOrder` |
| `IndexMap` | abstract: a map that operations change in one step |
| `ObjectIndex` | the index with two copies; implements `IndexMap` |
| `MCObjectIndex` | its instance for TLC |
| `ObjectIndexProofs` | types, `LookupExact`, `CopiesAgree`, `RedoExcludesReaders`, refinement of `IndexMap` |
| `SerialExecution` | abstract: what serialized execution promises |
| `ThreadPool` | the thread pool; its serialized requests implement `SerialExecution` |
| `MCThreadPool` | its instance for TLC |
| `ThreadPoolProofs` | types, `ActiveRequestsExact`, `OneProcessor`, refinement of `SerialExecution`, `DestroyWaits` |
| `MsgWaitQueue` | the message wait queue, as operators and steps for its users |
| `AgentConnection` | requests to an agent, on top of `MsgWaitQueue` |
| `MCAgentConnection` | its instance for TLC (symmetry of the threads) |
| `AgentConnectionProofs` | all safety properties of the two modules |
| `AlarmStore` | persistence of alarms: writers, shutdown, crash, reload |
| `MCAlarmStore` | its instance for TLC |
| `AlarmStoreProofs` | types, `QueueCompletesTable`, `RowNeverGoesBack`, `OrderlyRestart` |
| `ConnectionPool` | the database connection pool |
| `MCConnectionPool` | its instance for TLC |
| `ConnectionPoolProofs` | all safety properties of the pool |
| `SequenceLemmas` | lemmas about sequences (first match, removing, inserting, counting) that the proofs share |

### AlarmManager

`alarms` is `m_primaryIndex` of `AlarmList`, `keyIndex` its `m_keyIndex`, `sev` the hash map
`s_alarmSeverityByObject` (an object without an entry has the empty table), `status` the part
of `NetObj::m_status` that alarms and modules decide, for objects without children, `rcaNeeded` and
`rcaPossible` the two flags of the root cause thread. `lock` is the list lock, and `op[t]` what thread `t` has still to do of an
operation after a critical section. An operation that is one critical section is one action;
an operation that goes on after the unlock has an action for every further step:

* `CreateNewAlarm`: with a key that the index knows, `CreateUpdate` (one section, the status is
  recalculated inside it); otherwise `CreateCheck`, `CreateAdd` (a second critical section) and
  `CreateLink` (after the unlock: parent's subordinate list, status, root cause flags).
* `ResolveAlarmByKeyExact`, `ResolveAlarmByHDRef`, `DeleteAlarm`: the section
  (`ResolveFirst`), then `DropSeverity`.
* `ResolveAlarmsById`, by pattern, by data collection object: alarm and severity table in one
  section, then the recalculation.
* Recalculation: `RecalcRead`, `RecalcModules` and `RecalcCommit`; the status poll of an object
  that has one available (`Polled`) does the same with `PollRead`, `PollModules` and `PollCommit`.
  The loaded modules may answer with a status of `ModuleStatus`, or not at all; an answer is combined
  with the OLD status of the object (`netobj.cpp:1561`), which is read without its lock.
* Cascades: `Spawn` queues the job, `JobStart`, `JobAck`, `JobResolve`, `JobEnd` run it, and an
  alarm of a job spawns the next one.
* Root cause thread: `RcaStart` (clears the flags), `RcaCollect` (copies under the lock),
  `RcaApply` (the script has run; the alarm is looked up again), `RcaEnd`.
* Watchdog: `OutstandingTimeout`, `AckTimeout`, `ResolveExpired`.

What is abstracted. A key is a model value; messages, events, comments, categories, user ids
and notifications to clients are left out. Times are left out: a timeout that has been set may
expire whenever the watchdog runs. The root cause script may return any parent that
`Parents` allows. A call for several alarms is modelled as one section per alarm: its effect on
each alarm depends only on that alarm, so the model allows more interleavings than the code. The
state `ALARM_STATE_TERMINATED` does not occur, because the alarm leaves the list in the same
section. The variable `rcaDue` is a history variable for `RcaNotForgotten`.

### EventProcessor

One action for every step of the master between two accesses to shared state (`MasterDrop`,
`MasterSelect`, `MasterPut`, `MasterCleanup`, `MasterStop`, `MasterJoin`, `MasterExit`), of a
worker (`WorkerTake`, `WorkerProcess`, `WorkerRelease`), the logger (`LoggerStep`), the storm
detector (`StormTick`, one second) and the producers (`PostEvent`, `PostStop`).
`MasterSelect` reads the binding and its usage counter, `MasterPut` acts on what it read: a
worker may decrement the counter in between. The less loaded worker is any worker: the
statistics that pick it do not affect order. `WorkerProcess` either logs the event or drops
it; the rules it runs are the alarm manager's operations.

`EventOrder` keeps the accepted events of every queue key. Events are numbered as they are
posted, so it uses sets and takes the earliest event of a set where the code takes the first of
a queue. Under the refinement mapping the accepted events of a key are those that wait in the
queue of any worker and the one in the master's hands.

### ObjectIndex

`copy` holds the two arrays, `primary` the pointer `m_primary`, `readers` and `writers` the
counters of `INDEX_HEAD`. A writer holds `m_writerLock` throughout, so one writer variable is
enough. The write is in six steps: it is changing the secondary copy until `Modify`, then
`Swap`, `Mark`, `Wait` (together `swapAndWait`), it is changing the other copy until `Redo`,
and `Unmark`. A reader takes `PickCopy`, `Enter`, `Check`, then reads, or leaves and tries
again. The array operations are pure operators: `findElement` is the code's binary search with
its own arithmetic, `Sort` any order in which the keys do not decrease (what `qsort` leaves, up to the
order of equal keys), `PutNew` and `CatchUp` the two halves of `put` with the shortcut for the
largest key. Keys are natural numbers with 0 among them (the default zone has UIN 0). Startup mode may begin
on an index that holds objects already (`BeginStartup`); `put` then appends to both copies without looking
for the key and without sorting (`StartupPut`), so a key can be there twice. The history variable
`repeated` records that it happened: from then on the index is no map, and `ImplementsIndexMap` ends there.
Types, lookups and agreement of the copies are not exempt.

### ThreadPool

`queue` is the request queue, `serialKeys` and `serialQueue` the map `serializationQueues`,
`schedulerQueue` the scheduled requests in the order of their run times, `threads` the
map of registered workers. A caller takes two steps, because `shutdownMode` is tested before the
request is put. A worker takes a request in one step (`WorkerTake`) and finishes it in
another; `ProcessSerializedRequests` is `SerialGet` (no lock), `SerialRecheck` (second look with
the serialization lock) and `SerialRun`. A worker that is asked to stop takes
`WorkerUnregister`, `WorkerQueueJoin` and `WorkerEnd`, its last use of the pool, and another worker runs
`JoinWorkerThread`. Nothing keeps the pool alive for a worker that has unregistered: these steps are possible after
the deletion. The maintenance thread either
resizes the pool (`MaintGrow`, or `MaintShrink` and one `MaintQueueStop` for every thread)
or not, and then queues what is due (`MaintSchedule`). Wait times, load averages and queue sizes are
arbitrary. `ThreadPoolDestroy` is `DestroyBegin`, `DestroyCount`, `DestroyQueueStop`, then the walk over the map
of threads, which holds no lock and reads the next entry before it joins the thread of the present one:
`DestroyWalk`, `DestroyJoin` for every entry, or `DestroyJoinStale` when the next entry has been
removed meanwhile (the freed entry may then lead anywhere), and `DestroyDelete`. History variables: `promised`, the
tasks that destruction has to wait for; `overlap`, threads were stopping by themselves when it counted
them; `stale`, the walk used a removed entry.

### MsgWaitQueue and AgentConnection

`MsgWaitQueue` has the two lists and, for every thread, its waiter entry (`want`, `slot`) and what
`waitForMessage` returns (`result`). `waitForMessage` is `WaitBegin` (locked), `WaitEnd` (the
wait is over, by a message or by the timeout, and the entry is read without the lock) and
`WaitLeave` (locked). `put` is one locked section; the time of the expiration check and the age of
the messages are arbitrary, but messages expire oldest first. `AgentConnection` adds the life of
a request: `Begin`, `Send`, `Wait`, `WakeUp`, then `Timeout`, `Response` or `Output`. It is
`executeCommand`, the request with the longest life; requests without output, which most
functions of the class are, are its first half. The receiver's `ReadMessage` delivers the answers of
the agent: in any order between requests, in order within one, late, or never.

### AlarmStore

`list` and `alarm` are the alarms in memory, reduced to the number of their last change, their source object and
whether they are terminated. `row` is the table. The ID and the code of the last event are kept apart
(`event`, `rowEvent`): only the INSERT writes them, the UPDATE leaves them out, and so an
alarm that a second event has updated has its first event again after a restart. An event may move an alarm to another
object. `DeleteObjectAlarms` removes alarms from the list by their source in memory (`Forgotten`), and
later rows from the table by their column (`ObjectRows`); `cleanup` is the object between the two.
`CreateNewAlarm` takes three steps, because
`createInDatabase` copies and queues without the list lock; changes (`Update`, `Terminate`) copy and
queue under it; `DeleteAlarm` queues its statement after the unlock. The writers execute the
head of their queue; a statement may fail, and the INSERT or UPDATE may have been executed although
an error is reported (lost connection). The alarm writer repeats, the SQL writer does not. `phase`
follows `Shutdown`: the alarm writer is stopped, then the SQL writer; client sessions and the
main thread pool still run and may change alarms. A crash may come at any moment, a restart loads
the rows that are not terminated.

The code does not keep the table up to date in every interleaving. The history variable
`overtaken` holds the alarms for which it does not, and only for these reasons:

* an UPDATE queued between the copy for the INSERT and its put, which then precedes the INSERT;
* an alarm removed and freed before `createInDatabase` has copied it;
* a DELETE executed while the INSERT of the alarm is still to come, or one that failed;
* `DeleteObjectAlarms`: rows inserted between its two halves, statements rolled back, an alarm raised
  for the object meanwhile, and an alarm whose row names another object than memory does when one
  of the two objects is deleted (it keeps the row it should lose, or loses the row it needs);
* a change queued after the end-of-job indicator of the writer.

### ConnectionPool

`pool` is `m_connections`. Entries and handles are known by their addresses, since the memory of a removed
entry or of a deleted handle can be used for a new one. `open` are the handles that exist, each of them with a session
of the database, `held` the handle of every thread. Acquire, and each of the two locked sections of release, is one
step. `ResetConnection` is two steps without the lock, for releasing threads and for the maintenance
thread: the first deletes the handle, the second gets a new one or none. In between the entry names a
handle that is gone. `DBConnect` fails when the database has no free session and, up to a bound, at
will. `Limit`, the larger of the two sizes, bounds the pool: nothing in the server keeps the base size below the maximum.

Two mistakes of the code are recorded by history variables, and the safety properties speak of behaviours in
which neither has been made yet:

* `misremoved`: when a reconnect fails, `DBConnectionPoolReleaseConnection` removes the entry at the index it had
  found before it gave up the lock (`dbcp.cpp:407`). If another thread has changed the array
  meanwhile, that is another entry, or none.
* `aliased`: a new handle gets the address of one that another thread has deleted in `ResetConnection`
  and not replaced yet (`dbcp.cpp:112`). The release of the new handle searches by address (line 392) and finds the
  wrong entry.

Without these exemptions TLC finds two threads with one entry, more sessions than the limit, and places that
are lost for ever: entries that are in use although no thread has them, so that
`DBConnectionPoolGetAcquiredCount` reports a connection that nobody acquired. The second mistake needs
no failure at all. The liveness property has no exemption.

## 3. What the runs check and show

| Run | Shows | Distinct states |
|---|---|---|
| `alarm_core` | types, `MostCriticalIsMax`, `KeyIndexSound`, `NoGhostSeverity` | 293,000 |
| `alarm_parents` | `ParentKnowsSubordinate`, `RcaNotForgotten` | 372,000 |
| `alarm_status` | `StatusConverges` | 180,000 |
| `alarm_severity` | a violation of `ActiveAlarmCounted` | |
| `events_parallel` | types, `UsageCountsInFlight`, `BindingsCounted`, `ImplementsEventOrder`, `ShutdownDrains` | 58,000 |
| `events_storm` | a violation of `StormAfterDuration` | |
| `index_copies` | types, `LookupExact`, `CopiesAgree`, `RedoExcludesReaders`, `ImplementsIndexMap`, `WriteCompletes` | 222,000 |
| `index_readers` | a violation of `ModifyExcludesReaders` | |
| `thread_pool` | types, `ActiveRequestsExact`, `OneProcessor`, `DestroyWaits`, `ImplementsSerialExecution`, `AcceptedRuns`, `DestroyReturns` | 202,000 |
| `agent_requests` | types, `NoMissedMatch`, `WaitersAlive`, `OwnMessages`, `OutputComplete` | 410,000 |
| `alarm_store` | types, `QueueCompletesTable`, `RowNeverGoesBack`, `OrderlyRestart`, `ShutdownEnds` | 628,000 |
| `db_pool` | types, `SessionExclusive`, `SessionsBounded`, `NoLostPlace`, `AcquireReturns` | 715,000 |

Properties, in words:

* `MostCriticalIsMax`: the cached maximum of an object is the maximum of its entries.
* `KeyIndexSound`: the key index, which does not own alarms, never points to a removed alarm or
  to one with another key. Two alarms with one key *can* exist (two threads pass the check of
  `CreateNewAlarm` before either adds), and the second one then hides the first; the property says
  that this never leaves a dangling entry.
* `NoGhostSeverity`: an entry of a severity table belongs to an unresolved alarm of that object,
  or to one that a thread is about to drop. Deleted objects are exempt: `DeleteObjectAlarms`
  leaves their tables alone.
* `ParentKnowsSubordinate`: a cascade from a parent reaches its subordinates.
* `RcaNotForgotten`: a report that arrives while the root cause thread clears its flags,
  collects or evaluates is evaluated later.
* `StatusConverges`: a stale status stored by a recalculation that was overtaken, or kept by a module, is
  repaired by the next status poll in which no module overrules the alarms. Objects without status polls keep it.
* `UsageCountsInFlight`, `BindingsCounted`: the counters by which the master decides are exact.
* `ImplementsEventOrder`: per key, events are processed one at a time in posting order; only
  events dropped in a storm are lost.
* `ShutdownDrains`: after the shutdown indicator, queues empty and every thread ends.
* `LookupExact`: the binary search finds exactly the keys that a copy holds, repeated keys included.
  `CopiesAgree`: between writes the copies are equal. `RedoExcludesReaders`: nobody reads the copy in which a
  write is being repeated. `ImplementsIndexMap`: until a load repeats a key, readers see a map that is
  changed in one step. `WriteCompletes`: readers do not starve a writer.
* `ActiveRequestsExact`: the counter that tells the maintenance thread that a pool without threads
  has work is exact. Overlapping rounds of shrinking really can stop every thread, because a thread
  that was asked to stop still counts; `AcceptedRuns` says that no accepted task is
  left behind by that, by the removal of a key, or by anything else but the destruction of the pool.
* `OneProcessor`, `ImplementsSerialExecution`: a key has one request that processes it; its tasks
  run one at a time, in order, once.
* `DestroyWaits`: no thread uses the deleted pool, if none was stopping by itself when `ThreadPoolDestroy`
  counted the threads; otherwise only threads that stop by themselves may. What was accepted before is run before
  the pool is deleted. Two exemptions are real: if every thread already had a stop request, tasks behind these
  requests are never run (nothing is promised then), and once the walk over the map has used an entry that such a thread
  removed, it may miss threads that still run. `DestroyReturns`: destruction ends all the same.
* `NoMissedMatch`, `WaitersAlive`: search for messages and search for waiters do not miss each
  other; the list of waiters holds no destroyed entry.
* `OwnMessages`, `OutputComplete`: answers go to the request they belong to; the callback sees the
  output in order without a gap, and all of it if the call reports success. A command
  whose unclaimed output expired while its callback was busy is exempt: the code does not notice the gap.
* `QueueCompletesTable`: at every moment, what the table will hold when the queue is worked off is
  what memory holds, in the columns that an UPDATE writes. `RowNeverGoesBack`: repeated statements and restarts never
  bring back older contents or a terminated alarm. `OrderlyRestart`: what is loaded after an orderly shutdown is
  what was in memory, ID and code of the last event aside. Both exempt the alarms in `overtaken` (section 2).
  `ShutdownEnds`: a shutdown ends although the writer repeats failed statements, unless the statement is an
  INSERT that had been executed when an error was reported: it violates the primary key for ever.
* `SessionExclusive`, `SessionsBounded`, `NoLostPlace`: a session is used by one thread; the pool knows all
  sessions, and has no more than `Limit`; an entry in use belongs to somebody. They hold until one of the two mistakes
  of section 2 is made. `AcquireReturns`: a thread that asks for a connection gets one, even after such mistakes.

Disagreements the runs demonstrate (`findings` in `PROJECT.json`):

1. `alarm_severity`: `ResolveAlarmByKeyExact` unlocks the list before it drops the severity. A
   duplicate event in between reopens the alarm and records its severity, which the late drop
   removes: the alarm is outstanding and does not count, until the next event with its key.
2. `events_storm`: seconds above the threshold are counted across pauses, so a storm is declared
   although the rate was never above the threshold for `EventStorm.Duration` in a row.
3. `index_readers`: a reader that picked the primary copy before a swap and counts itself in after
   the writer has opened it again reads the secondary copy, which the next writer changes
   without looking at the readers. Only the change *after* the swap is protected.

The models show further behaviour that a maintainer would want to know; each is an exemption of a property above
and an entry of `hazards`: a status that modules keep from following the alarms (`netobj.cpp:1561`), two
entries for one key after loading (`index.cpp:184`), the event columns that no UPDATE writes (`alarm.cpp:860`),
the two mistakes of the connection pool (`dbcp.cpp:112` and `407`), the walk over a map that is being changed
(`tp.cpp:432`).

### Bounds and why they are enough

* Alarms: two threads in the middle of an operation besides the one-section operations, which
  need no thread; two alarms, so that one can be parent, duplicate or equal-severity neighbour
  of the other; one key and the empty key; two severities (equal, lower, higher); two
  objects in `alarm_core`, so that an update moves an alarm between objects and one object can be
  deleted. `alarm_core` sets no object managed (no status recalculation), `alarm_status` one,
  with a module that may say normal:
  status does not feed back into the list. `alarm_parents` uses `Parents = "earlier"`, so that the
  parent relation is a forest as scripts that look for a cause produce it; `"any"` is admitted by
  the module and by the proofs. At most one cascade is started while a job is queued
  (`NoJobQueued`), and jobs of cascades are bounded by one per alarm.
* Events: two workers, two keys, three events suffice for a key with events in flight, idle, moved
  and freed at the same time as another key loads its worker; four events (728,000 states) give
  the same result. `Duration = 1` makes a storm begin and end within the bound; the storm run
  needs `Duration = 2`.
* Index: three keys, 0 among them, give arrays of every length from 0 to 3, put below, between and above, repeated
  keys, both copies unequal in the middle of a write; two readers, one in each copy. With a second object, which
  tells a replacement, and one reader (1,006,000 states) the safety properties hold as well.
* Thread pool: three identities for two threads at a time, so that a thread can be started
  while another is being joined; one stop request of the maintenance thread, which can be under way at any step of
  the destruction; two tasks of one key, each also plain or scheduled. With two stop requests rounds
  overlap and all threads can go: the safety properties hold with two tasks (1,285,000 states), the liveness
  properties with one (96,000), but not all in one run of reasonable length.
* Agent: two threads, two requests, three output messages: one can be with the waiter, one
  unclaimed and one expired. Three requests with two output messages give the same result.
* Alarm store: one alarm, two objects, three changes, two failing statements, one crash and any number of orderly
  restarts. Properties are about one alarm at a time, and other alarms only add requests in between: two alarms of one object,
  one change and one failure (951,000 states) give the same result.
* Connection pool: a pool of one to two connections, three addresses of entries and handles (one more
  than the pool may hold, so that exceeding the limit is visible), three acquires, two failed
  attempts, two rounds of maintenance or reset: the shortest behaviours that make either mistake fit in.

Symmetry is used for threads in three runs that check only invariants; the liveness runs use
none. Deadlock is checked in every run but `db_pool`, in which all threads stop when the bound on
acquires is used up.

### Fairness

* `AlarmManager!FairSpec`: an operation that has begun goes on (`Continue(t)`), and the status
  poll of every object of `Polled` reads, asks the modules and stores again and again. `QueueForPolling`
  (`poll.cpp:302-309`) gives a status poll, again and again, to the objects that have one available; others are not
  in `Polled`. No operation need begin, and nothing is assumed of what modules answer.
* `EventProcessor!FairSpec`: master, workers and logger run when they can; nothing is assumed of
  producers, cleanup or the storm detector. These are threads that wait only on their queues.
* `ObjectIndex!FairSpec`: a writer and a reader that have begun go on; nobody need begin. In
  `WriteCompletes` a new reader can hold the writer up only by entering the closed copy, and it
  picks the other one on its next attempt.
* `ThreadPool!FairSpec`: workers and the maintenance thread run when they can and tasks end;
  destruction, once called, goes on. Strong fairness for two choices of the maintenance
  thread: it looks every minute whether a pool has lost its threads and starts one (creation of a thread
  does not fail for ever), and every run time comes. Nothing is assumed of callers.
* `AlarmStore!FairSpec`: writer threads work off their queues; the thread that runs `Shutdown` goes on
  when the writer it joins has ended. The number of failing statements is bounded.
* `ConnectionPool!FairSpec`: a waiting thread tries again (it waits at most 10 seconds), a thread that
  has a connection releases it, a connection attempt returns. The number of failures is bounded.
* `AgentConnection` states no fairness: a wait always ends by its timeout.

## 4. What is proved

All theorems hold for every value of the constants that the assumptions allow.

**AlarmManager** (assumptions: severities are in 0..4, the empty key is not a key, "nobody"
is no thread, the number of alarm ids is a natural number, inputs have their types).
`AlarmManagerProofs!Invariance` shows `Spec => []IInv` with

    IInv == TypeOK /\ KeyIndexSound /\ MostCriticalIsMax /\ Fresh

from which `TypeCorrect`, `KeyIndexCorrect` and `MostCriticalCorrect` follow. `Fresh` is the
strengthening: an alarm that has been created and not yet added has an id that is issued, not in
the list and not held by another thread. Without it `CreateAdd` could overwrite an alarm, and
key index and types would not be preserved. `MostCriticalIsMax` rests on two lemmas about
`updateAlarm` and `removeAlarm` (they keep a table correct) and one that a finite table of levels
has a maximum, found by going through the six levels from above. There is one lemma per group of
actions.

`AlarmManagerProofs!NoGhostCorrect` shows `NoGhostSeverity` relative to `IInv`: the entry that
may become a ghost is that of the alarm an action resolves, removes, or moves to another object;
that action either clears the entry or leaves its thread at "drop".

`SubordinatesKnown` and `RootCauseRemembered` show `ParentKnowsSubordinate` and `RcaNotForgotten`, relative
to `IInv`, by

    ParentInv == Linked /\ ParentsKnown /\ RcaNotForgotten

`ParentKnowsSubordinate` is not inductive: while a new alarm waits for its link, another thread may move it to
a second parent, and completing the link to the first must not be what the second was waiting for. `Linked` adds
for which parent the link is pending. `ParentsKnown` says that a parent has been in the list before anybody names
it: an alarm that is added begins with no subordinates, so nobody may have it as parent already. Most actions
keep parents, pending links and requests for root cause analysis (`KeepsAll`); creation, the duplicate event and
the root cause thread have lemmas of their own.

**EventProcessor** (assumptions: at least one worker, the bounds are natural numbers, the queue keys are a
finite set, the key of the server's own events is one of them). `EventProcessorProofs!Invariance` shows

    IInv == TypeOK /\ UsageCountsInFlight /\ BindingsCounted /\ Ordered /\ MasterFits /\ DurationFits

`MasterFits` is what the master has read of a binding and still relies on when it puts the event, while workers
go on decrementing the counter: a key that is to stay is bound, a key that is to move has nothing in flight.
`Ordered` says that events have increasing numbers from the worker's hands through its queue and the
master to `g_eventQueue`. It is needed twice: events in flight have different numbers below that of the event
at the master, which bounds the usage counter, and the first event of a queue is the earliest of its key.
`DurationFits` bounds the counter of the storm detector. Finitely many keys are needed for the load figures, which
are cardinalities. `OrderRefinement` shows that every step is a step of `EventOrder` or leaves its variables
alone. The step to look at is `WorkerTake`: by `UsageCountsInFlight` all events of the key are at this worker
(`SameWorker`), so no other worker is processing one, and by `Ordered` the one it takes is the earliest,
the one in the master's hands included.

**ObjectIndex** (assumptions: keys are natural numbers, the readers are a finite set).
`ObjectIndexProofs!RedoExclusive` shows `RedoExcludesReaders` by

    IInv == Shape /\ Counted /\ Marked /\ RedoExcludesReaders

`Counted` says that the reader counter is the cardinality of the set of readers inside the
copy, which is what makes "counter is zero" mean "nobody is inside"; `Marked` says that the copy
stays closed from `Mark` to `Unmark`, so that a reader who enters later is turned away.
`CopiesStayEqual` shows `CopiesAgree` by a second invariant, `AInv`. Its main part, `InStep`, says that one
copy is ahead of the other by exactly the write under way from `Modify` to `Redo`, and by nothing otherwise: the
second change, made at the position that was found in the other copy, has the same result as the first.

`IndexTypes`, `LookupIsExact` and `MapRefinement` show `TypeOK`, `LookupExact` and `ImplementsIndexMap` by a third
invariant, preserved given `AInv`:

    BInv == ... /\ Loading /\ InOrder /\ Unrepeated /\ PositionKnown /\ Closed

(the dots are types). `InOrder` says that after startup both copies are in ascending order (equal keys allowed), with
no key above `maxKey`, which decides whether `put` may skip the sort; `Loading` is the weaker condition of the startup
(sorted unless dirty); `Unrepeated` says that the keys of a copy are different until a load has repeated one;
`PositionKnown` says that up to the swap a write's position is one of its key, 0 only for a
put of a new key; `Closed` gives the writer counters. `Modify` preserves `InOrder` by a lemma for each array
operation; `Redo` preserves it because by `AInv` it makes the copy equal to the other one. Underneath are two results about the
operators, for arrays of any length:

* `FindExact`: on an array in ascending order `findElement` returns a position of the key, or 0 if it is
  nowhere. A recursive function is a CHOOSE, so `SearchExists` first shows that a function that satisfies the recursion
  exists; `SearchRange` then shows that a range that is given up on does not hold the key. Both argue by a smallest range for which
  the claim fails (`MinProperties`). The upper end of a range, unsigned in the code, does not fall
  below 0, because keys below the first one are refused before the search.
* `SortExact`: an order as `Sort` chooses it exists, the inverse of the rank of an element (the number of
  elements that come before it), and the result has the same elements in ascending order, different if they were different.

For the refinement the primary copy is seen as a set of elements with different keys, which stands for one map
(`OneMap`). Sorting leaves the set alone, the change of the secondary copy is not seen, and the swap takes the set to the one
`Changed` makes of it, which is a step of `IndexMap` (`SwapMaps`). All this is until a load repeats a key.

**ThreadPool** (assumptions: the sizes are numbers, minimum not above maximum, the identities of threads
are a finite set of numbers). `ThreadPoolProofs!Invariance` shows

    IInv == TypeOK /\ ActiveRequestsExact /\ OneProcessor /\ PlainTasks /\ SerialTasks

The two counting invariants are inductive given the types; each step moves one request between the
queue and a worker, and the lemmas `CountAppend`, `CountTail` and `CountConcat` of `SequenceLemmas` say
what that does to the number of requests of a kind in the queue. `SerialRefinement` shows that every step of
the pool is a step of `SerialExecution` or leaves its variables alone. It needs `OneProcessor` (no second
worker can start a task of a key) and that a task never changes from serialized to other execution
(`PlainTasks`, `SerialTasks`), since the abstract specification does not see other tasks.

`DestroyComplete` shows `DestroyWaits` by a second invariant, relative to `IInv`:

    DInv == DestroyPhase /\ Registered /\ JoinedOnce /\ Placed /\ DueFirst /\ OneLeft
            /\ Unwalked /\ Walking /\ Alone /\ DestroyWaits

A promised task is in the queue, in the queue of a key that is being processed, or at a worker (`Placed`); the
requests for it are before the first stop request of `ThreadPoolDestroy` (`DueFirst`), since the maintenance
thread, the only one that could still add some, has ended; and until a worker takes that stop request, one
thread has not been asked to stop (`OneLeft`), because afterwards every stop request of the maintenance thread
takes away exactly one thread (`StopSteps`). `Registered` and `JoinedOnce` say that only threads that
unregistered themselves are freed, each of them once. `Walking` says that the walk leaves behind only threads that have
ended and comes to all others, as long as it has used no removed entry; `Alone` says that no entry is removed if
no thread was stopping when the threads were counted.

**AgentConnection** and **MsgWaitQueue** (assumptions: the numbers are natural, there is at least one
output message, "no message" is no message). `AgentConnectionProofs!Invariance` shows an
invariant of eleven parts. `NoMissedMatch` and `WaitersAlive` need only each other and the types: both
searches are made under the lock, and what `put` gives to a waiter it takes out of the list. `OwnMessages`
needs that identifiers are not used again (`IdsFresh`), that every message in flight answers a request that
was sent (`Genuine`), and that the entry of a waiter is current (`EntriesCurrent`). `OutputComplete` needs
in addition `StreamsWhole`: what a thread has taken and what is unclaimed are, together and in order, what
the agent has sent so far. That is a property of the stream, not of the thread, and it is what a late
response or an expired message could break.

**ConnectionPool** (assumptions: the sizes are numbers, in no relation to each other; there are at least as many
addresses and handles as the larger one; the maintenance thread is not one of the callers).
`ConnectionPoolProofs!Invariance` shows `IInv == Base /\ (Unmistaken => Sound)`. `Base` holds always:
types, no address twice, never more entries than the larger size. `Sound` holds until one of the two mistakes of
section 2 is made, and is an ownership discipline that no lock enforces: entries do not share handles, an idle entry
has one that exists, an entry that waits to be reconnected or is being reconnected is not idle and belongs to one
thread, which knows whether it has a handle; only an entry that is being reconnected may name a handle that is
gone. `SessionExclusive`, `SessionsBounded` and `NoLostPlace` depend on each other through these parts.

**AlarmStore** (assumption: the bounds are natural numbers, and "no row" is not a row). `AlarmStoreProofs!Invariance`
shows `IInv == TypeOK /\ PhaseFits /\ WrittenOut /\ \A a \in Alarm : Fits(a)`. For every alarm, `LifeCycle` says
which traces an alarm may have left, `Promised` extends `QueueCompletesTable` to alarms that are being
created (the prepared INSERT holds the present fields) or deleted (a DELETE is still to come), and
`Ordered` says that requests are in the order of the changes and neither row nor request is ahead of
memory. An alarm whose object is being deleted is out of the list while its row is still there. The two columns that an
UPDATE leaves out are in none of these. `PhaseFits` and `WrittenOut` say where the end-of-job indicators can
be: behind them there is only what was overtaken. The action property `RowNeverGoesBack` follows from `Ordered`, `OrderlyRestart`
from `WrittenOut`. What the queue will leave in a row is `FinalOf`, defined by the last request
for the alarm, so that no induction over the queue is needed.

Model-checked only is liveness (`StatusConverges`, `ShutdownDrains`, `WriteCompletes`, `AcceptedRuns`,
`DestroyReturns`, `ShutdownEnds`, `AcquireReturns`), which is out of the proof system's reach. Every other property that a
passing run checks is stated by a theorem. The three expected violations are counterexamples and need no proof.

## 5. What is not modelled

* Lifetimes of C++ objects: a parent alarm or an index entry that is used after it may have
  been freed is a hazard of the code (see `hazards`), not a state of the models.
* Of alarm persistence: the tables of events, notes and state changes of alarms, and the fast shutdown.
* `MsgWaitQueue::clear`, which resets the memory of waiters that may still be waiting, and the
  external subagents of the agent, which use it and count request IDs without a lock.
* `AgentConnection`: file transfer, encryption, messages the agent sends on its own.
* `ThreadPool`: load statistics; what a walk over the map of threads does to the memory of a map that is changed
  meanwhile (a removed entry may lead anywhere, the map itself stays whole).
* Object status: propagation over the object tree and additional status; the answers of modules are inputs.
* The serial event processor: one thread without bindings, which keeps order trivially.
* Rule matching and scripts (NXSL): their outcome is an input.
* Protocol codecs, SQL, drivers, the web API and client sessions, which translate requests to
  the operations modelled here.

## 6. Plan

In order of importance:

1. `Thresholds`: activation, sample counts and repeats of the thresholds of one item.
2. As far as it pays: agent tunnels, scheduler, notification channels, incidents, poll state.
3. Lifetime of index entries (`SharedPointerIndex::get` against `remove`) as an extension of
   `ObjectIndex`.
