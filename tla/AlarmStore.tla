----------------------------- MODULE AlarmStore -----------------------------
(***************************************************************************)
(* Persistence of the active alarms (src/server/core/alarm.cpp, dbwrite.cpp *)
(* and the shutdown sequence of main.cpp).  Alarms live in memory; every   *)
(* change is copied into a write request for the alarm writer thread, which *)
(* repeats a request until the database accepts it.  Deletion goes through *)
(* the general SQL queue, whose writer does not repeat anything, or, for   *)
(* the alarms of a deleted object, directly to the database.  A crash      *)
(* loses memory and both queues; a restart reloads what the table holds.   *)
(* An UPDATE leaves out two of the columns a restart reads, and the rows of *)
(* a deleted object are found by a column that may be behind the memory.   *)
(* The tables alarm_events, alarm_notes and alarm_state_changes are left   *)
(* out.                                                                    *)
(***************************************************************************)
EXTENDS Integers, Sequences

CONSTANTS
    Alarm,          \* alarm IDs
    Object,         \* the objects alarms are about
    None,           \* no row, no snapshot, no object
    MaxChanges,     \* bound: changes of alarms
    MaxFailures,    \* bound: database statements that fail
    MaxCrashes      \* bound: crashes of the server

ASSUME BoundAssumption == MaxChanges \in Nat /\ MaxFailures \in Nat /\ MaxCrashes \in Nat

\* The fields of an alarm that are written by every request: the number of the last
\* change, whether the state is ALARM_STATE_TERMINATED, and the source object
Data == [version : 0..MaxChanges, terminated : BOOLEAN, source : Object]
\* The fields that only an INSERT writes: ID and code of the last event of the alarm, by
\* the number of the change that the event made
EventId == 0..MaxChanges
WriteRequest == [type : {"insert", "update"}, id : Alarm, data : Data, event : EventId]
\* INVALID_POINTER_VALUE in a queue, the end-of-job indicator
Stop == [type |-> "stop"]

ASSUME NoneAssumption == None \notin Data /\ None \notin Object

VARIABLES
    phase,          \* "running", "closing": the alarm writer is being stopped,
                    \* "flushing": it has stopped, "ending": the SQL writer is being
                    \* stopped, "stopped": orderly end, "crashed"
    list,           \* s_alarmList (after the end of the process: its last contents)
    alarm,          \* fields of the alarms in memory
    event,          \* their m_sourceEventId and m_sourceEventCode
    creator,        \* progress of CreateNewAlarm for every alarm
    snapshot,       \* request prepared by createInDatabase and not yet queued
    deleting,       \* alarms removed by DeleteAlarm whose DELETE is not yet queued
    cleanup,        \* object whose alarms DeleteObjectAlarms has taken from the list, but
                    \* not yet from the table, or None
    writerQueue,    \* s_alarmDbWriterQueue
    sqlQueue,       \* DELETE statements in g_dbWriterQueue, by alarm ID
    row,            \* table alarms, without
    rowEvent,       \* its columns source_event_id and source_event_code
    changes,        \* changes so far
    failures,       \* statements that failed so far
    crashes,        \* crashes so far
    overtaken       \* history: alarms whose writes were overtaken by another write

bounds == <<changes, failures, crashes>>
table == <<row, rowEvent>>
vars == <<phase, list, alarm, event, creator, snapshot, deleting, cleanup, writerQueue, sqlQueue,
          row, rowEvent, changes, failures, crashes, overtaken>>

Up == phase \notin {"stopped", "crashed"}
Creating(a) == creator[a] \in {"added", "copied"}

Init ==
    /\ phase = "running"
    /\ list = {} /\ event = [a \in Alarm |-> 0]
    /\ alarm \in [Alarm -> {d \in Data : d.version = 0 /\ ~d.terminated}]
    /\ creator = [a \in Alarm |-> "none"] /\ snapshot = [a \in Alarm |-> None]
    /\ deleting = {} /\ cleanup = None
    /\ writerQueue = <<>> /\ sqlQueue = <<>>
    /\ row = [a \in Alarm |-> None] /\ rowEvent = [a \in Alarm |-> 0]
    /\ changes = 0 /\ failures = 0 /\ crashes = 0
    /\ overtaken = {}

\* createDbWriteSnapshot
Snapshot(type, a, d, e) == [type |-> type, id |-> a, data |-> d, event |-> e]

\* What is put behind the end-of-job indicator, or when the writer is gone, is never read
Late == phase # "running"

-----------------------------------------------------------------------------
(* Alarms in memory *)

\* CreateNewAlarm, up to the end of its locked section.  A helpdesk issue is opened
\* before the alarm is in the list, and that queues an UPDATE.
CreateNewAlarm(a, openHelpdeskIssue) ==
    /\ phase = "running" /\ creator[a] = "none"
    /\ creator' = [creator EXCEPT ![a] = "added"]
    /\ writerQueue' = IF openHelpdeskIssue
                      THEN Append(writerQueue, Snapshot("update", a, alarm[a], event[a])) ELSE writerQueue
    /\ list' = list \cup {a}
    /\ UNCHANGED <<phase, alarm, event, snapshot, deleting, cleanup, sqlQueue, table, bounds, overtaken>>

\* createInDatabase copies the fields, without the lock.  Another thread may have removed
\* and freed the alarm by now: the copy then holds what the memory still holds, or
\* garbage under another alarm ID.
CreateSnapshot(a) ==
    /\ creator[a] = "added"
    /\ \/ /\ creator' = [creator EXCEPT ![a] = "copied"]
          /\ snapshot' = [snapshot EXCEPT ![a] = Snapshot("insert", a, alarm[a], event[a])]
          /\ UNCHANGED overtaken
       \/ /\ a \notin list
          /\ creator' = [creator EXCEPT ![a] = "done"]
          /\ overtaken' = overtaken \cup {a}
          /\ UNCHANGED snapshot
    /\ UNCHANGED <<phase, list, alarm, event, deleting, cleanup, writerQueue, sqlQueue, table, bounds>>

\* Mutant: the request is taken after it has been cleared
BugCreatePut(a) ==
    /\ creator[a] = "copied"
    /\ snapshot' = [snapshot EXCEPT ![a] = None]
    /\ writerQueue' = Append(writerQueue, snapshot'[a])
    /\ creator' = [creator EXCEPT ![a] = "done"]
    /\ UNCHANGED <<phase, list, alarm, event, deleting, cleanup, sqlQueue, table, bounds, overtaken>>

\* createInDatabase puts the request into the queue
CreatePut(a) ==
    /\ creator[a] = "copied"
    /\ writerQueue' = Append(writerQueue, snapshot[a])
    /\ snapshot' = [snapshot EXCEPT ![a] = None]
    /\ creator' = [creator EXCEPT ![a] = "done"]
    /\ UNCHANGED <<phase, list, alarm, event, deleting, cleanup, sqlQueue, table, bounds, overtaken>>

\* A change of the fields and its updateInDatabase, under the lock
Change(a, d, e) ==
    /\ alarm' = [alarm EXCEPT ![a] = d]
    /\ event' = [event EXCEPT ![a] = e]
    /\ writerQueue' = Append(writerQueue, Snapshot("update", a, d, e))
    /\ overtaken' = IF creator[a] = "copied" \/ Late THEN overtaken \cup {a} ELSE overtaken
    /\ UNCHANGED <<phase, creator, snapshot, deleting, cleanup, sqlQueue, table, failures, crashes>>

\* updateParentAlarm, acknowledge, resolve, the helpdesk functions and the timeouts of the
\* watchdog thread
Update(a) ==
    /\ Up /\ a \in list /\ changes < MaxChanges /\ changes' = changes + 1
    /\ Change(a, [alarm[a] EXCEPT !.version = changes + 1], event[a])
    /\ UNCHANGED list

\* updateFromEvent: another event with the key of the alarm, about any object.  The threads
\* that process events have ended before the alarm writer is told to stop.
UpdateFromEvent(a, o) ==
    /\ phase = "running" /\ a \in list /\ changes < MaxChanges /\ changes' = changes + 1
    /\ Change(a, [alarm[a] EXCEPT !.version = changes + 1, !.source = o], changes + 1)
    /\ UNCHANGED list

\* resolve with terminate = true, and the removal from the list that follows
Terminate(a) ==
    /\ Up /\ a \in list
    /\ Change(a, [alarm[a] EXCEPT !.terminated = TRUE], event[a])
    /\ list' = list \ {a}
    /\ UNCHANGED changes

\* DeleteAlarm, the locked section
DeleteAlarm(a) ==
    /\ Up /\ a \in list
    /\ list' = list \ {a}
    /\ deleting' = deleting \cup {a}
    /\ UNCHANGED <<phase, alarm, event, creator, snapshot, cleanup, writerQueue, sqlQueue, table, bounds, overtaken>>

\* DeleteAlarm, QueueSQLRequest after the lock is released
DeleteAlarmQueue(a) ==
    /\ Up /\ a \in deleting
    /\ deleting' = deleting \ {a}
    /\ sqlQueue' = Append(sqlQueue, [type |-> "delete", id |-> a])
    /\ overtaken' = IF phase = "ending" THEN overtaken \cup {a} ELSE overtaken
    /\ UNCHANGED <<phase, list, alarm, event, creator, snapshot, cleanup, writerQueue, table, bounds>>

\* DeleteObjectAlarms, the locked section: alarms are taken by their source in memory
DeleteObjectAlarms(o) ==
    /\ phase = "running" /\ cleanup = None
    /\ list' = {a \in list : alarm[a].source # o}
    /\ cleanup' = o
    /\ UNCHANGED <<phase, alarm, event, creator, snapshot, deleting, writerQueue, sqlQueue, table, bounds, overtaken>>

-----------------------------------------------------------------------------
(* Database *)

\* Alarms whose INSERT is still to come: a DELETE now does not remove them for good
InsertToCome ==
    {a \in Alarm : Creating(a) \/ \E i \in 1..Len(writerQueue) :
                                     /\ writerQueue[i] # Stop
                                     /\ writerQueue[i].type = "insert" /\ writerQueue[i].id = a}

\* Rows of the object whose alarms are being deleted, by column source_object_id
ObjectRows == {a \in Alarm : row[a] # None /\ row[a].source = cleanup}

\* Alarms that were taken from the list but, when the rows R are gone, will be in the
\* table for good
Forgotten(R) ==
    {a \in Alarm \ list :
        /\ alarm[a].source = cleanup /\ ~alarm[a].terminated
        /\ a \in InsertToCome \/ (row[a] # None /\ a \notin R)}

\* DeleteObjectAlarms, the statements; they are part of the transaction that deletes the
\* object and are rolled back when one of them fails; the deletion is then tried again
\* later.  An alarm in the list loses its row if it was raised since the list was
\* cleared, or if the row is not up to date and names the object still.
DeleteObjectRows ==
    /\ cleanup # None
    /\ cleanup' = None
    /\ \/ /\ row' = [a \in Alarm |-> IF a \in ObjectRows THEN None ELSE row[a]]
          /\ overtaken' = overtaken \cup Forgotten(ObjectRows) \cup (ObjectRows \cap list)
          /\ UNCHANGED failures
       \/ /\ failures < MaxFailures /\ failures' = failures + 1
          /\ overtaken' = overtaken \cup Forgotten({})
          /\ UNCHANGED row
    /\ UNCHANGED <<phase, list, alarm, event, creator, snapshot, deleting, writerQueue, sqlQueue,
                   rowEvent, changes, crashes>>

\* Mutant: an UPDATE that finds no row counts as failed
BugAccepts(rq) == (rq.type = "insert") = (row[rq.id] = None)

\* The database accepts a statement: an INSERT only if the key is new, an UPDATE always
Accepts(rq) == rq.type = "insert" => row[rq.id] = None
\* Mutant: an UPDATE does not set source_object_id either
BugExecute(rq) ==
    /\ row' = IF rq.type = "insert" THEN [row EXCEPT ![rq.id] = rq.data]
              ELSE IF row[rq.id] # None
                   THEN [row EXCEPT ![rq.id] = [rq.data EXCEPT !.source = row[rq.id].source]] ELSE row
    /\ rowEvent' = IF rq.type = "insert" THEN [rowEvent EXCEPT ![rq.id] = rq.event] ELSE rowEvent

\* Effect of a statement that is accepted: an UPDATE of a missing row has none, and an
\* UPDATE does not set source_event_id and source_event_code
Execute(rq) ==
    /\ row' = IF rq.type = "insert" \/ row[rq.id] # None THEN [row EXCEPT ![rq.id] = rq.data] ELSE row
    /\ rowEvent' = IF rq.type = "insert" THEN [rowEvent EXCEPT ![rq.id] = rq.event] ELSE rowEvent

\* Mutant: a failed request goes to the end of the queue
BugWriteFailed == writerQueue' = Append(Tail(writerQueue), Head(writerQueue))

\* A failed request is put back to the head of the queue
WriteFailed == writerQueue' = <<Head(writerQueue)>> \o Tail(writerQueue)

\* Mutant: the writer stops as soon as shutdown is requested
BugAlarmWriterStop ==
    /\ phase = "closing"
    /\ writerQueue' = <<>>
    /\ phase' = "flushing"
    /\ UNCHANGED <<list, alarm, event, creator, snapshot, deleting, cleanup, sqlQueue, table, bounds, overtaken>>

\* AlarmDbWriterThread, the end-of-job indicator
AlarmWriterStop ==
    /\ phase = "closing" /\ writerQueue # <<>> /\ Head(writerQueue) = Stop
    /\ writerQueue' = <<>>
    /\ phase' = "flushing"
    /\ UNCHANGED <<list, alarm, event, creator, snapshot, deleting, cleanup, sqlQueue, table, bounds, overtaken>>

\* AlarmDbWriterThread, one request: executed; failed; or executed although an error is
\* reported, when the connection breaks at the wrong moment
AlarmDbWriterThread ==
    /\ phase \in {"running", "closing"} /\ writerQueue # <<>> /\ Head(writerQueue) # Stop
    /\ LET rq == Head(writerQueue)
       IN \/ /\ Accepts(rq) /\ Execute(rq)
             /\ writerQueue' = Tail(writerQueue)
             /\ UNCHANGED failures
          \/ /\ ~Accepts(rq)
             /\ WriteFailed
             /\ UNCHANGED <<table, failures>>
          \/ /\ failures < MaxFailures /\ failures' = failures + 1
             /\ WriteFailed
             /\ \/ UNCHANGED table
                \/ Accepts(rq) /\ Execute(rq)
    /\ UNCHANGED <<phase, list, alarm, event, creator, snapshot, deleting, cleanup, sqlQueue, changes, crashes, overtaken>>

\* DBWriteThread, one DELETE; a failed statement is not repeated
DBWriteThread ==
    /\ phase \in {"running", "closing", "flushing", "ending"}
    /\ sqlQueue # <<>> /\ Head(sqlQueue) # Stop
    /\ sqlQueue' = Tail(sqlQueue)
    /\ LET a == Head(sqlQueue).id
       IN \/ /\ row' = [row EXCEPT ![a] = None]
             /\ overtaken' = IF a \in InsertToCome THEN overtaken \cup {a} ELSE overtaken
             /\ UNCHANGED failures
          \/ /\ failures < MaxFailures /\ failures' = failures + 1
             /\ overtaken' = overtaken \cup {a}
             /\ UNCHANGED row
    /\ UNCHANGED <<phase, list, alarm, event, creator, snapshot, deleting, cleanup, writerQueue, rowEvent,
                   changes, crashes>>

-----------------------------------------------------------------------------
(* Shutdown, crash and restart *)

\* Shutdown has waited for the threads that process events and for the one that deletes
\* objects; client sessions and thread pools go on.  ShutdownAlarmManager puts the
\* indicator; it then waits for the writer.
ShutdownAlarmManager ==
    /\ phase = "running" /\ cleanup = None /\ \A a \in Alarm : ~Creating(a)
    /\ writerQueue' = Append(writerQueue, Stop)
    /\ phase' = "closing"
    /\ UNCHANGED <<list, alarm, event, creator, snapshot, deleting, cleanup, sqlQueue, table, bounds, overtaken>>

\* StopDBWriter puts the indicator; it then waits for the writer
StopDBWriter ==
    /\ phase = "flushing"
    /\ sqlQueue' = Append(sqlQueue, Stop)
    /\ phase' = "ending"
    /\ UNCHANGED <<list, alarm, event, creator, snapshot, deleting, cleanup, writerQueue, table, bounds, overtaken>>

\* End of the process, by an orderly shutdown or by a crash: the queues are gone and no
\* thread goes on
End ==
    /\ writerQueue' = <<>> /\ sqlQueue' = <<>>
    /\ creator' = [a \in Alarm |-> IF Creating(a) THEN "done" ELSE creator[a]]
    /\ snapshot' = [a \in Alarm |-> None]
    /\ deleting' = {} /\ cleanup' = None
    /\ UNCHANGED <<list, alarm, event, table, changes, failures>>

\* DBWriteThread, the end-of-job indicator, and the rest of Shutdown
Exit ==
    /\ phase = "ending" /\ sqlQueue # <<>> /\ Head(sqlQueue) = Stop
    /\ phase' = "stopped"
    /\ End
    /\ overtaken' = overtaken \cup deleting
    /\ UNCHANGED crashes

Crash ==
    /\ Up /\ crashes < MaxCrashes /\ crashes' = crashes + 1
    /\ phase' = "crashed"
    /\ End
    /\ UNCHANGED overtaken

\* Rows that the SELECT of InitAlarmManager returns
Loaded == {a \in Alarm : row[a] # None /\ ~row[a].terminated}

InitAlarmManager ==
    /\ ~Up
    /\ list' = Loaded
    /\ alarm' = [a \in Alarm |-> IF a \in Loaded THEN row[a] ELSE alarm[a]]
    /\ event' = [a \in Alarm |-> IF a \in Loaded THEN rowEvent[a] ELSE event[a]]
    /\ phase' = "running"
    /\ overtaken' = {}
    /\ UNCHANGED <<creator, snapshot, deleting, cleanup, writerQueue, sqlQueue, table, bounds>>

Next ==
    \/ \E a \in Alarm :
          \/ \E hd \in BOOLEAN : CreateNewAlarm(a, hd)
          \/ CreateSnapshot(a) \/ CreatePut(a)
          \/ Update(a) \/ (\E o \in Object : UpdateFromEvent(a, o))
          \/ Terminate(a) \/ DeleteAlarm(a) \/ DeleteAlarmQueue(a)
    \/ (\E o \in Object : DeleteObjectAlarms(o)) \/ DeleteObjectRows
    \/ AlarmDbWriterThread \/ AlarmWriterStop \/ DBWriteThread
    \/ ShutdownAlarmManager \/ StopDBWriter \/ Exit \/ Crash \/ InitAlarmManager

Spec == Init /\ [][Next]_vars

\* The writer threads go on as long as their queues hold something, and the thread that
\* runs Shutdown goes on when the writer it joins has ended.
FairSpec ==
    /\ Spec
    /\ WF_vars(AlarmDbWriterThread) /\ WF_vars(AlarmWriterStop) /\ WF_vars(DBWriteThread)
    /\ WF_vars(StopDBWriter) /\ WF_vars(Exit)

-----------------------------------------------------------------------------
(* Properties *)

\* Every variable has its type; the queues hold only complete requests for known alarms and
\* the end-of-job indicator.
TypeOK ==
    /\ phase \in {"running", "closing", "flushing", "ending", "stopped", "crashed"}
    /\ list \subseteq Alarm /\ deleting \subseteq Alarm /\ overtaken \subseteq Alarm
    /\ alarm \in [Alarm -> Data] /\ row \in [Alarm -> Data \cup {None}]
    /\ event \in [Alarm -> EventId] /\ rowEvent \in [Alarm -> EventId]
    /\ creator \in [Alarm -> {"none", "added", "copied", "done"}]
    /\ snapshot \in [Alarm -> WriteRequest \cup {None}]
    /\ writerQueue \in Seq(WriteRequest \cup {Stop})
    /\ sqlQueue \in Seq([type : {"delete"}, id : Alarm] \cup {Stop})
    /\ cleanup \in Object \cup {None}
    /\ changes \in 0..MaxChanges /\ failures \in 0..MaxFailures /\ crashes \in 0..MaxCrashes

\* Positions of the requests for an alarm that the writer will still execute
Requests(a) ==
    {i \in 1..Len(writerQueue) :
        /\ \A j \in 1..i : writerQueue[j] # Stop
        /\ writerQueue[i].id = a}
\* What the row of an alarm will be when the writer has worked off its queue
Final(a) ==
    LET last == CHOOSE i \in Requests(a) : \A j \in Requests(a) : j <= i
    IN IF row[a] = None /\ \A i \in Requests(a) : writerQueue[i].type = "update" THEN None
       ELSE IF Requests(a) = {} THEN row[a] ELSE writerQueue[last].data

\* Nothing is under way for the alarm outside the queue of the alarm writer
Settled(a) ==
    /\ a \notin overtaken /\ ~Creating(a) /\ a \notin deleting
    /\ \A i \in 1..Len(sqlQueue) : sqlQueue[i] # Stop => sqlQueue[i].id # a

\* At every moment the table together with the requests still queued describes the alarms
\* in memory: an alarm in the list ends up in the database with its present fields, the
\* ID and the code of its last event aside, and an alarm that has left the list ends up
\* terminated or without a row.  The alarms whose writes overtook each other are exempt,
\* and there are no others: an alarm changed between the copy of its INSERT and the
\* queueing of it, or freed before the copy; one changed after the alarm writer, or
\* deleted after the SQL writer, was told to stop; one whose DELETE, or that of its
\* object, fails or comes before its INSERT; one whose row names another object than the
\* memory when one of the two objects is deleted, or that is raised for an object while
\* it is deleted.
QueueCompletesTable ==
    Up => \A a \in Alarm : Settled(a) =>
             IF a \in list THEN Final(a) = alarm[a]
             ELSE Final(a) = None \/ Final(a).terminated \/ alarm[a].source = cleanup

\* The row of an alarm never goes back to older contents, not even when requests are
\* repeated after errors or around a restart, and a terminated alarm stays terminated.
RowNeverGoesBack ==
    [][\A a \in Alarm : row[a] # None /\ row'[a] # None =>
          row'[a].version >= row[a].version /\ (row[a].terminated => row'[a].terminated)]_vars

\* After an orderly shutdown the alarms that are loaded are the alarms that were in memory,
\* with the same fields, the ID and the code of the last event aside: both queues are
\* written out, and in the right order, before the process ends.  Exempt are the alarms
\* that QueueCompletesTable exempts.
OrderlyRestart ==
    [][phase = "stopped" /\ phase' = "running" =>
          \A a \in Alarm \ overtaken :
             (a \in list' <=> a \in list) /\ (a \in list => alarm'[a] = alarm[a])]_vars

\* The request the writer repeats for ever: an INSERT that had been executed when the
\* database reported an error
Stuck ==
    /\ writerQueue # <<>> /\ Head(writerQueue) # Stop
    /\ Head(writerQueue).type = "insert" /\ row[Head(writerQueue).id] # None

\* If the database recovers from its failures, a shutdown that has begun comes to its
\* end, although the server waits for a writer that repeats failed requests; only a
\* request that can never succeed keeps it from it.
ShutdownEnds == phase = "closing" ~> (phase \in {"stopped", "crashed"} \/ Stuck)

=============================================================================
