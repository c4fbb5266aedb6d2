---------------------------- MODULE AlarmManager ----------------------------
(***************************************************************************)
(* The in-memory half of the NetXMS alarm manager                          *)
(* (src/server/core/alarm.cpp): the list of active alarms with its key     *)
(* index, the per-object severity tables from which object status is       *)
(* derived, parent and subordinate alarms, the background root cause       *)
(* analyser and the watchdog.  Event processors, client sessions, the      *)
(* helpdesk link and pool workers call it concurrently.                    *)
(*                                                                         *)
(* s_alarmList.lock() protects the list, but several operations finish     *)
(* after they have unlocked it.  Each such tail is a step of its own here: *)
(* op[t] says what thread t has still to do, and lock who holds the list   *)
(* lock between two steps.                                                 *)
(***************************************************************************)
EXTENDS Integers, Sequences

CONSTANTS
    Thread,             \* event processors, sessions, helpdesk and pool threads
    Object,             \* monitored objects
    Key,                \* non-empty alarm keys
    NoKey,              \* the empty alarm key
    Severity,           \* alarm severities in use, 0 (normal) .. 4 (critical)
    MaxAlarms,          \* bound: alarm identifiers issued
    NoThread,           \* nobody holds the list lock
    HelpdeskResults,    \* outcomes of opening a helpdesk issue
    RcaScripts,         \* may a rule name a root cause analysis script
    Timeouts,           \* may alarms and acknowledgements carry a timeout
    Parents,            \* alarms that may be named as parent: none, earlier ones, any
    Cascades,           \* may a request include subordinate alarms
    Deletable,          \* objects that may be deleted
    Managed,            \* objects whose status is calculated (not STATUS_UNMANAGED)
    Polled,             \* the managed objects that have a status poll, and have it available
    ModuleStatus,       \* what a loaded module may say of an object's status; {}: no module
    IgnoreHelpdeskState,\* configuration Alarms.IgnoreHelpdeskState
    ResolveExpiration   \* configuration Alarms.ResolveExpirationTime > 0

ASSUME SeverityAssumption == Severity \subseteq 0..4
ASSUME KeyAssumption == NoKey \notin Key
ASSUME ThreadAssumption == NoThread \notin Thread
ASSUME BoundAssumption == MaxAlarms \in Nat
ASSUME InputAssumption ==
    /\ HelpdeskResults \subseteq {"ignored", "open"}
    /\ RcaScripts \subseteq BOOLEAN
    /\ Timeouts \subseteq BOOLEAN
    /\ Parents \in {"none", "earlier", "any"}
    /\ Cascades \subseteq BOOLEAN
    /\ Deletable \subseteq Object
    /\ Managed \subseteq Object
    /\ Polled \subseteq Managed
    /\ ModuleStatus \subseteq 0..4
    /\ IgnoreHelpdeskState \in BOOLEAN
    /\ ResolveExpiration \in BOOLEAN

VARIABLES
    alarms,         \* m_primaryIndex: alarm id -> Alarm, for the alarms in the list
    keyIndex,       \* m_keyIndex: key -> alarm id, 0 if absent
    nextId,         \* next alarm id to be issued
    sev,            \* s_alarmSeverityByObject: a severity table for every object
    status,         \* m_status of objects without children, -1 for STATUS_UNKNOWN
    poll,           \* what the status poll of every object has calculated so far
    deleted,        \* objects already deleted
    lock,           \* holder of the alarm list lock
    op,             \* what each thread has still to do
    jobs,           \* queued background job of every alarm, for its subordinates
    rcaNeeded,      \* s_rootCauseUpdateNeeded
    rcaPossible,    \* s_rootCauseUpdatePossible
    rcaDue          \* history: alarms reported since they were last evaluated

listVars == <<alarms, keyIndex, nextId>>
rcaVars  == <<rcaNeeded, rcaPossible, rcaDue>>
vars == <<alarms, keyIndex, nextId, sev, status, poll, deleted, lock, op, jobs,
          rcaNeeded, rcaPossible, rcaDue>>

-----------------------------------------------------------------------------
AlarmId == 1..MaxAlarms
Level == -1..4                      \* a severity or status, or -1 for STATUS_UNKNOWN
\* A status poll that calculates nothing, has read the alarms, has asked the modules
Poll == [pc : {"idle", "modules", "commit"}, v : Level]
PollIdle == [pc |-> "idle", v |-> -1]

\* m_state, the sticky bit folded in; terminated alarms leave the list at once
AlarmState == {"outstanding", "acknowledged", "sticky", "resolved"}
HelpdeskState == {"ignored", "open", "closed"}

Alarm == [key : Key \cup {NoKey}, src : Object, state : AlarmState,
          severity : Severity, hd : HelpdeskState, parent : AlarmId \cup {0},
          rca : BOOLEAN, timeout : BOOLEAN, ackTimeout : BOOLEAN,
          subs : SUBSET AlarmId]

\* ObjectAlarmSeverity: m_severities (-1 for an alarm that is not there) and m_mostCritical
SeverityTable == [of : [AlarmId -> Level], mostCritical : Level]
EmptyTable == [of |-> [a \in AlarmId |-> -1], mostCritical |-> -1]

\* AlarmBackgroundProcessingData: the subordinates of one alarm and what to do
\* with them; flag is "sticky" for an acknowledgement, "terminate" otherwise
Job == [what : {"none", "ack", "resolve"}, ids : SUBSET AlarmId,
        flag : BOOLEAN, ackTimeout : BOOLEAN]
NoJob == [what |-> "none", ids |-> {}, flag |-> FALSE, ackTimeout |-> FALSE]

Free == [pc |-> "idle"]
\* What CreateNewAlarm knows when it looks at the root cause flags at its end
After == {"none", "found", "unfound"}
Op == {Free}
      \cup [pc : {"add"}, a : AlarmId, alarm : Alarm]
      \cup [pc : {"link"}, a : AlarmId, o : Object, p : AlarmId \cup {0}, after : After]
      \cup [pc : {"drop"}, a : AlarmId, o : Object]
      \cup [pc : {"job"}, job : Job, objs : SUBSET Object]
      \cup [pc : {"recalc"}, objs : SUBSET Object, after : After]
      \cup [pc : {"commit"}, o : Object, v : Level, asked : BOOLEAN, objs : SUBSET Object,
             after : After]
      \cup {[pc |-> "rcastart"]}
      \cup [pc : {"rca"}, ids : SUBSET AlarmId]

Ids == DOMAIN alarms                \* the alarms in the list
\* Identifiers a script can have obtained from the alarm list
KnownIds == {a \in 1..(nextId - 1) : \A t \in Thread : ~(op[t].pc = "add" /\ op[t].a = a)}
\* The parents that the root cause script of alarm a may come up with
ParentChoice(a) == {0} \cup {p \in KnownIds : Parents = "any" \/ (Parents = "earlier" /\ p < a)}

-----------------------------------------------------------------------------
(* class ObjectAlarmSeverity: operations on the table T of one object *)

updateMostCritical(of) ==
    CHOOSE s \in Level : /\ \A a \in AlarmId : of[a] <= s
                         /\ s = -1 \/ \E a \in AlarmId : of[a] = s

updateAlarm(T, a, s) ==
    LET of == [T.of EXCEPT ![a] = s] IN
    [of |-> of,
     mostCritical |-> IF T.of[a] > s THEN updateMostCritical(of)
                      ELSE IF T.of[a] # s /\ s > T.mostCritical THEN s
                      ELSE T.mostCritical]

\* Mutant: the maximum is recomputed only if the alarm was above it
BugRemoveAlarm(T, a) ==
    LET of == [T.of EXCEPT ![a] = -1] IN
    [of |-> of,
     mostCritical |-> IF T.of[a] # -1 /\ T.of[a] > T.mostCritical
                      THEN updateMostCritical(of) ELSE T.mostCritical]

removeAlarm(T, a) ==
    LET of == [T.of EXCEPT ![a] = -1] IN
    [of |-> of,
     mostCritical |-> IF T.of[a] # -1 /\ T.of[a] >= T.mostCritical
                      THEN updateMostCritical(of) ELSE T.mostCritical]

-----------------------------------------------------------------------------
(* class AlarmList and the Alarm methods that change one alarm *)

\* Mutant: the key stays in the key index
BugRemove(S) ==
    /\ alarms' = [x \in Ids \ S |->
                    [alarms[x] EXCEPT !.subs = @ \ {a \in S : alarms[a].parent = x}]]
    /\ UNCHANGED keyIndex

\* AlarmList::remove for every alarm of S: the parents forget them, and their keys
\* are taken out of the key index, whichever alarm the index has there
remove(S) ==
    /\ alarms' = [x \in Ids \ S |->
                    [alarms[x] EXCEPT !.subs = @ \ {a \in S : alarms[a].parent = x}]]
    /\ keyIndex' = [k \in Key |-> IF \E a \in S : alarms[a].key = k THEN 0 ELSE keyIndex[k]]

\* The constructor, and openHelpdeskIssue with outcome hd; the acknowledgement timeout of
\* the rule is not used here
NewAlarm(k, o, s, p, rca, timeout, hd) ==
    [key |-> k, src |-> o, state |-> "outstanding", severity |-> s, hd |-> hd, parent |-> p,
     rca |-> rca, timeout |-> timeout, ackTimeout |-> FALSE, subs |-> {}]

\* Alarm::updateFromEvent but for the parent, and openHelpdeskIssue with outcome hd; an
\* alarm with a sticky acknowledgement stays acknowledged
updateFromEvent(r, o, s, rca, timeout, ackTimeout, hd) ==
    LET st == IF r.state = "sticky" THEN r.state ELSE "outstanding" IN
    [r EXCEPT !.src = o, !.severity = s, !.rca = rca, !.timeout = timeout, !.state = st,
              !.ackTimeout = IF st = "sticky" THEN @ ELSE ackTimeout,
              !.hd = IF @ = "ignored" THEN hd ELSE @]

\* Alarm::resolve, as far as it concerns the alarm itself
Resolved(r) == [r EXCEPT !.state = "resolved", !.ackTimeout = FALSE,
                         !.hd = IF @ = "ignored" THEN @ ELSE "closed"]

\* Mutant: the new parent is not told
BugReparent(a, r, p) ==
    [x \in Ids |->
        LET y == IF x = a THEN [r EXCEPT !.parent = p] ELSE alarms[x] IN
        IF x = alarms[a].parent /\ x # p THEN [y EXCEPT !.subs = @ \ {a}] ELSE y]

\* Move alarm a, already changed to r, from its parent's subordinates to those of p
Reparent(a, r, p) ==
    [x \in Ids |->
        LET y == IF x = a THEN [r EXCEPT !.parent = p] ELSE alarms[x] IN
        IF alarms[a].parent = p THEN y
        ELSE IF x = p THEN [y EXCEPT !.subs = @ \cup {a}]
        ELSE IF x = alarms[a].parent THEN [y EXCEPT !.subs = @ \ {a}]
        ELSE y]

\* ThreadPoolExecute of a cascade over the subordinates of alarm a
Spawn(a, cascade, what, flag, ackTimeout) ==
    IF cascade /\ alarms[a].subs # {}
    THEN /\ jobs[a] = NoJob
         /\ jobs' = [jobs EXCEPT ![a] = [what |-> what, ids |-> alarms[a].subs,
                                         flag |-> flag, ackTimeout |-> ackTimeout]]
    ELSE UNCHANGED jobs

\* Bound on the cascades that begin: none while a background job is queued
NoJobQueued == \A a \in AlarmId : jobs[a] = NoJob

\* The alarm may be resolved (or terminated) by a rule or on data collection changes
Resolvable(a, terminate) ==
    /\ alarms[a].hd # "open" \/ IgnoreHelpdeskState
    /\ terminate \/ alarms[a].state # "resolved"

-----------------------------------------------------------------------------
Init ==
    /\ alarms = [a \in {} |-> NoJob]
    /\ keyIndex = [k \in Key |-> 0]
    /\ nextId = 1
    /\ sev = [o \in Object |-> EmptyTable]
    /\ status = [o \in Object |-> -1]
    /\ poll = [o \in Object |-> PollIdle]
    /\ deleted = {}
    /\ lock = NoThread
    /\ op = [t \in Thread |-> Free]
    /\ jobs = [a \in AlarmId |-> NoJob]
    /\ rcaNeeded = FALSE /\ rcaPossible = FALSE /\ rcaDue = {}

\* Whoever recalculated inside the critical section unlocks the list at the end, and
\* CreateNewAlarm then looks at the root cause flags
Finish(t, after) ==
    /\ op' = [op EXCEPT ![t] = Free]
    /\ lock' = IF lock = t THEN NoThread ELSE lock
    /\ rcaPossible' = (rcaPossible \/ (after # "none" /\ rcaNeeded))
    /\ rcaNeeded' = (rcaNeeded \/ after = "unfound")

\* RecalculateObjectStatus for every object of objs; holder has the list lock meanwhile
Recalculate(t, objs, after, holder) ==
    IF (objs \cap Managed) \ deleted = {} THEN Finish(t, after)
    ELSE /\ op' = [op EXCEPT ![t] = [pc |-> "recalc", objs |-> (objs \cap Managed) \ deleted,
                                     after |-> after]]
         /\ lock' = holder
         /\ UNCHANGED <<rcaNeeded, rcaPossible>>

AfterCreate(p, rca) == IF p = 0 /\ rca THEN "unfound" ELSE "found"

-----------------------------------------------------------------------------
(* CreateNewAlarm *)

\* Mutant: the alarm identifier is not consumed
BugCreateCheck(t, k, o, s, p, rca, timeout, hd) ==
    /\ op[t] = Free
    /\ k # NoKey => lock = NoThread /\ keyIndex[k] = 0
    /\ nextId <= MaxAlarms
    /\ op' = [op EXCEPT ![t] = [pc |-> "add", a |-> nextId,
                 alarm |-> NewAlarm(k, o, s, p, rca, timeout, hd)]]
    /\ UNCHANGED <<listVars, sev, status, poll, deleted, lock, jobs, rcaVars>>

\* First critical section, no alarm with that key: the list is unlocked again
\* and the new alarm constructed, its helpdesk issue opened
CreateCheck(t, k, o, s, p, rca, timeout, hd) ==
    /\ op[t] = Free
    /\ k # NoKey => lock = NoThread /\ keyIndex[k] = 0
    /\ nextId <= MaxAlarms
    /\ nextId' = nextId + 1
    /\ op' = [op EXCEPT ![t] = [pc |-> "add", a |-> nextId,
                 alarm |-> NewAlarm(k, o, s, p, rca, timeout, hd)]]
    /\ UNCHANGED <<alarms, keyIndex, sev, status, poll, deleted, lock, jobs, rcaVars>>

\* First critical section, the key is known: Alarm::updateFromEvent on the alarm
\* found; object status is recalculated before the list is unlocked
CreateUpdate(t, k, o, s, p, rca, timeout, ackTimeout, hd) ==
    /\ op[t] = Free /\ lock = NoThread
    /\ k # NoKey /\ keyIndex[k] # 0
    /\ LET a == keyIndex[k]
           r == alarms[a]
           new == updateFromEvent(r, o, s, rca, timeout, ackTimeout, hd)
       IN /\ alarms' = Reparent(a, new, p)
          /\ sev' = [x \in Object |->
                       IF x = o THEN updateAlarm(sev[x], a, s)
                       ELSE IF x = r.src THEN removeAlarm(sev[x], a)
                       ELSE sev[x]]
          /\ Recalculate(t, {r.src, o}, AfterCreate(p, rca), t)
          /\ rcaDue' = IF p = 0 /\ rca THEN rcaDue \cup {a} ELSE rcaDue
    /\ UNCHANGED <<keyIndex, nextId, status, poll, deleted, jobs>>

\* Second critical section: AlarmList::add and UpdateObjectOnAlarmUpdate
CreateAdd(t) ==
    /\ op[t].pc = "add" /\ lock = NoThread
    /\ LET a == op[t].a
           r == op[t].alarm
       IN /\ alarms' = [x \in Ids \cup {a} |-> IF x = a THEN r ELSE alarms[x]]
          /\ keyIndex' = [k \in Key |-> IF k = r.key THEN a ELSE keyIndex[k]]
          /\ sev' = [sev EXCEPT ![r.src] = updateAlarm(@, a, r.severity)]
          /\ op' = [op EXCEPT ![t] = [pc |-> "link", a |-> a, o |-> r.src, p |-> r.parent,
                                      after |-> AfterCreate(r.parent, r.rca)]]
          /\ rcaDue' = IF r.parent = 0 /\ r.rca THEN rcaDue \cup {a} ELSE rcaDue
    /\ UNCHANGED <<nextId, status, poll, deleted, lock, jobs, rcaNeeded, rcaPossible>>

\* After the list is unlocked: the parent learns of its new subordinate
CreateLink(t) ==
    /\ op[t].pc = "link"
    /\ alarms' = [x \in Ids |-> IF x = op[t].p
                                THEN [alarms[x] EXCEPT !.subs = @ \cup {op[t].a}]
                                ELSE alarms[x]]
    /\ Recalculate(t, {op[t].o}, op[t].after, lock)
    /\ UNCHANGED <<keyIndex, nextId, sev, status, poll, deleted, jobs, rcaDue>>

-----------------------------------------------------------------------------
(* RecalculateObjectStatus: NetObj::calculateCompoundStatus reads the most    *)
(* critical alarm with no lock held, then asks the modules, and stores the    *)
(* status later.  The objects have no children and no additional status.      *)

\* The answer ms of a module (-1 for none), for status v calculated so far and the old status; the
\* number of STATUS_UNKNOWN is above all severities
ApplyModule(v, old, ms) ==
    CASE v = 4 \/ ms = -1 -> v
      [] v = -1 /\ ms # -1 -> ms
      [] OTHER -> IF old = -1 \/ old > ms THEN old ELSE ms

RecalcRead(t, o) ==
    /\ op[t].pc = "recalc" /\ o \in op[t].objs
    /\ op' = [op EXCEPT ![t] = [pc |-> "commit", o |-> o, v |-> sev[o].mostCritical,
                                asked |-> FALSE, objs |-> op[t].objs \ {o},
                                after |-> op[t].after]]
    /\ UNCHANGED <<listVars, sev, status, poll, deleted, lock, jobs, rcaVars>>

\* The old status is read without its lock
RecalcModules(t, ms) ==
    /\ op[t].pc = "commit" /\ ~op[t].asked
    /\ op' = [op EXCEPT ![t] = [@ EXCEPT !.v = ApplyModule(op[t].v, status[op[t].o], ms),
                                         !.asked = TRUE]]
    /\ UNCHANGED <<listVars, sev, status, poll, deleted, lock, jobs, rcaVars>>

RecalcCommit(t) ==
    /\ op[t].pc = "commit" /\ op[t].asked
    /\ status' = [status EXCEPT ![op[t].o] = op[t].v]
    /\ Recalculate(t, op[t].objs, op[t].after, lock)
    /\ UNCHANGED <<listVars, sev, poll, deleted, jobs, rcaDue>>

\* QueueForPolling gives an object a status poll, one at a time, and the poll
\* recalculates too
PollRead(o) ==
    /\ o \in Polled \ deleted /\ poll[o] = PollIdle
    /\ poll' = [poll EXCEPT ![o] = [pc |-> "modules", v |-> sev[o].mostCritical]]
    /\ UNCHANGED <<listVars, sev, status, deleted, lock, op, jobs, rcaVars>>

PollModules(o, ms) ==
    /\ poll[o].pc = "modules"
    /\ poll' = [poll EXCEPT ![o] = [pc |-> "commit", v |-> ApplyModule(poll[o].v, status[o], ms)]]
    /\ UNCHANGED <<listVars, sev, status, deleted, lock, op, jobs, rcaVars>>

\* Mutant: the new status is stored only if it is worse than the old one
BugPollCommit(o) ==
    /\ poll[o].pc = "commit"
    /\ status' = [status EXCEPT ![o] = IF poll[o].v > @ THEN poll[o].v ELSE @]
    /\ poll' = [poll EXCEPT ![o] = PollIdle]
    /\ UNCHANGED <<listVars, sev, deleted, lock, op, jobs, rcaVars>>

PollCommit(o) ==
    /\ poll[o].pc = "commit"
    /\ status' = [status EXCEPT ![o] = poll[o].v]
    /\ poll' = [poll EXCEPT ![o] = PollIdle]
    /\ UNCHANGED <<listVars, sev, deleted, lock, op, jobs, rcaVars>>

-----------------------------------------------------------------------------
(* Acknowledgement and resolution inside one critical section.  A call that    *)
(* names several alarms is modelled as one section per alarm: the outcome for  *)
(* each alarm depends on that alarm only, and the model merely lets other      *)
(* threads in between.                                                         *)

acknowledge(a, sticky, ackTimeout, cascade) ==
    /\ alarms[a].state = "outstanding"
    /\ alarms' = [alarms EXCEPT ![a].state = IF sticky THEN "sticky" ELSE "acknowledged",
                                ![a].ackTimeout = ackTimeout]
    /\ Spawn(a, cascade, "ack", sticky, ackTimeout)

\* AckAlarmById and, without the cascade, AckAlarmByHDRef
AckAlarmById(a, sticky, ackTimeout, cascade) ==
    /\ lock = NoThread /\ a \in Ids /\ (cascade => NoJobQueued)
    /\ acknowledge(a, sticky, ackTimeout, cascade)
    /\ UNCHANGED <<keyIndex, nextId, sev, status, poll, deleted, lock, op, rcaVars>>

\* Alarm::resolve, UpdateObjectOnAlarmResolve and, to terminate, AlarmList::remove
resolve(a, terminate, cascade) ==
    /\ Spawn(a, cascade, "resolve", terminate, FALSE)
    /\ IF terminate THEN remove({a})
       ELSE alarms' = [alarms EXCEPT ![a] = Resolved(@)] /\ UNCHANGED keyIndex
    /\ sev' = [sev EXCEPT ![alarms[a].src] = removeAlarm(@, a)]

\* An alarm open in the helpdesk is looked up there: it may be closed by now
HelpdeskAnswers(a) == IF alarms[a].hd = "open" THEN {"open", "closed"} ELSE {alarms[a].hd}
ResolveAllowed(a, terminate, hd) ==
    /\ hd # "open" \/ IgnoreHelpdeskState
    /\ terminate \/ alarms[a].state # "resolved"

ResolveAlarmById(t, a, terminate, cascade) ==
    /\ op[t] = Free /\ lock = NoThread /\ a \in Ids /\ (cascade => NoJobQueued)
    /\ \E hd \in HelpdeskAnswers(a) : ResolveAllowed(a, terminate, hd)
    /\ resolve(a, terminate, cascade)
    /\ Recalculate(t, {alarms[a].src}, "none", lock)
    /\ UNCHANGED <<nextId, status, poll, deleted, rcaDue>>

\* The request is refused (no such alarm, access denied, still open in the helpdesk,
\* already resolved), but the helpdesk may have reported that the issue is closed
ResolveRefused(a) ==
    /\ lock = NoThread
    /\ IF a \notin Ids THEN UNCHANGED alarms
       ELSE \E hd \in HelpdeskAnswers(a) : alarms' = [alarms EXCEPT ![a].hd = hd]
    /\ UNCHANGED <<keyIndex, nextId, sev, status, poll, deleted, lock, op, jobs, rcaVars>>

\* ResolveAlarmByKeyRegexp: a pattern selects alarms that the key index knows;
\* ResolveAlarmByDCObjectId: the alarms of the object may be any in the list
ResolveAlarmByKeyRegexp(t, k, terminate) ==
    /\ op[t] = Free /\ lock = NoThread
    /\ keyIndex[k] # 0 /\ Resolvable(keyIndex[k], terminate)
    /\ resolve(keyIndex[k], terminate, FALSE)
    /\ Recalculate(t, {alarms[keyIndex[k]].src}, "none", lock)
    /\ UNCHANGED <<nextId, status, poll, deleted, rcaDue>>

ResolveAlarmByDCObjectId(t, a, terminate) ==
    /\ op[t] = Free /\ lock = NoThread
    /\ a \in Ids /\ Resolvable(a, terminate)
    /\ resolve(a, terminate, FALSE)
    /\ Recalculate(t, {alarms[a].src}, "none", lock)
    /\ UNCHANGED <<nextId, status, poll, deleted, rcaDue>>

\* AckAlarmsInBackground and ResolveAlarmsInBackground on the subordinates of alarm b
JobStart(t, b) ==
    /\ op[t] = Free /\ jobs[b] # NoJob
    /\ op' = [op EXCEPT ![t] = [pc |-> "job", job |-> jobs[b], objs |-> {}]]
    /\ jobs' = [jobs EXCEPT ![b] = NoJob]
    /\ UNCHANGED <<listVars, sev, status, poll, deleted, lock, rcaVars>>

JobAck(t, a) ==
    /\ op[t].pc = "job" /\ lock = NoThread /\ a \in op[t].job.ids /\ op[t].job.what = "ack"
    /\ IF a \in Ids /\ alarms[a].state = "outstanding"
       THEN acknowledge(a, op[t].job.flag, op[t].job.ackTimeout, TRUE)
       ELSE UNCHANGED <<alarms, jobs>>
    /\ op' = [op EXCEPT ![t].job.ids = @ \ {a}]
    /\ UNCHANGED <<keyIndex, nextId, sev, status, poll, deleted, lock, rcaVars>>

JobResolve(t, a) ==
    /\ op[t].pc = "job" /\ lock = NoThread /\ a \in op[t].job.ids /\ op[t].job.what = "resolve"
    /\ \/ /\ a \in Ids
          /\ \E hd \in HelpdeskAnswers(a) : ResolveAllowed(a, op[t].job.flag, hd)
          /\ resolve(a, op[t].job.flag, TRUE)
          /\ op' = [op EXCEPT ![t].job.ids = @ \ {a}, ![t].objs = @ \cup {alarms[a].src}]
       \/ /\ a \in Ids
          /\ \E hd \in HelpdeskAnswers(a) : /\ ~ResolveAllowed(a, op[t].job.flag, hd)
                                            /\ alarms' = [alarms EXCEPT ![a].hd = hd]
          /\ op' = [op EXCEPT ![t].job.ids = @ \ {a}]
          /\ UNCHANGED <<keyIndex, sev, jobs>>
       \/ /\ a \notin Ids
          /\ op' = [op EXCEPT ![t].job.ids = @ \ {a}]
          /\ UNCHANGED <<alarms, keyIndex, sev, jobs>>
    /\ UNCHANGED <<nextId, status, poll, deleted, lock, rcaVars>>

JobEnd(t) ==
    /\ op[t].pc = "job" /\ op[t].job.ids = {}
    /\ Recalculate(t, op[t].objs, "none", lock)
    /\ UNCHANGED <<listVars, sev, status, poll, deleted, jobs, rcaDue>>

\* Last stage of object deletion; it leaves the severity table alone
DeleteObjectAlarms(o) ==
    /\ o \in Deletable \ deleted /\ lock = NoThread
    /\ deleted' = deleted \cup {o}
    /\ remove({a \in Ids : alarms[a].src = o})
    /\ UNCHANGED <<nextId, sev, status, poll, lock, op, jobs, rcaVars>>

-----------------------------------------------------------------------------
(* Operations that unlock the list before they drop the alarm's severity *)

\* The critical section: resolve the alarm or take it off the list
ResolveFirst(t, a, terminate) ==
    /\ op[t] = Free /\ lock = NoThread
    /\ IF terminate THEN remove({a})
       ELSE alarms' = [alarms EXCEPT ![a] = Resolved(@)] /\ UNCHANGED keyIndex
    /\ op' = [op EXCEPT ![t] = [pc |-> "drop", a |-> a, o |-> alarms[a].src]]
    /\ UNCHANGED <<nextId, sev, status, poll, deleted, lock, jobs, rcaVars>>

ResolveAlarmByKeyExact(t, k, terminate) ==
    /\ keyIndex[k] # 0 /\ Resolvable(keyIndex[k], terminate)
    /\ ResolveFirst(t, keyIndex[k], terminate)

\* The reference is set exactly while the alarm is known to the helpdesk
ResolveAlarmByHDRef(t, a, terminate) ==
    /\ a \in Ids /\ alarms[a].hd # "ignored"
    /\ terminate \/ alarms[a].state # "resolved"
    /\ ResolveFirst(t, a, terminate)

DeleteAlarm(t, a) ==
    /\ a \in Ids
    /\ ResolveFirst(t, a, TRUE)

\* Mutant: nothing is dropped for an alarm that is no longer in the list
BugDropSeverity(t) ==
    /\ op[t].pc = "drop"
    /\ sev' = IF op[t].a \notin Ids THEN sev
              ELSE [sev EXCEPT ![op[t].o] = removeAlarm(@, op[t].a)]
    /\ Recalculate(t, {op[t].o}, "none", lock)
    /\ UNCHANGED <<listVars, status, poll, deleted, jobs, rcaDue>>

\* UpdateObjectOnAlarmResolve after the unlock
DropSeverity(t) ==
    /\ op[t].pc = "drop"
    /\ sev' = [sev EXCEPT ![op[t].o] = removeAlarm(@, op[t].a)]
    /\ Recalculate(t, {op[t].o}, "none", lock)
    /\ UNCHANGED <<listVars, status, poll, deleted, jobs, rcaDue>>

-----------------------------------------------------------------------------
(* Helpdesk link *)

SetHelpdesk(a, hd) ==
    /\ lock = NoThread
    /\ alarms' = [alarms EXCEPT ![a].hd = hd]
    /\ UNCHANGED <<keyIndex, nextId, sev, status, poll, deleted, lock, op, jobs, rcaVars>>

\* OpenHelpdeskIssue when the helpdesk accepts the issue, and SetHelpdeskReference
OpenHelpdeskIssue(a) ==
    /\ a \in Ids /\ alarms[a].hd = "ignored" /\ "open" \in HelpdeskResults
    /\ SetHelpdesk(a, "open")
CloseHelpdeskIssue(a) ==
    /\ a \in Ids /\ alarms[a].hd = "open"
    /\ SetHelpdesk(a, "closed")
UnlinkHelpdeskIssue(a) ==
    /\ a \in Ids /\ alarms[a].hd # "ignored"
    /\ SetHelpdesk(a, "ignored")

-----------------------------------------------------------------------------
(* Watchdog thread: one alarm of a sweep *)

OutstandingTimeout(a) ==
    /\ lock = NoThread /\ a \in Ids
    /\ alarms[a].timeout /\ alarms[a].state = "outstanding"
    /\ alarms' = [alarms EXCEPT ![a].timeout = FALSE]
    /\ UNCHANGED <<keyIndex, nextId, sev, status, poll, deleted, lock, op, jobs, rcaVars>>

AckTimeout(a) ==
    /\ lock = NoThread /\ a \in Ids
    /\ alarms[a].ackTimeout /\ alarms[a].state = "sticky"
    /\ alarms' = [alarms EXCEPT ![a].ackTimeout = FALSE, ![a].state = "outstanding"]
    /\ UNCHANGED <<keyIndex, nextId, sev, status, poll, deleted, lock, op, jobs, rcaVars>>

\* The status is recalculated while the list is still locked
ResolveExpired(t, a) ==
    /\ op[t] = Free /\ lock = NoThread /\ a \in Ids
    /\ ResolveExpiration /\ alarms[a].state = "resolved" /\ alarms[a].hd # "open"
    /\ resolve(a, TRUE, FALSE)
    /\ Recalculate(t, {alarms[a].src}, "none", t)
    /\ UNCHANGED <<nextId, status, poll, deleted, rcaDue>>

-----------------------------------------------------------------------------
(* Root cause update thread *)

RcaStart(t) ==
    /\ op[t] = Free /\ \A u \in Thread : op[u].pc \notin {"rcastart", "rca"}
    /\ rcaNeeded /\ rcaPossible
    /\ rcaNeeded' = FALSE /\ rcaPossible' = FALSE
    /\ op' = [op EXCEPT ![t] = [pc |-> "rcastart"]]
    /\ UNCHANGED <<listVars, sev, status, poll, deleted, lock, jobs, rcaDue>>

RcaCollect(t) ==
    /\ op[t].pc = "rcastart" /\ lock = NoThread
    /\ op' = [op EXCEPT ![t] = [pc |-> "rca",
                 ids |-> {a \in Ids : alarms[a].rca /\ alarms[a].parent = 0}]]
    /\ UNCHANGED <<listVars, sev, status, poll, deleted, lock, jobs, rcaVars>>

\* The script of alarm a has run, and found parent p if p # 0
RcaApply(t, a, p) ==
    /\ op[t].pc = "rca" /\ a \in op[t].ids
    /\ IF p # 0 /\ a \in Ids
       THEN lock = NoThread /\ alarms' = Reparent(a, alarms[a], p)
       ELSE UNCHANGED alarms
    /\ op' = [op EXCEPT ![t].ids = @ \ {a}]
    /\ rcaDue' = rcaDue \ {a}
    /\ UNCHANGED <<keyIndex, nextId, sev, status, poll, deleted, lock, jobs,
                   rcaNeeded, rcaPossible>>

\* Mutant: the request is withdrawn at the end instead of at the beginning
BugRcaEnd(t) ==
    /\ op[t].pc = "rca" /\ op[t].ids = {}
    /\ op' = [op EXCEPT ![t] = Free]
    /\ rcaNeeded' = FALSE
    /\ UNCHANGED <<listVars, sev, status, poll, deleted, lock, jobs, rcaPossible, rcaDue>>

RcaEnd(t) ==
    /\ op[t].pc = "rca" /\ op[t].ids = {}
    /\ op' = [op EXCEPT ![t] = Free]
    /\ UNCHANGED <<listVars, sev, status, poll, deleted, lock, jobs, rcaVars>>

-----------------------------------------------------------------------------
Report(t) ==
    \E k \in Key \cup {NoKey}, o \in Object, s \in Severity, rca \in RcaScripts,
       timeout, ackTimeout \in Timeouts, hd \in HelpdeskResults :
        \/ \E p \in ParentChoice(nextId) :
              CreateCheck(t, k, o, s, p, rca, timeout, hd)
        \/ \E p \in ParentChoice(IF k = NoKey THEN 0 ELSE keyIndex[k]) :
              CreateUpdate(t, k, o, s, p, rca, timeout, ackTimeout, hd)

Resolution(t) ==
    \E terminate \in BOOLEAN :
        \/ \E a \in AlarmId, cascade \in Cascades : ResolveAlarmById(t, a, terminate, cascade)
        \/ \E k \in Key : \/ ResolveAlarmByKeyRegexp(t, k, terminate)
                          \/ ResolveAlarmByKeyExact(t, k, terminate)
        \/ \E a \in AlarmId : \/ ResolveAlarmByDCObjectId(t, a, terminate)
                              \/ ResolveAlarmByHDRef(t, a, terminate)

\* The rest of an operation that thread t has begun
Continue(t) ==
    \/ CreateAdd(t) \/ CreateLink(t)
    \/ \E o \in Object : RecalcRead(t, o)
    \/ \E ms \in ModuleStatus \cup {-1} : RecalcModules(t, ms)
    \/ RecalcCommit(t)
    \/ \E a \in AlarmId : JobAck(t, a) \/ JobResolve(t, a)
    \/ JobEnd(t) \/ DropSeverity(t)
    \/ RcaCollect(t) \/ RcaEnd(t)
    \/ \E a \in AlarmId : \E p \in ParentChoice(a) : RcaApply(t, a, p)

Begin(t) ==
    \/ Report(t)
    \/ Resolution(t)
    \/ \E a \in AlarmId : DeleteAlarm(t, a) \/ ResolveExpired(t, a) \/ JobStart(t, a)
    \/ RcaStart(t)

\* Operations that are one critical section and leave nothing to do
Brief ==
    \/ \E a \in AlarmId :
         \/ \E sticky \in BOOLEAN, ackTimeout \in Timeouts, cascade \in Cascades :
              AckAlarmById(a, sticky, ackTimeout, cascade)
         \/ ResolveRefused(a)
         \/ OpenHelpdeskIssue(a) \/ CloseHelpdeskIssue(a) \/ UnlinkHelpdeskIssue(a)
         \/ OutstandingTimeout(a) \/ AckTimeout(a)
    \/ \E o \in Object : DeleteObjectAlarms(o)

Next ==
    \/ \E t \in Thread : Begin(t) \/ Continue(t)
    \/ Brief
    \/ \E o \in Object : \/ PollRead(o) \/ PollCommit(o)
                         \/ \E ms \in ModuleStatus \cup {-1} : PollModules(o, ms)

Spec == Init /\ [][Next]_vars

\* Every operation that has begun goes on, and an object that has a status poll available
\* is polled again and again
Fairness ==
    /\ \A t \in Thread : WF_vars(Continue(t))
    /\ \A o \in Polled : /\ WF_vars(PollRead(o)) /\ WF_vars(PollCommit(o))
                         /\ WF_vars(\E ms \in ModuleStatus \cup {-1} : PollModules(o, ms))
FairSpec == Spec /\ Fairness

-----------------------------------------------------------------------------
\* Every variable has its type; the list never holds an alarm that has not been issued.
TypeOK ==
    /\ Ids \subseteq 1..(nextId - 1) /\ \A a \in Ids : alarms[a] \in Alarm
    /\ keyIndex \in [Key -> AlarmId \cup {0}]
    /\ nextId \in 1..(MaxAlarms + 1)
    /\ sev \in [Object -> SeverityTable]
    /\ status \in [Object -> Level]
    /\ poll \in [Object -> Poll]
    /\ deleted \subseteq Object
    /\ lock \in Thread \cup {NoThread}
    /\ op \in [Thread -> Op]
    /\ jobs \in [AlarmId -> Job]
    /\ rcaNeeded \in BOOLEAN /\ rcaPossible \in BOOLEAN /\ rcaDue \subseteq AlarmId

\* m_mostCritical, which is maintained incrementally as alarms come, change and go,
\* is always the highest severity recorded for the object (-1 if there is none).
MostCriticalIsMax ==
    \A o \in Object :
        /\ \A a \in AlarmId : sev[o].of[a] <= sev[o].mostCritical
        /\ \/ sev[o].mostCritical = -1
           \/ \E a \in AlarmId : sev[o].of[a] = sev[o].mostCritical

\* The key index, which does not own the alarms, never points to an alarm that has
\* been removed (and freed), nor to one with another key, even when two alarms were
\* created with the same key.
KeyIndexSound ==
    \A k \in Key : keyIndex[k] # 0 => /\ keyIndex[k] \in Ids
                                      /\ alarms[keyIndex[k]].key = k

\* No alarm counts against an object's status unless it is an unresolved alarm of that
\* object, or a thread that resolved or deleted it is about to drop it.
NoGhostSeverity ==
    \A o \in Object \ deleted, a \in AlarmId :
        sev[o].of[a] # -1 =>
            \/ a \in Ids /\ alarms[a].src = o /\ alarms[a].state # "resolved"
            \/ \E t \in Thread : op[t].pc = "drop" /\ op[t].a = a /\ op[t].o = o

\* An alarm in the list is known to its parent alarm as a subordinate, so that a
\* cascade from the parent reaches it, unless its creator is about to link it.
ParentKnowsSubordinate ==
    \A a \in Ids : alarms[a].parent \in Ids =>
        \/ a \in alarms[alarms[a].parent].subs
        \/ \E t \in Thread : op[t].pc = "link" /\ op[t].a = a

\* An alarm reported without its root cause is not forgotten: until the root cause
\* thread has evaluated it, the thread is asked for, or on its way to that alarm.
RcaNotForgotten ==
    \A a \in rcaDue \cap Ids : alarms[a].rca /\ alarms[a].parent = 0 =>
        \/ rcaNeeded
        \/ \E t \in Thread :
             \/ op[t].pc = "rcastart"
             \/ op[t].pc = "rca" /\ a \in op[t].ids
             \/ op[t].pc \in {"link", "recalc", "commit"} /\ op[t].after = "unfound"

\* The answers of the modules leave the status that was calculated from the alarms as it is
ModulesAgree(o) ==
    /\ poll[o].pc = "modules" /\ poll'[o].pc = "commit" => poll'[o].v = poll[o].v
    /\ \A t \in Thread :
          op[t].pc = "commit" /\ op[t].o = o /\ ~op[t].asked /\ op'[t] # op[t] => op'[t].v = op[t].v

\* When the most critical alarm of an object that has status polls settles, and modules do
\* not overrule it any more, so does the object's status, whatever a recalculation that was
\* overtaken, or a module, has made of it before.  An object without status polls keeps a
\* stale status, and one that a module judges may keep its old status for ever.
StatusConverges ==
    \A o \in Polled, v \in Level :
        <>[](sev[o].mostCritical = v /\ o \notin deleted) /\ <>[][ModulesAgree(o)]_vars
            => <>[](status[o] = v)

\* Every alarm that is not resolved counts against its object's status.
ActiveAlarmCounted ==
    \A a \in Ids : alarms[a].state # "resolved" =>
        sev[alarms[a].src].of[a] = alarms[a].severity

=============================================================================
