------------------------- MODULE AlarmManagerProofs -------------------------
(***************************************************************************)
(* Proofs about AlarmManager, in three parts: type correctness, the cached *)
(* most critical severity and the key index; that no severity outlives its *)
(* alarm; and that parents know their subordinates and no alarm that waits *)
(* for its root cause is forgotten.                                        *)
(*                                                                         *)
(* TypeOK is not inductive by itself: to update the alarm that the key     *)
(* index has for a key one must know that it is in the list                *)
(* (KeyIndexSound), and to add an alarm that nobody has added one with the *)
(* same identifier in between (Fresh).                                     *)
(***************************************************************************)
EXTENDS AlarmManager, TLAPS

\* MostCriticalIsMax for one table
TableMax(T) ==
    /\ \A a \in AlarmId : T.of[a] <= T.mostCritical
    /\ T.mostCritical = -1 \/ \E a \in AlarmId : T.of[a] = T.mostCritical

\* ObjectAlarmSeverity::updateMostCritical finds a level: the highest severity recorded,
\* or -1 if there is none.  Levels are six numbers, so the maximum is found by cases.
LEMMA MaxExists ==
    ASSUME NEW of \in [AlarmId -> Level]
    PROVE  /\ updateMostCritical(of) \in Level
           /\ \A a \in AlarmId : of[a] <= updateMostCritical(of)
           /\ \/ updateMostCritical(of) = -1
              \/ \E a \in AlarmId : of[a] = updateMostCritical(of)
<1>1. \E s \in Level : /\ \A a \in AlarmId : of[a] <= s
                       /\ s = -1 \/ \E a \in AlarmId : of[a] = s
  <2>1. \A a \in AlarmId : of[a] \in Level
    OBVIOUS
  <2>2. CASE \E a \in AlarmId : of[a] = 4
    BY <2>1, <2>2 DEF Level
  <2>3. CASE (\A a \in AlarmId : of[a] # 4) /\ \E a \in AlarmId : of[a] = 3
    <3>1. \A a \in AlarmId : of[a] <= 3
      BY <2>1, <2>3 DEF Level
    <3> QED BY <3>1, <2>3 DEF Level
  <2>4. CASE (\A a \in AlarmId : of[a] \notin {3, 4}) /\ \E a \in AlarmId : of[a] = 2
    <3>1. \A a \in AlarmId : of[a] <= 2
      BY <2>1, <2>4 DEF Level
    <3> QED BY <3>1, <2>4 DEF Level
  <2>5. CASE (\A a \in AlarmId : of[a] \notin {2, 3, 4}) /\ \E a \in AlarmId : of[a] = 1
    <3>1. \A a \in AlarmId : of[a] <= 1
      BY <2>1, <2>5 DEF Level
    <3> QED BY <3>1, <2>5 DEF Level
  <2>6. CASE (\A a \in AlarmId : of[a] \notin {1, 2, 3, 4}) /\ \E a \in AlarmId : of[a] = 0
    <3>1. \A a \in AlarmId : of[a] <= 0
      BY <2>1, <2>6 DEF Level
    <3> QED BY <3>1, <2>6 DEF Level
  <2>7. CASE \A a \in AlarmId : of[a] \notin {0, 1, 2, 3, 4}
    <3>1. \A a \in AlarmId : of[a] <= -1
      BY <2>1, <2>7 DEF Level
    <3> QED BY <3>1 DEF Level
  <2> QED BY <2>2, <2>3, <2>4, <2>5, <2>6, <2>7
<1> QED BY <1>1 DEF updateMostCritical

\* ObjectAlarmSeverity::updateAlarm keeps the table well-formed and its cached maximum right.
LEMMA UpdateTable ==
    ASSUME NEW T \in SeverityTable, NEW a \in AlarmId, NEW s \in Severity
    PROVE  /\ updateAlarm(T, a, s) \in SeverityTable
           /\ TableMax(T) => TableMax(updateAlarm(T, a, s))
<1> DEFINE of == [T.of EXCEPT ![a] = s]
<1>1. T.of \in [AlarmId -> Level] /\ T.mostCritical \in Level
  BY DEF SeverityTable
<1>2. s \in Level /\ s # -1
  BY SeverityAssumption DEF Level
<1>3. of \in [AlarmId -> Level] /\ of[a] = s /\ \A x \in AlarmId \ {a} : of[x] = T.of[x]
  BY <1>1, <1>2
<1> DEFINE m == IF T.of[a] > s THEN updateMostCritical(of)
                ELSE IF T.of[a] # s /\ s > T.mostCritical THEN s
                ELSE T.mostCritical
<1>4. updateAlarm(T, a, s) = [of |-> of, mostCritical |-> m]
  BY DEF updateAlarm
<1>5. m \in Level
  BY <1>1, <1>2, <1>3, MaxExists
<1>6. ASSUME TableMax(T) 
      PROVE  /\ \A x \in AlarmId : of[x] <= m
             /\ m = -1 \/ \E x \in AlarmId : of[x] = m
  <2>1. CASE T.of[a] > s
    <3> HIDE DEF of
    <3> QED BY <2>1, <1>3, MaxExists
  <2>2. CASE ~(T.of[a] > s)
    <3> HIDE DEF of
    <3> QED BY <2>2, <1>1, <1>2, <1>3, <1>6 DEF TableMax, Level
  <2> QED BY <2>1, <2>2
<1> HIDE DEF of, m
<1> QED BY <1>3, <1>4, <1>5, <1>6 DEF TableMax, SeverityTable

\* ObjectAlarmSeverity::removeAlarm keeps the table well-formed and its cached maximum right.
LEMMA RemoveTable ==
    ASSUME NEW T \in SeverityTable, NEW a \in AlarmId
    PROVE  /\ removeAlarm(T, a) \in SeverityTable
           /\ TableMax(T) => TableMax(removeAlarm(T, a))
<1> DEFINE of == [T.of EXCEPT ![a] = -1]
<1>1. T.of \in [AlarmId -> Level] /\ T.mostCritical \in Level
  BY DEF SeverityTable
<1>2. -1 \in Level
  BY DEF Level
<1>3. of \in [AlarmId -> Level] /\ of[a] = -1 /\ \A x \in AlarmId \ {a} : of[x] = T.of[x]
  BY <1>1, <1>2
<1> DEFINE m == IF T.of[a] # -1 /\ T.of[a] >= T.mostCritical
                THEN updateMostCritical(of) ELSE T.mostCritical
<1>4. removeAlarm(T, a) = [of |-> of, mostCritical |-> m]
  BY DEF removeAlarm
<1>5. m \in Level
  BY <1>1, <1>3, MaxExists
<1>6. ASSUME TableMax(T) 
      PROVE  /\ \A x \in AlarmId : of[x] <= m
             /\ m = -1 \/ \E x \in AlarmId : of[x] = m
  <2>1. CASE T.of[a] # -1 /\ T.of[a] >= T.mostCritical
    <3> HIDE DEF of
    <3> QED BY <2>1, <1>3, MaxExists
  <2>2. CASE ~(T.of[a] # -1 /\ T.of[a] >= T.mostCritical)
    <3> HIDE DEF of
    <3> QED BY <2>2, <1>1, <1>2, <1>3, <1>6 DEF TableMax, Level
  <2> QED BY <2>1, <2>2
<1> HIDE DEF of, m
<1> QED BY <1>3, <1>4, <1>5, <1>6 DEF TableMax, SeverityTable

\* What a thread remembers between two steps of an operation, by the step it is at.
LEMMA OpParts ==
    ASSUME NEW x \in Op
    PROVE  /\ x.pc = "add" => x.a \in AlarmId /\ x.alarm \in Alarm
           /\ x.pc = "link" => x.a \in AlarmId /\ x.o \in Object /\ x.p \in AlarmId \cup {0} /\ x.after \in After
           /\ x.pc = "drop" => x.a \in AlarmId /\ x.o \in Object
           /\ x.pc = "job" => x \in [pc : {"job"}, job : Job, objs : SUBSET Object]
           /\ x.pc = "recalc" => x.objs \subseteq Object /\ x.after \in After
           /\ x.pc = "commit" => /\ x.o \in Object /\ x.v \in Level /\ x.asked \in BOOLEAN
                               /\ x.objs \subseteq Object /\ x.after \in After
           /\ x.pc = "rca" => x \in [pc : {"rca"}, ids : SUBSET AlarmId]
BY DEF Op, Free

-----------------------------------------------------------------------------
\* The alarm a thread is about to add is outstanding and has an identifier that was
\* issued to that thread and is not in the list
Fresh ==
    \A t \in Thread : op[t].pc = "add" =>
        /\ op[t].a < nextId /\ op[t].a \notin Ids
        /\ op[t].alarm.state = "outstanding"
        /\ \A u \in Thread : op[u].pc = "add" /\ op[u].a = op[t].a => u = t

\* The part of TypeOK about variables other than the list, the tables and the operations
RestType ==
    /\ status \in [Object -> Level]
    /\ poll \in [Object -> Poll]
    /\ deleted \subseteq Object
    /\ lock \in Thread \cup {NoThread}
    /\ jobs \in [AlarmId -> Job]
    /\ rcaNeeded \in BOOLEAN /\ rcaPossible \in BOOLEAN /\ rcaDue \subseteq AlarmId

\* The alarm list is well-formed and its key index sound
ListType ==
    /\ \A a \in Ids : alarms[a] \in Alarm
    /\ keyIndex \in [Key -> AlarmId \cup {0}]
    /\ KeyIndexSound

\* The severity tables are well-formed and their maxima right
SevType == sev \in [Object -> SeverityTable] /\ MostCriticalIsMax

\* The inductive invariant
IInv == TypeOK /\ KeyIndexSound /\ MostCriticalIsMax /\ Fresh

\* A step that issues no identifier, adds no alarm and keeps the list consistent
ListStep == ListType' /\ nextId' = nextId /\ Ids' \subseteq Ids
\* A step in which no thread comes to add an alarm
OpStep == op' \in [Thread -> Op] /\ \A u \in Thread : op'[u].pc = "add" => op'[u] = op[u]

\* A step that keeps the list, the operations under way, the severity tables and the other
\* variables in order preserves the inductive invariant.
LEMMA StepPreserves ==
    ASSUME IInv, ListStep, OpStep, SevType', RestType'
    PROVE  IInv'
<1>1. TypeOK'
  BY DEF IInv, TypeOK, ListStep, ListType, OpStep, SevType, RestType
<1>2. Fresh'
  BY DEF IInv, Fresh, ListStep, OpStep
<1> QED BY <1>1, <1>2 DEF IInv, ListStep, ListType, SevType

\* Going on to recalculate object status, or finishing, keeps the operations in order.
LEMMA RecalculateStep ==
    ASSUME TypeOK, NEW t \in Thread, NEW objs \in SUBSET Object, NEW after \in After,
           NEW holder \in Thread \cup {NoThread},
           Recalculate(t, objs, after, holder)
    PROVE  /\ OpStep
           /\ lock' \in Thread \cup {NoThread}
           /\ rcaNeeded' \in BOOLEAN /\ rcaPossible' \in BOOLEAN
<1> DEFINE objs1 == (objs \cap Managed) \ deleted
<1>1. CASE objs1 = {}
  <2>1. Finish(t, after)
    BY <1>1 DEF Recalculate
  <2>2. OpStep
    BY <2>1 DEF Finish, OpStep, TypeOK, Op, Free
  <2>3. lock' \in Thread \cup {NoThread}
    BY <2>1 DEF Finish, TypeOK
  <2>4. rcaNeeded' \in BOOLEAN /\ rcaPossible' \in BOOLEAN
    BY <2>1 DEF Finish
  <2> QED BY <2>2, <2>3, <2>4
<1>2. CASE objs1 # {}
  <2> DEFINE new == [pc |-> "recalc", objs |-> objs1, after |-> after]
  <2>1. op' = [op EXCEPT ![t] = new] /\ lock' = holder /\ UNCHANGED <<rcaNeeded, rcaPossible>>
    BY <1>2 DEF Recalculate
  <2>2. new \in Op /\ new.pc # "add"
    BY DEF Op
  <2>3. OpStep
    <3> HIDE DEF new
    <3> QED BY <2>1, <2>2 DEF OpStep, TypeOK
  <2> QED BY <2>1, <2>3 DEF TypeOK
<1> QED BY <1>1, <1>2

\* AlarmList::remove keeps the list and the key index consistent.
LEMMA RemoveStep ==
    ASSUME IInv, NEW S \in SUBSET Ids, remove(S)
    PROVE  ListType' /\ Ids' \subseteq Ids
<1>1. Ids' = Ids \ S
  BY DEF remove, Ids
<1>2. \A x \in Ids \ S : alarms'[x] \in Alarm /\ alarms'[x].key = alarms[x].key
  <2> SUFFICES ASSUME NEW x \in Ids \ S
               PROVE  alarms'[x] \in Alarm /\ alarms'[x].key = alarms[x].key
    OBVIOUS
  <2>1. PICK T : alarms'[x] = [alarms[x] EXCEPT !.subs = @ \ T]
    BY DEF remove
  <2>2. PICK y \in Alarm : y = alarms[x]
    BY DEF IInv, TypeOK
  <2>3. y.subs \ T \in SUBSET AlarmId
    BY DEF Alarm
  <2>4. [y EXCEPT !.subs = @ \ T] \in Alarm /\ [y EXCEPT !.subs = @ \ T].key = y.key
    BY <2>3 DEF Alarm
  <2> QED BY <2>1, <2>2, <2>4
<1>3. keyIndex' \in [Key -> AlarmId \cup {0}]
  BY DEF remove, IInv, TypeOK
<1>4. KeyIndexSound'
  BY <1>1, <1>2 DEF remove, IInv, TypeOK, KeyIndexSound
<1> QED BY <1>1, <1>2, <1>3, <1>4 DEF ListType

\* Changing alarms in place, keys excepted, keeps the list and the key index consistent.
LEMMA EditStep ==
    ASSUME IInv, Ids' = Ids, UNCHANGED <<keyIndex, nextId>>,
           \A x \in Ids : alarms'[x] \in Alarm /\ alarms'[x].key = alarms[x].key
    PROVE  ListStep
BY DEF ListStep, ListType, IInv, TypeOK, KeyIndexSound

\* Queueing a cascade leaves a well-formed background job.
LEMMA SpawnType ==
    ASSUME TypeOK, NEW a \in Ids, NEW cascade, NEW what \in {"ack", "resolve"},
           NEW flag \in BOOLEAN, NEW ackTimeout \in BOOLEAN,
           Spawn(a, cascade, what, flag, ackTimeout)
    PROVE  jobs' \in [AlarmId -> Job]
<1>1. alarms[a].subs \in SUBSET AlarmId
  BY DEF TypeOK, Alarm
<1> DEFINE j == [what |-> what, ids |-> alarms[a].subs, flag |-> flag, ackTimeout |-> ackTimeout]
<1>2. j \in Job
  BY <1>1 DEF Job
<1>3. jobs' = jobs \/ jobs' = [jobs EXCEPT ![a] = j]
  BY DEF Spawn
<1> HIDE DEF j
<1> QED BY <1>2, <1>3 DEF TypeOK

\* Moving an alarm between parents keeps every alarm well-formed and its key.
LEMMA ReparentStep ==
    ASSUME IInv, NEW a \in Ids, NEW r \in Alarm, r.key = alarms[a].key,
           NEW p \in AlarmId \cup {0}, alarms' = Reparent(a, r, p)
    PROVE  /\ Ids' = Ids
           /\ \A x \in Ids : alarms'[x] \in Alarm /\ alarms'[x].key = alarms[x].key
<1>1. Ids' = Ids
  BY DEF Reparent, Ids
<1>2. a \in AlarmId
  BY BoundAssumption DEF IInv, TypeOK, AlarmId
<1>3. ASSUME NEW x \in Ids
      PROVE  alarms'[x] \in Alarm /\ alarms'[x].key = alarms[x].key
  <2> DEFINE y == IF x = a THEN [r EXCEPT !.parent = p] ELSE alarms[x]
  <2>1. y \in Alarm /\ y.key = alarms[x].key
    BY <1>3 DEF IInv, TypeOK, Alarm
  <2>2. \/ alarms'[x] = y
        \/ alarms'[x] = [y EXCEPT !.subs = @ \cup {a}]
        \/ alarms'[x] = [y EXCEPT !.subs = @ \ {a}]
    BY DEF Reparent
  <2> HIDE DEF y
  <2> QED BY <1>2, <2>1, <2>2 DEF Alarm
<1> QED BY <1>1, <1>3

\* Alarm::resolve keeps the alarm well-formed and its key.
LEMMA ResolvedType ==
    ASSUME NEW r \in Alarm
    PROVE  Resolved(r) \in Alarm /\ Resolved(r).key = r.key
BY DEF Alarm, Resolved, AlarmState, HelpdeskState

\* A step that leaves the severity tables alone keeps them in order.
LEMMA SevUnchanged ==
    ASSUME IInv, UNCHANGED sev
    PROVE  SevType'
BY DEF IInv, TypeOK, SevType, MostCriticalIsMax

\* MostCriticalIsMax, table by table.
LEMMA SevTable ==
    ASSUME sev \in [Object -> SeverityTable]
    PROVE  MostCriticalIsMax <=> \A o \in Object : TableMax(sev[o])
BY DEF MostCriticalIsMax, TableMax

\* UpdateObjectOnAlarmResolve keeps the severity tables in order.
LEMMA SevRemoved ==
    ASSUME IInv, NEW o \in Object, NEW a \in AlarmId,
           sev' = [sev EXCEPT ![o] = removeAlarm(@, a)]
    PROVE  SevType'
<1>1. sev[o] \in SeverityTable /\ TableMax(sev[o])
  BY SevTable DEF IInv, TypeOK
<1>2. removeAlarm(sev[o], a) \in SeverityTable /\ TableMax(removeAlarm(sev[o], a))
  BY <1>1, RemoveTable
<1>3. \A x \in Object : sev'[x] \in SeverityTable /\ TableMax(sev'[x])
  BY <1>2, SevTable DEF IInv, TypeOK
<1> QED BY <1>3 DEF SevType, MostCriticalIsMax, TableMax, IInv, TypeOK

\* Alarms in the list have identifiers that were issued, and are well-formed.
LEMMA IdsType ==
    ASSUME TypeOK, NEW a \in Ids
    PROVE  a \in AlarmId /\ alarms[a] \in Alarm /\ alarms[a].src \in Object
BY BoundAssumption DEF TypeOK, AlarmId, Alarm

\* Resolving or terminating an alarm in one critical section keeps list, severity tables and
\* jobs in order.
LEMMA ResolveStep ==
    ASSUME IInv, NEW a \in Ids, NEW terminate \in BOOLEAN, NEW cascade,
           resolve(a, terminate, cascade), UNCHANGED nextId
    PROVE  ListStep /\ SevType' /\ jobs' \in [AlarmId -> Job]
<1>1. jobs' \in [AlarmId -> Job]
  BY SpawnType DEF resolve, IInv
<1>2. SevType'
  BY IdsType, SevRemoved DEF resolve, IInv
<1>3. CASE terminate
  BY <1>1, <1>2, <1>3, RemoveStep DEF resolve, ListStep
<1>4. CASE ~terminate
  <2>1. alarms' = [alarms EXCEPT ![a] = Resolved(@)] /\ UNCHANGED keyIndex
    BY <1>4 DEF resolve
  <2>2. Ids' = Ids
    BY <2>1 DEF Ids
  <2>3. \A x \in Ids : alarms'[x] \in Alarm /\ alarms'[x].key = alarms[x].key
    BY <2>1, ResolvedType DEF IInv, TypeOK, Ids
  <2>4. ListStep
    BY <2>1, <2>2, <2>3, EditStep
  <2> QED BY <1>1, <1>2, <2>4
<1> QED BY <1>3, <1>4

\* An operation that resolves or terminates an alarm and then recalculates the status of its
\* object preserves the invariant.
LEMMA ResolveThenRecalculate ==
    ASSUME IInv, NEW t \in Thread, NEW a \in Ids, NEW terminate \in BOOLEAN, NEW cascade,
           NEW holder \in Thread \cup {NoThread},
           resolve(a, terminate, cascade), Recalculate(t, {alarms[a].src}, "none", holder),
           UNCHANGED <<nextId, status, poll, deleted, rcaDue>>
    PROVE  IInv'
<1>1. ListStep /\ SevType' /\ jobs' \in [AlarmId -> Job]
  BY ResolveStep
<1>2. {alarms[a].src} \in SUBSET Object /\ "none" \in After
  BY IdsType DEF IInv, After
<1>3. /\ OpStep
      /\ lock' \in Thread \cup {NoThread}
      /\ rcaNeeded' \in BOOLEAN /\ rcaPossible' \in BOOLEAN
  BY <1>2, RecalculateStep DEF IInv
<1>4. RestType'
  BY <1>1, <1>3 DEF RestType, IInv, TypeOK
<1> QED BY <1>1, <1>3, <1>4, StepPreserves

\* An operation that only changes alarms in place preserves the invariant.
LEMMA EditOnly ==
    ASSUME IInv, Ids' = Ids,
           \A x \in Ids : alarms'[x] \in Alarm /\ alarms'[x].key = alarms[x].key,
           jobs' \in [AlarmId -> Job], OpStep,
           UNCHANGED <<keyIndex, nextId, sev, status, poll, deleted, lock>>,
           rcaNeeded' \in BOOLEAN, rcaPossible' \in BOOLEAN, rcaDue' \subseteq AlarmId
    PROVE  IInv'
<1>1. ListStep
  BY EditStep
<1>2. RestType'
  BY DEF RestType, IInv, TypeOK
<1>3. SevType'
  BY SevUnchanged
<1> QED BY <1>1, <1>2, <1>3, StepPreserves

\* A step that leaves every thread where it was keeps the operations in order.
LEMMA OpUnchanged ==
    ASSUME TypeOK, UNCHANGED op
    PROVE  OpStep
BY DEF OpStep, TypeOK

\* So does a step in which one thread goes on to something other than adding an alarm.
LEMMA OpChanged ==
    ASSUME TypeOK, NEW t \in Thread, NEW x \in Op, x.pc # "add", op' = [op EXCEPT ![t] = x]
    PROVE  OpStep
BY DEF OpStep, TypeOK

\* A step that leaves the alarm list alone keeps it consistent.
LEMMA ListUnchanged ==
    ASSUME IInv, UNCHANGED listVars
    PROVE  ListStep
BY DEF ListStep, ListType, IInv, TypeOK, KeyIndexSound, listVars, Ids

-----------------------------------------------------------------------------
\* The invariant holds when the alarm manager starts with an empty list.
LEMMA InitIInv == Init => IInv
<1> SUFFICES ASSUME Init PROVE IInv
  OBVIOUS
<1>1. Ids = {}
  BY DEF Init, Ids
<1>2. EmptyTable \in SeverityTable
  BY DEF EmptyTable, SeverityTable, Level
<1>3. sev \in [Object -> SeverityTable] /\ MostCriticalIsMax
  BY <1>2 DEF Init, MostCriticalIsMax, EmptyTable, Level
<1>4. Free \in Op /\ Free.pc # "add"
  BY DEF Op, Free
<1>5. NoJob \in Job
  BY DEF NoJob, Job
<1>6. KeyIndexSound /\ Fresh
  BY <1>4 DEF Init, KeyIndexSound, Fresh
<1>7. RestType
  <2>1. status \in [Object -> Level] /\ poll \in [Object -> Poll]
    BY DEF Init, Level, Poll, PollIdle
  <2>2. jobs \in [AlarmId -> Job]
    BY <1>5 DEF Init
  <2> QED BY <2>1, <2>2 DEF Init, RestType
<1>8. nextId \in 1..(MaxAlarms + 1) /\ Ids \subseteq 1..(nextId - 1)
  BY <1>1, BoundAssumption DEF Init
<1>9. op \in [Thread -> Op] /\ keyIndex \in [Key -> AlarmId \cup {0}]
  BY <1>4 DEF Init
<1>10. TypeOK
  BY <1>1, <1>3, <1>7, <1>8, <1>9 DEF TypeOK, RestType
<1> QED BY <1>3, <1>6, <1>10 DEF IInv

\* CreateNewAlarm, no alarm with that key: the identifier issued is new.
LEMMA CreateCheckStep ==
    ASSUME IInv, NEW t \in Thread, NEW k \in Key \cup {NoKey}, NEW o \in Object,
           NEW s \in Severity, NEW p \in AlarmId \cup {0}, NEW rca \in BOOLEAN,
           NEW timeout \in BOOLEAN, NEW hd \in HelpdeskState,
           CreateCheck(t, k, o, s, p, rca, timeout, hd)
    PROVE  IInv'
<1> DEFINE r == NewAlarm(k, o, s, p, rca, timeout, hd)
<1> DEFINE new == [pc |-> "add", a |-> nextId, alarm |-> r]
<1>1. r \in Alarm
  BY DEF Alarm, AlarmState, NewAlarm
<1>2. nextId \in AlarmId /\ nextId' = nextId + 1 /\ nextId' \in 1..(MaxAlarms + 1)
  BY BoundAssumption DEF CreateCheck, IInv, TypeOK, AlarmId
<1>3. op' = [op EXCEPT ![t] = new]
  BY DEF CreateCheck
<1> HIDE DEF r
<1>4. new \in Op
  BY <1>1, <1>2 DEF Op
<1>5. new.pc = "add" /\ new.a = nextId /\ new.alarm.state = "outstanding"
  BY DEF r, NewAlarm
<1> HIDE DEF new
<1>6. UNCHANGED <<alarms, keyIndex, sev, status, poll, deleted, lock, jobs, rcaVars>>
  BY DEF CreateCheck
<1>7. TypeOK'
  BY <1>2, <1>3, <1>4, <1>6 DEF IInv, TypeOK, rcaVars, Ids
<1>8. Fresh'
  <2>1. \A u \in Thread \ {t} : op'[u] = op[u] /\ (op[u].pc = "add" => op[u].a < nextId)
    BY <1>3 DEF IInv, TypeOK, Fresh
  <2>2. op'[t].pc = "add" /\ op'[t].a = nextId /\ op'[t].alarm.state = "outstanding"
    BY <1>3, <1>5 DEF IInv, TypeOK
  <2>3. nextId \in Nat /\ nextId' = nextId + 1 /\ nextId \notin Ids /\ Ids' = Ids
    BY <1>2, <1>6, BoundAssumption DEF IInv, TypeOK, AlarmId, Ids
  <2>4. \A u \in Thread : op[u].pc = "add" => op[u].a \in AlarmId
    BY OpParts DEF IInv, TypeOK
  <2>5. \A u \in Thread : op'[u].pc = "add" => op'[u].a < nextId' /\ op'[u].a \notin Ids'
    BY <2>1, <2>2, <2>3, <2>4 DEF IInv, Fresh, AlarmId
  <2>6. \A u, v \in Thread : op'[u].pc = "add" /\ op'[v].pc = "add" /\ op'[u].a = op'[v].a => u = v
    BY <2>1, <2>2, <2>3, <2>4 DEF IInv, Fresh, AlarmId
  <2>7. \A u \in Thread : op'[u].pc = "add" => op'[u].alarm.state = "outstanding"
    BY <2>1, <2>2 DEF IInv, Fresh
  <2> QED BY <2>5, <2>6, <2>7 DEF Fresh
<1>9. KeyIndexSound' /\ MostCriticalIsMax'
  BY <1>6 DEF IInv, KeyIndexSound, MostCriticalIsMax, Ids
<1> QED BY <1>7, <1>8, <1>9 DEF IInv

\* CreateNewAlarm, the new alarm enters the list: the invariant on identifiers keeps it from
\* overwriting an alarm that is already there.
LEMMA CreateAddStep ==
    ASSUME IInv, NEW t \in Thread, CreateAdd(t)
    PROVE  IInv'
<1> DEFINE a == op[t].a
<1> DEFINE r == op[t].alarm
<1>1. op[t] \in Op /\ op[t].pc = "add"
  BY DEF CreateAdd, IInv, TypeOK
<1>2. a \in AlarmId /\ r \in Alarm
  BY <1>1, OpParts
<1>3. a \in 1..(nextId - 1) /\ a \notin Ids
  BY <1>1, <1>2, BoundAssumption DEF IInv, TypeOK, Fresh, AlarmId
<1> DEFINE new == [pc |-> "link", a |-> a, o |-> r.src, p |-> r.parent,
                   after |-> AfterCreate(r.parent, r.rca)]
<1>4. /\ alarms' = [x \in Ids \cup {a} |-> IF x = a THEN r ELSE alarms[x]]
      /\ keyIndex' = [k \in Key |-> IF k = r.key THEN a ELSE keyIndex[k]]
      /\ sev' = [sev EXCEPT ![r.src] = updateAlarm(@, a, r.severity)]
      /\ op' = [op EXCEPT ![t] = new]
      /\ rcaDue' = rcaDue \/ rcaDue' = rcaDue \cup {a}
      /\ UNCHANGED <<nextId, status, poll, deleted, lock, jobs, rcaNeeded, rcaPossible>>
  BY DEF CreateAdd
<1>5. r.src \in Object /\ r.severity \in Severity /\ r.parent \in AlarmId \cup {0}
  BY <1>2 DEF Alarm
<1>6. new \in Op /\ new.pc = "link"
  BY <1>2, <1>5 DEF Op, AfterCreate, After
<1> HIDE DEF a, r, new
<1>7. Ids' = Ids \cup {a}
  BY <1>4 DEF Ids
<1>8. \A x \in Ids : alarms'[x] = alarms[x]
  BY <1>3, <1>4
<1>9. alarms'[a] = r
  BY <1>4
<1>10. sev' \in [Object -> SeverityTable] /\ MostCriticalIsMax'
  <2>1. sev[r.src] \in SeverityTable /\ TableMax(sev[r.src])
    BY <1>5, SevTable DEF IInv, TypeOK
  <2>2. /\ updateAlarm(sev[r.src], a, r.severity) \in SeverityTable
        /\ TableMax(updateAlarm(sev[r.src], a, r.severity))
    BY <1>2, <1>5, <2>1, UpdateTable
  <2>3. sev' \in [Object -> SeverityTable]
    BY <1>4, <2>2 DEF IInv, TypeOK
  <2>4. \A x \in Object : TableMax(sev'[x])
    BY <1>4, <2>2, SevTable DEF IInv, TypeOK
  <2> QED BY <2>3, <2>4 DEF MostCriticalIsMax, TableMax
<1>11. TypeOK'
  BY <1>2, <1>3, <1>4, <1>6, <1>7, <1>8, <1>9, <1>10 DEF IInv, TypeOK
<1>12. KeyIndexSound'
  BY <1>4, <1>7, <1>8, <1>9 DEF IInv, TypeOK, KeyIndexSound
<1>13. Fresh'
  BY <1>1, <1>4, <1>6, <1>7 DEF IInv, TypeOK, Fresh, a
<1> QED BY <1>10, <1>11, <1>12, <1>13 DEF IInv

\* CreateNewAlarm, the key is known: KeyIndexSound is what makes the alarm found an alarm of
\* the list.
LEMMA CreateUpdateStep ==
    ASSUME IInv, NEW t \in Thread, NEW k \in Key \cup {NoKey}, NEW o \in Object,
           NEW s \in Severity, NEW p \in AlarmId \cup {0}, NEW rca \in BOOLEAN,
           NEW timeout \in BOOLEAN, NEW ackTimeout \in BOOLEAN,
           NEW hd \in HelpdeskState,
           CreateUpdate(t, k, o, s, p, rca, timeout, ackTimeout, hd)
    PROVE  IInv'
<1> DEFINE a == keyIndex[k]
<1> DEFINE r == alarms[a]
<1> DEFINE st == IF r.state = "sticky" THEN r.state ELSE "outstanding"
<1> DEFINE new == updateFromEvent(r, o, s, rca, timeout, ackTimeout, hd)
<1>1. a \in Ids
  BY DEF CreateUpdate, IInv, KeyIndexSound
<1>2. a \in AlarmId /\ r \in Alarm /\ r.src \in Object
  BY <1>1, IdsType DEF IInv
<1>3. new \in Alarm /\ new.key = r.key
  <2> DEFINE at == IF st = "sticky" THEN r.ackTimeout ELSE ackTimeout
  <2> DEFINE h == IF r.hd = "ignored" THEN hd ELSE r.hd
  <2>1. st \in AlarmState /\ h \in HelpdeskState
    BY <1>2 DEF Alarm, AlarmState
  <2>2. at \in BOOLEAN
    BY <1>2 DEF Alarm
  <2>3. new = [r EXCEPT !.src = o, !.severity = s, !.rca = rca, !.timeout = timeout,
                        !.state = st, !.ackTimeout = at, !.hd = h]
    BY <1>2 DEF Alarm, updateFromEvent
  <2> HIDE DEF new, st, at, h, r
  <2> QED BY <1>2, <2>1, <2>2, <2>3 DEF Alarm
<1>4. /\ alarms' = Reparent(a, new, p)
      /\ sev' = [x \in Object |-> IF x = o THEN updateAlarm(sev[x], a, s)
                                  ELSE IF x = r.src THEN removeAlarm(sev[x], a)
                                  ELSE sev[x]]
      /\ Recalculate(t, {r.src, o}, AfterCreate(p, rca), t)
      /\ rcaDue' = rcaDue \/ rcaDue' = rcaDue \cup {a}
      /\ UNCHANGED <<keyIndex, nextId, status, poll, deleted, jobs>>
  BY DEF CreateUpdate
<1> HIDE DEF new, st
<1>5. ListStep
  BY <1>1, <1>3, <1>4, ReparentStep, EditStep
<1>6. {r.src, o} \in SUBSET Object /\ AfterCreate(p, rca) \in After
  BY <1>2 DEF AfterCreate, After
<1>7. /\ OpStep
      /\ lock' \in Thread \cup {NoThread}
      /\ rcaNeeded' \in BOOLEAN /\ rcaPossible' \in BOOLEAN
  BY <1>4, <1>6, RecalculateStep DEF IInv
<1>8. SevType'
  <2>1. \A x \in Object : sev[x] \in SeverityTable /\ TableMax(sev[x])
    BY SevTable DEF IInv, TypeOK
  <2>2. \A x \in Object : sev'[x] \in SeverityTable /\ TableMax(sev'[x])
    BY <1>2, <1>4, <2>1, UpdateTable, RemoveTable
  <2>3. sev' \in [Object -> SeverityTable]
    BY <1>4, <2>2
  <2> QED BY <2>2, <2>3 DEF SevType, MostCriticalIsMax, TableMax
<1>9. RestType'
  BY <1>2, <1>4, <1>7 DEF RestType, IInv, TypeOK
<1> QED BY <1>5, <1>7, <1>8, <1>9, StepPreserves

\* CreateNewAlarm, the parent learns of its subordinate.
LEMMA CreateLinkStep ==
    ASSUME IInv, NEW t \in Thread, CreateLink(t)
    PROVE  IInv'
<1>1. /\ op[t].a \in AlarmId /\ {op[t].o} \in SUBSET Object /\ op[t].after \in After
      /\ lock \in Thread \cup {NoThread}
  BY OpParts DEF CreateLink, IInv, TypeOK
<1>2. /\ OpStep
      /\ lock' \in Thread \cup {NoThread}
      /\ rcaNeeded' \in BOOLEAN /\ rcaPossible' \in BOOLEAN
  BY <1>1, RecalculateStep DEF CreateLink, IInv
<1>3. Ids' = Ids
  BY DEF CreateLink, Ids
<1>4. \A x \in Ids : alarms'[x] \in Alarm /\ alarms'[x].key = alarms[x].key
  BY <1>1 DEF CreateLink, IInv, TypeOK, Alarm
<1>5. ListStep
  BY <1>3, <1>4, EditStep DEF CreateLink
<1>6. SevType'
  BY SevUnchanged DEF CreateLink
<1>7. RestType'
  BY <1>2 DEF CreateLink, RestType, IInv, TypeOK
<1> QED BY <1>2, <1>5, <1>6, <1>7, StepPreserves

\* What a module says leaves the status calculated so far a level.
LEMMA AppliedLevel ==
    ASSUME NEW v \in Level, NEW old \in Level, NEW ms \in Level
    PROVE  ApplyModule(v, old, ms) \in Level
BY DEF ApplyModule, Level

\* A recalculation that has asked the modules goes on with another level.
LEMMA AskedOp ==
    ASSUME NEW x \in Op, x.pc = "commit", NEW w \in Level
    PROVE  /\ [x EXCEPT !.v = w, !.asked = TRUE] \in Op
           /\ [x EXCEPT !.v = w, !.asked = TRUE].pc = "commit"
           /\ [x EXCEPT !.v = w, !.asked = TRUE].after = x.after
<1> DEFINE Commit == [pc : {"commit"}, o : Object, v : Level, asked : BOOLEAN,
                      objs : SUBSET Object, after : After]
<1>1. x \in Commit
  BY DEF Op, Free
<1>2. Commit \subseteq Op
  BY DEF Op
<1> QED BY <1>1, <1>2

\* NetObj::calculateCompoundStatus called by the alarm manager.
LEMMA RecalcStep ==
    ASSUME IInv, NEW t \in Thread,
           \/ RecalcCommit(t) \/ \E o \in Object : RecalcRead(t, o)
           \/ \E ms \in ModuleStatus \cup {-1} : RecalcModules(t, ms)
    PROVE  IInv'
<1>1. ASSUME NEW o \in Object, RecalcRead(t, o) PROVE IInv'
  <2>1. op[t].objs \subseteq Object /\ op[t].after \in After /\ sev[o].mostCritical \in Level
    BY <1>1, OpParts DEF RecalcRead, IInv, TypeOK, SeverityTable
  <2> DEFINE new == [pc |-> "commit", o |-> o, v |-> sev[o].mostCritical, asked |-> FALSE,
                     objs |-> op[t].objs \ {o}, after |-> op[t].after]
  <2>2. new \in Op /\ new.pc # "add"
    BY <2>1 DEF Op
  <2>3. op' = [op EXCEPT ![t] = new]
    BY <1>1 DEF RecalcRead
  <2> HIDE DEF new
  <2>4. OpStep
    BY <2>2, <2>3, OpChanged DEF IInv
  <2>5. RestType'
    BY <1>1 DEF RecalcRead, RestType, IInv, TypeOK, rcaVars
  <2> QED BY <1>1, <2>4, <2>5, ListUnchanged, SevUnchanged, StepPreserves DEF RecalcRead
<1>2. CASE RecalcCommit(t)
  <2>1. /\ op[t].objs \in SUBSET Object /\ op[t].after \in After /\ op[t].v \in Level
        /\ lock \in Thread \cup {NoThread}
    BY <1>2, OpParts DEF RecalcCommit, IInv, TypeOK
  <2>2. /\ OpStep
        /\ lock' \in Thread \cup {NoThread}
        /\ rcaNeeded' \in BOOLEAN /\ rcaPossible' \in BOOLEAN
    BY <1>2, <2>1, RecalculateStep DEF RecalcCommit, IInv
  <2>3. RestType'
    BY <1>2, <2>1, <2>2 DEF RecalcCommit, RestType, IInv, TypeOK
  <2> QED BY <1>2, <2>2, <2>3, ListUnchanged, SevUnchanged, StepPreserves DEF RecalcCommit
<1>3. ASSUME NEW ms \in ModuleStatus \cup {-1}, RecalcModules(t, ms) PROVE IInv'
  <2> DEFINE new == [op[t] EXCEPT !.v = ApplyModule(op[t].v, status[op[t].o], ms),
                                  !.asked = TRUE]
  <2>1. op[t] \in Op /\ op[t].pc = "commit" /\ op' = [op EXCEPT ![t] = new]
    BY <1>3 DEF RecalcModules, IInv, TypeOK
  <2>2. new \in Op /\ new.pc # "add"
    <3>1. op[t].v \in Level /\ status[op[t].o] \in Level /\ ms \in Level
      BY <2>1, OpParts, InputAssumption DEF IInv, TypeOK, Level
    <3>2. ApplyModule(op[t].v, status[op[t].o], ms) \in Level
      BY <3>1, AppliedLevel
    <3> QED BY <2>1, <3>2, AskedOp
  <2> HIDE DEF new
  <2>3. OpStep
    BY <2>1, <2>2, OpChanged DEF IInv
  <2>4. RestType'
    BY <1>3 DEF RecalcModules, RestType, IInv, TypeOK, rcaVars
  <2> QED BY <1>3, <2>3, <2>4, ListUnchanged, SevUnchanged, StepPreserves DEF RecalcModules
<1> QED BY <1>1, <1>2, <1>3

\* NetObj::calculateCompoundStatus called by the status poller.
LEMMA PollStep ==
    ASSUME IInv, NEW o \in Object,
           \/ PollRead(o) \/ PollCommit(o)
           \/ \E ms \in ModuleStatus \cup {-1} : PollModules(o, ms)
    PROVE  IInv'
<1>1. UNCHANGED <<listVars, sev, deleted, lock, op, jobs, rcaVars>>
  BY DEF PollRead, PollModules, PollCommit
<1>2. sev[o].mostCritical \in Level /\ poll \in [Object -> Poll] /\ status \in [Object -> Level]
  BY DEF IInv, TypeOK, SeverityTable
<1>3. status' \in [Object -> Level] /\ poll' \in [Object -> Poll]
  <2>1. CASE PollRead(o)
    BY <1>2, <2>1 DEF PollRead, Poll
  <2>2. CASE PollCommit(o)
    BY <1>2, <2>2 DEF PollCommit, Poll, PollIdle, Level
  <2>3. ASSUME NEW ms \in ModuleStatus \cup {-1}, PollModules(o, ms)
        PROVE  status' \in [Object -> Level] /\ poll' \in [Object -> Poll]
    <3>1. poll[o].v \in Level /\ status[o] \in Level /\ ms \in Level
      <4>1. poll[o] \in Poll /\ status[o] \in Level
        BY <1>2
      <4>2. ms \in Level
        BY InputAssumption DEF Level
      <4> QED BY <4>1, <4>2 DEF Poll
    <3>2. ApplyModule(poll[o].v, status[o], ms) \in Level
      BY <3>1, AppliedLevel
    <3> QED BY <1>2, <2>3, <3>2 DEF PollModules, Poll
  <2> QED BY <2>1, <2>2, <2>3
<1>4. RestType'
  BY <1>1, <1>3 DEF RestType, IInv, TypeOK, rcaVars
<1>5. OpStep
  BY <1>1, OpUnchanged DEF IInv
<1> QED BY <1>1, <1>4, <1>5, ListUnchanged, SevUnchanged, StepPreserves

\* Alarm::acknowledge keeps every alarm well-formed and its key.
LEMMA AcknowledgeStep ==
    ASSUME IInv, NEW a \in Ids, NEW sticky \in BOOLEAN, NEW ackTimeout \in BOOLEAN, NEW cascade,
           acknowledge(a, sticky, ackTimeout, cascade)
    PROVE  /\ Ids' = Ids
           /\ \A x \in Ids : alarms'[x] \in Alarm /\ alarms'[x].key = alarms[x].key
           /\ jobs' \in [AlarmId -> Job]
<1>1. jobs' \in [AlarmId -> Job]
  BY SpawnType DEF acknowledge, IInv
<1>2. Ids' = Ids
  BY DEF acknowledge, Ids
<1>3. \A x \in Ids : alarms'[x] \in Alarm /\ alarms'[x].key = alarms[x].key
  <2> DEFINE st == IF sticky THEN "sticky" ELSE "acknowledged"
  <2>1. st \in AlarmState
    BY DEF AlarmState
  <2>2. /\ \A x \in Ids \ {a} : alarms'[x] = alarms[x]
        /\ alarms'[a] = [alarms[a] EXCEPT !.state = st, !.ackTimeout = ackTimeout]
    BY DEF acknowledge, Ids
  <2> HIDE DEF st
  <2>3. alarms'[a] \in Alarm /\ alarms'[a].key = alarms[a].key
    BY <2>1, <2>2 DEF IInv, TypeOK, Alarm
  <2> QED BY <2>2, <2>3 DEF IInv, TypeOK
<1> QED BY <1>1, <1>2, <1>3

\* The operations that are one critical section.
LEMMA BriefStep ==
    ASSUME IInv, Brief
    PROVE  IInv'
<1> USE DEF IInv
<1>1. ASSUME NEW a \in AlarmId, NEW sticky \in BOOLEAN, NEW ackTimeout \in Timeouts,
             NEW cascade \in Cascades, AckAlarmById(a, sticky, ackTimeout, cascade)
      PROVE  IInv'
  <2>1. a \in Ids /\ ackTimeout \in BOOLEAN
    BY <1>1, InputAssumption DEF AckAlarmById
  <2>2. UNCHANGED <<keyIndex, nextId, sev, status, poll, deleted, lock, op, rcaVars>>
    BY <1>1 DEF AckAlarmById
  <2>3. acknowledge(a, sticky, ackTimeout, cascade)
    BY <1>1 DEF AckAlarmById
  <2>4. /\ Ids' = Ids
        /\ \A x \in Ids : alarms'[x] \in Alarm /\ alarms'[x].key = alarms[x].key
        /\ jobs' \in [AlarmId -> Job]
    BY <2>1, <2>3, AcknowledgeStep
  <2>5. rcaNeeded' \in BOOLEAN /\ rcaPossible' \in BOOLEAN /\ rcaDue' \subseteq AlarmId
    BY <2>2 DEF TypeOK, rcaVars
  <2> QED BY <2>2, <2>4, <2>5, OpUnchanged, EditOnly
<1>2. ASSUME UNCHANGED <<keyIndex, nextId, sev, status, poll, deleted, lock, op, jobs, rcaVars>>,
             Ids' = Ids,
             \A x \in Ids : alarms'[x] \in Alarm /\ alarms'[x].key = alarms[x].key
      PROVE  IInv'
  <2>1. /\ jobs' \in [AlarmId -> Job]
        /\ rcaNeeded' \in BOOLEAN /\ rcaPossible' \in BOOLEAN /\ rcaDue' \subseteq AlarmId
    BY <1>2 DEF TypeOK, rcaVars
  <2> QED BY <1>2, <2>1, OpUnchanged, EditOnly
<1>3. ASSUME NEW a \in Ids, NEW hd \in HelpdeskState, alarms' = [alarms EXCEPT ![a].hd = hd]
      PROVE  /\ Ids' = Ids
             /\ \A x \in Ids : alarms'[x] \in Alarm /\ alarms'[x].key = alarms[x].key
  BY <1>3 DEF TypeOK, Alarm, Ids
<1>4. ASSUME NEW a \in AlarmId, ResolveRefused(a)
      PROVE  IInv'
  <2>1. UNCHANGED <<keyIndex, nextId, sev, status, poll, deleted, lock, op, jobs, rcaVars>>
    BY <1>4 DEF ResolveRefused
  <2>2. CASE a \notin Ids
    <3>1. UNCHANGED alarms
      BY <1>4, <2>2 DEF ResolveRefused
    <3>2. Ids' = Ids /\ \A x \in Ids : alarms'[x] \in Alarm /\ alarms'[x].key = alarms[x].key
      BY <3>1 DEF Ids, TypeOK
    <3> QED BY <2>1, <3>2, <1>2
  <2>3. CASE a \in Ids
    <3>1. PICK hd \in HelpdeskAnswers(a) : alarms' = [alarms EXCEPT ![a].hd = hd]
      BY <1>4, <2>3 DEF ResolveRefused
    <3>2. hd \in HelpdeskState
      BY <2>3 DEF HelpdeskAnswers, HelpdeskState, TypeOK, Alarm
    <3> QED BY <2>1, <2>3, <3>1, <3>2, <1>2, <1>3
  <2> QED BY <2>2, <2>3
<1>5. ASSUME NEW a \in Ids, NEW hd \in HelpdeskState, SetHelpdesk(a, hd)
      PROVE  IInv'
  BY <1>2, <1>3, <1>5 DEF SetHelpdesk
<1>6. ASSUME NEW a \in AlarmId,
             OpenHelpdeskIssue(a) \/ CloseHelpdeskIssue(a) \/ UnlinkHelpdeskIssue(a)
      PROVE  IInv'
  BY <1>5, <1>6 DEF OpenHelpdeskIssue, CloseHelpdeskIssue, UnlinkHelpdeskIssue, HelpdeskState
<1>7. ASSUME NEW a \in AlarmId, OutstandingTimeout(a) \/ AckTimeout(a)
      PROVE  IInv'
  <2>1. /\ a \in Ids
        /\ UNCHANGED <<keyIndex, nextId, sev, status, poll, deleted, lock, op, jobs, rcaVars>>
        /\ \/ alarms' = [alarms EXCEPT ![a].timeout = FALSE]
           \/ alarms' = [alarms EXCEPT ![a].ackTimeout = FALSE, ![a].state = "outstanding"]
    BY <1>7 DEF OutstandingTimeout, AckTimeout
  <2>2. Ids' = Ids
    BY <2>1 DEF Ids
  <2>3. \A x \in Ids : alarms'[x] \in Alarm /\ alarms'[x].key = alarms[x].key
    <3>1. /\ \A x \in Ids \ {a} : alarms'[x] = alarms[x]
          /\ \/ alarms'[a] = [alarms[a] EXCEPT !.timeout = FALSE]
             \/ alarms'[a] = [alarms[a] EXCEPT !.ackTimeout = FALSE, !.state = "outstanding"]
      BY <2>1 DEF Ids
    <3>2. alarms'[a] \in Alarm /\ alarms'[a].key = alarms[a].key
      BY <2>1, <3>1 DEF TypeOK, Alarm, AlarmState
    <3> QED BY <3>1, <3>2 DEF TypeOK
  <2> QED BY <2>1, <2>2, <2>3, <1>2
<1>8. ASSUME NEW o \in Object, DeleteObjectAlarms(o)
      PROVE  IInv'
  <2>1. ListType' /\ Ids' \subseteq Ids
    BY <1>8, RemoveStep DEF DeleteObjectAlarms
  <2>2. ListStep /\ OpStep /\ SevType'
    BY <1>8, <2>1, OpUnchanged, SevUnchanged DEF DeleteObjectAlarms, ListStep
  <2>3. RestType'
    BY <1>8 DEF DeleteObjectAlarms, RestType, TypeOK, rcaVars
  <2> QED BY <2>2, <2>3, StepPreserves
<1> QED BY <1>1, <1>4, <1>6, <1>7, <1>8 DEF Brief

\* A background job acknowledges or resolves one subordinate alarm.
LEMMA JobStep ==
    ASSUME IInv, NEW t \in Thread, NEW a \in AlarmId,
           JobStart(t, a) \/ JobAck(t, a) \/ JobResolve(t, a)
    PROVE  IInv'
<1> USE DEF IInv
<1>1. op[t] \in Op
  BY DEF TypeOK
<1>2. CASE JobStart(t, a)
  <2> DEFINE new == [pc |-> "job", job |-> jobs[a], objs |-> {}]
  <2>1. new \in Op /\ new.pc # "add"
    BY DEF TypeOK, Op
  <2>2. op' = [op EXCEPT ![t] = new]
    BY <1>2 DEF JobStart
  <2> HIDE DEF new
  <2>3. NoJob \in Job
    BY DEF NoJob, Job
  <2>4. RestType'
    BY <1>2, <2>3 DEF JobStart, RestType, TypeOK, rcaVars
  <2>5. OpStep
    BY <2>1, <2>2, OpChanged
  <2> QED BY <1>2, <2>4, <2>5, ListUnchanged, SevUnchanged, StepPreserves DEF JobStart
<1>3. ASSUME op[t].pc = "job"
      PROVE  /\ op[t].job.ids \subseteq AlarmId /\ op[t].job.flag \in BOOLEAN
             /\ op[t].job.ackTimeout \in BOOLEAN /\ op[t].objs \in SUBSET Object
             /\ op[t] \in [pc : {"job"}, job : Job, objs : SUBSET Object]
  BY <1>1, <1>3, OpParts DEF Job
<1>4. ASSUME op[t].pc = "job", NEW O \in SUBSET Object,
             \/ op' = [op EXCEPT ![t].job.ids = @ \ {a}]
             \/ op' = [op EXCEPT ![t].job.ids = @ \ {a}, ![t].objs = @ \cup O]
      PROVE  OpStep
  <2> DEFINE x == [op[t] EXCEPT !.job.ids = @ \ {a}]
  <2> DEFINE y == [op[t] EXCEPT !.job.ids = @ \ {a}, !.objs = @ \cup O]
  <2>1. op' = [op EXCEPT ![t] = x] \/ op' = [op EXCEPT ![t] = y]
    BY <1>4 DEF TypeOK
  <2>2. /\ x \in [pc : {"job"}, job : Job, objs : SUBSET Object]
        /\ y \in [pc : {"job"}, job : Job, objs : SUBSET Object]
    BY <1>3, <1>4 DEF Job
  <2>3. x \in Op /\ y \in Op /\ x.pc # "add" /\ y.pc # "add"
    <3> HIDE DEF x, y
    <3> QED BY <2>2 DEF Op
  <2> HIDE DEF x, y
  <2> QED BY <2>1, <2>3, OpChanged
<1>5. CASE JobAck(t, a)
  <2>1. OpStep
    BY <1>4, <1>5 DEF JobAck
  <2>2. /\ Ids' = Ids
        /\ \A x \in Ids : alarms'[x] \in Alarm /\ alarms'[x].key = alarms[x].key
        /\ jobs' \in [AlarmId -> Job]
    <3>1. CASE UNCHANGED <<alarms, jobs>>
      BY <3>1 DEF Ids, TypeOK
    <3>2. CASE a \in Ids /\ acknowledge(a, op[t].job.flag, op[t].job.ackTimeout, TRUE)
      BY <3>2, <1>3, <1>5, AcknowledgeStep DEF JobAck
    <3> QED BY <1>5, <3>1, <3>2 DEF JobAck
  <2>3. /\ UNCHANGED <<keyIndex, nextId, sev, status, poll, deleted, lock>>
        /\ rcaNeeded' \in BOOLEAN /\ rcaPossible' \in BOOLEAN /\ rcaDue' \subseteq AlarmId
    BY <1>5 DEF JobAck, TypeOK, rcaVars
  <2> QED BY <2>1, <2>2, <2>3, EditOnly
<1>6. CASE JobResolve(t, a)
  <2>1. op[t].pc = "job" /\ UNCHANGED <<nextId, status, poll, deleted, lock, rcaVars>>
    BY <1>6 DEF JobResolve
  <2>2. ASSUME a \in Ids, resolve(a, op[t].job.flag, TRUE),
               op' = [op EXCEPT ![t].job.ids = @ \ {a}, ![t].objs = @ \cup {alarms[a].src}]
        PROVE  IInv'
    <3>1. ListStep /\ SevType' /\ jobs' \in [AlarmId -> Job]
      BY <2>1, <2>2, <1>3, ResolveStep
    <3>2. {alarms[a].src} \in SUBSET Object
      BY <2>2, IdsType
    <3>3. OpStep
      BY <2>1, <2>2, <3>2, <1>4
    <3>4. RestType'
      BY <2>1, <3>1 DEF RestType, TypeOK, rcaVars
    <3> QED BY <3>1, <3>3, <3>4, StepPreserves
  <2>3. ASSUME Ids' = Ids,
               \A x \in Ids : alarms'[x] \in Alarm /\ alarms'[x].key = alarms[x].key,
               op' = [op EXCEPT ![t].job.ids = @ \ {a}], UNCHANGED <<keyIndex, sev, jobs>>
        PROVE  IInv'
    <3>1. OpStep
      BY <2>1, <2>3, <1>4
    <3>2. /\ jobs' \in [AlarmId -> Job]
          /\ rcaNeeded' \in BOOLEAN /\ rcaPossible' \in BOOLEAN /\ rcaDue' \subseteq AlarmId
      BY <2>1, <2>3 DEF TypeOK, rcaVars
    <3> QED BY <2>1, <2>3, <3>1, <3>2, EditOnly
  <2>4. ASSUME a \in Ids, NEW hd \in HelpdeskAnswers(a), alarms' = [alarms EXCEPT ![a].hd = hd]
        PROVE  /\ Ids' = Ids
               /\ \A x \in Ids : alarms'[x] \in Alarm /\ alarms'[x].key = alarms[x].key
    <3>1. hd \in HelpdeskState
      BY <2>4 DEF HelpdeskAnswers, HelpdeskState, TypeOK, Alarm
    <3> QED BY <2>4, <3>1 DEF TypeOK, Alarm, Ids
  <2>5. ASSUME UNCHANGED alarms
        PROVE  /\ Ids' = Ids
               /\ \A x \in Ids : alarms'[x] \in Alarm /\ alarms'[x].key = alarms[x].key
    BY <2>5 DEF TypeOK, Ids
  <2> QED BY <1>6, <2>2, <2>3, <2>4, <2>5 DEF JobResolve
<1> QED BY <1>2, <1>5, <1>6

\* A background job recalculates the status of the objects it touched.
LEMMA JobEndStep ==
    ASSUME IInv, NEW t \in Thread, JobEnd(t)
    PROVE  IInv'
<1> USE DEF IInv
<1>1. op[t] \in [pc : {"job"}, job : Job, objs : SUBSET Object]
  BY OpParts DEF JobEnd, TypeOK
<1>2. op[t].objs \in SUBSET Object /\ "none" \in After /\ lock \in Thread \cup {NoThread}
  BY <1>1 DEF JobEnd, After, TypeOK
<1>3. /\ OpStep
      /\ lock' \in Thread \cup {NoThread}
      /\ rcaNeeded' \in BOOLEAN /\ rcaPossible' \in BOOLEAN
  BY <1>2, RecalculateStep DEF JobEnd
<1>4. RestType'
  BY <1>3 DEF JobEnd, RestType, TypeOK
<1> QED BY <1>3, <1>4, ListUnchanged, SevUnchanged, StepPreserves DEF JobEnd

\* ResolveAlarmByKeyExact, ResolveAlarmByHDRef and DeleteAlarm up to the unlock.
LEMMA ResolveFirstStep ==
    ASSUME IInv, NEW t \in Thread, NEW a \in Ids, NEW terminate \in BOOLEAN,
           ResolveFirst(t, a, terminate)
    PROVE  IInv'
<1> USE DEF IInv
<1> DEFINE new == [pc |-> "drop", a |-> a, o |-> alarms[a].src]
<1>1. new \in Op /\ new.pc # "add"
  BY IdsType DEF Op
<1>2. op' = [op EXCEPT ![t] = new]
  BY DEF ResolveFirst
<1> HIDE DEF new
<1>3. OpStep
  BY <1>1, <1>2, OpChanged
<1>4. ListStep
  <2>1. CASE terminate
    BY <2>1, RemoveStep DEF ResolveFirst, ListStep
  <2>2. CASE ~terminate
    <3>1. alarms' = [alarms EXCEPT ![a] = Resolved(@)] /\ UNCHANGED <<keyIndex, nextId>>
      BY <2>2 DEF ResolveFirst
    <3>2. Ids' = Ids
      BY <3>1 DEF Ids
    <3>3. \A x \in Ids : alarms'[x] \in Alarm /\ alarms'[x].key = alarms[x].key
      BY <3>1, ResolvedType DEF TypeOK, Ids
    <3> QED BY <3>1, <3>2, <3>3, EditStep
  <2> QED BY <2>1, <2>2
<1>5. RestType'
  BY DEF ResolveFirst, RestType, TypeOK, rcaVars
<1> QED BY <1>3, <1>4, <1>5, SevUnchanged, StepPreserves DEF ResolveFirst

\* The same operations after the unlock.
LEMMA DropStep ==
    ASSUME IInv, NEW t \in Thread, DropSeverity(t)
    PROVE  IInv'
<1> USE DEF IInv
<1>1. /\ op[t].a \in AlarmId /\ op[t].o \in Object /\ {op[t].o} \in SUBSET Object
      /\ "none" \in After /\ lock \in Thread \cup {NoThread}
  BY OpParts DEF DropSeverity, TypeOK, After
<1>2. SevType'
  BY <1>1, SevRemoved DEF DropSeverity
<1>3. /\ OpStep
      /\ lock' \in Thread \cup {NoThread}
      /\ rcaNeeded' \in BOOLEAN /\ rcaPossible' \in BOOLEAN
  BY <1>1, RecalculateStep DEF DropSeverity
<1>4. RestType'
  BY <1>3 DEF DropSeverity, RestType, TypeOK
<1> QED BY <1>2, <1>3, <1>4, ListUnchanged, StepPreserves DEF DropSeverity

\* Every operation that resolves, terminates or deletes an alarm.
LEMMA ResolutionStep ==
    ASSUME IInv, NEW t \in Thread,
           \/ Resolution(t)
           \/ \E a \in AlarmId : DeleteAlarm(t, a) \/ ResolveExpired(t, a)
    PROVE  IInv'
<1> USE DEF IInv
<1>1. lock \in Thread \cup {NoThread} /\ t \in Thread \cup {NoThread}
  BY DEF TypeOK
<1>2. \A k \in Key : keyIndex[k] # 0 => keyIndex[k] \in Ids
  BY DEF KeyIndexSound
<1>3. ASSUME NEW terminate \in BOOLEAN, NEW a \in AlarmId, NEW cascade \in Cascades,
             ResolveAlarmById(t, a, terminate, cascade)
      PROVE  IInv'
  BY <1>1, <1>3, ResolveThenRecalculate DEF ResolveAlarmById
<1>4. ASSUME NEW terminate \in BOOLEAN, NEW k \in Key, ResolveAlarmByKeyRegexp(t, k, terminate)
      PROVE  IInv'
  BY <1>1, <1>2, <1>4, ResolveThenRecalculate DEF ResolveAlarmByKeyRegexp
<1>5. ASSUME NEW terminate \in BOOLEAN, NEW a \in AlarmId, ResolveAlarmByDCObjectId(t, a, terminate)
      PROVE  IInv'
  BY <1>1, <1>5, ResolveThenRecalculate DEF ResolveAlarmByDCObjectId
<1>6. ASSUME NEW a \in AlarmId, ResolveExpired(t, a)
      PROVE  IInv'
  BY <1>1, <1>6, ResolveThenRecalculate DEF ResolveExpired
<1>7. ASSUME NEW terminate \in BOOLEAN, NEW k \in Key, ResolveAlarmByKeyExact(t, k, terminate)
      PROVE  IInv'
  BY <1>2, <1>7, ResolveFirstStep DEF ResolveAlarmByKeyExact
<1>8. ASSUME NEW terminate \in BOOLEAN, NEW a \in AlarmId, ResolveAlarmByHDRef(t, a, terminate)
      PROVE  IInv'
  BY <1>8, ResolveFirstStep DEF ResolveAlarmByHDRef
<1>9. ASSUME NEW a \in AlarmId, DeleteAlarm(t, a)
      PROVE  IInv'
  BY <1>9, ResolveFirstStep DEF DeleteAlarm
<1> QED BY <1>3, <1>4, <1>5, <1>6, <1>7, <1>8, <1>9 DEF Resolution

\* A parent that a script comes up with is an alarm identifier, or none.
LEMMA ParentChoiceType ==
    ASSUME TypeOK, NEW a
    PROVE  ParentChoice(a) \subseteq AlarmId \cup {0}
BY BoundAssumption DEF ParentChoice, KnownIds, TypeOK, AlarmId

\* CreateNewAlarm, first critical section.
LEMMA ReportStep ==
    ASSUME IInv, NEW t \in Thread, Report(t)
    PROVE  IInv'
<1>1. PICK k \in Key \cup {NoKey}, o \in Object, s \in Severity, rca \in RcaScripts,
           timeout \in Timeouts, ackTimeout \in Timeouts, hd \in HelpdeskResults :
        \/ \E p \in ParentChoice(nextId) :
              CreateCheck(t, k, o, s, p, rca, timeout, hd)
        \/ \E p \in ParentChoice(IF k = NoKey THEN 0 ELSE keyIndex[k]) :
              CreateUpdate(t, k, o, s, p, rca, timeout, ackTimeout, hd)
  BY DEF Report
<1>2. PICK p \in AlarmId \cup {0} :
        \/ CreateCheck(t, k, o, s, p, rca, timeout, hd)
        \/ CreateUpdate(t, k, o, s, p, rca, timeout, ackTimeout, hd)
  BY <1>1, ParentChoiceType DEF IInv
<1>3. rca \in BOOLEAN /\ timeout \in BOOLEAN /\ ackTimeout \in BOOLEAN
  BY InputAssumption
<1>4. hd \in HelpdeskState
  BY InputAssumption DEF HelpdeskState
<1>5. CASE CreateCheck(t, k, o, s, p, rca, timeout, hd)
  BY <1>3, <1>4, <1>5, CreateCheckStep
<1>6. CASE CreateUpdate(t, k, o, s, p, rca, timeout, ackTimeout, hd)
  BY <1>3, <1>4, <1>6, CreateUpdateStep, ZenonT(40)
<1> QED BY <1>2, <1>5, <1>6

\* RootCauseUpdateThread.
LEMMA RootCauseStep ==
    ASSUME IInv, NEW t \in Thread,
           \/ RcaStart(t) \/ RcaCollect(t) \/ RcaEnd(t)
           \/ \E a \in AlarmId : \E p \in ParentChoice(a) : RcaApply(t, a, p)
    PROVE  IInv'
<1> USE DEF IInv
<1>1. op[t] \in Op
  BY DEF TypeOK
<1>2. CASE RcaStart(t) \/ RcaCollect(t) \/ RcaEnd(t)
  <2> DEFINE found == {a \in Ids : alarms[a].rca /\ alarms[a].parent = 0}
  <2>1. /\ [pc |-> "rcastart"] \in Op /\ Free \in Op /\ Free.pc # "add"
    BY DEF Op, Free
  <2>2. found \in SUBSET AlarmId
    BY IdsType
  <2> HIDE DEF found
  <2>3. [pc |-> "rca", ids |-> found] \in Op
    BY <2>2 DEF Op
  <2>4. PICK x \in Op : x.pc # "add" /\ op' = [op EXCEPT ![t] = x]
    BY <1>2, <2>1, <2>3 DEF RcaStart, RcaCollect, RcaEnd, found
  <2>5. OpStep
    BY <2>4, OpChanged
  <2>6. UNCHANGED <<listVars, sev, status, poll, deleted, lock, jobs, rcaDue>>
    BY <1>2 DEF RcaStart, RcaCollect, RcaEnd, rcaVars
  <2>7. rcaNeeded' \in BOOLEAN /\ rcaPossible' \in BOOLEAN
    BY <1>2 DEF RcaStart, RcaCollect, RcaEnd, rcaVars, TypeOK
  <2>8. RestType'
    BY <2>6, <2>7 DEF RestType, TypeOK
  <2> QED BY <2>5, <2>6, <2>8, ListUnchanged, SevUnchanged, StepPreserves
<1>3. ASSUME NEW a \in AlarmId, NEW p \in AlarmId \cup {0}, RcaApply(t, a, p)
      PROVE  IInv'
  <2>1. op[t] \in [pc : {"rca"}, ids : SUBSET AlarmId]
    BY <1>1, <1>3, OpParts DEF RcaApply
  <2> DEFINE x == [op[t] EXCEPT !.ids = @ \ {a}]
  <2>2. x \in [pc : {"rca"}, ids : SUBSET AlarmId]
    BY <2>1
  <2>3. op' = [op EXCEPT ![t] = x]
    BY <1>3 DEF RcaApply, TypeOK
  <2> HIDE DEF x
  <2>4. x \in Op /\ x.pc # "add"
    BY <2>2 DEF Op
  <2>5. OpStep
    BY <2>3, <2>4, OpChanged
  <2>6. Ids' = Ids /\ \A y \in Ids : alarms'[y] \in Alarm /\ alarms'[y].key = alarms[y].key
    <3>1. CASE UNCHANGED alarms
      BY <3>1 DEF Ids, TypeOK
    <3>2. CASE a \in Ids /\ alarms' = Reparent(a, alarms[a], p)
      BY <3>2, IdsType, ReparentStep
    <3> QED BY <1>3, <3>1, <3>2 DEF RcaApply
  <2>7. UNCHANGED <<keyIndex, nextId, sev, status, poll, deleted, lock, jobs,
                    rcaNeeded, rcaPossible>> /\ rcaDue' \subseteq rcaDue
    BY <1>3 DEF RcaApply
  <2>8. /\ jobs' \in [AlarmId -> Job] /\ rcaDue' \subseteq AlarmId
        /\ rcaNeeded' \in BOOLEAN /\ rcaPossible' \in BOOLEAN
    BY <2>7 DEF TypeOK
  <2> QED BY <2>5, <2>6, <2>7, <2>8, EditOnly
<1> QED BY <1>2, <1>3, ParentChoiceType

\* Every step of the alarm manager preserves the inductive invariant.
THEOREM NextIInv == IInv /\ [Next]_vars => IInv'
<1> SUFFICES ASSUME IInv, [Next]_vars PROVE IInv'
  OBVIOUS
<1>1. ASSUME NEW t \in Thread, Begin(t) PROVE IInv'
  BY <1>1, ReportStep, ResolutionStep, JobStep, RootCauseStep DEF Begin
<1>2. ASSUME NEW t \in Thread, Continue(t) PROVE IInv'
  <2>1. CASE CreateAdd(t) \/ CreateLink(t)
    BY <2>1, CreateAddStep, CreateLinkStep
  <2>2. CASE \/ RecalcCommit(t) \/ \E o \in Object : RecalcRead(t, o)
             \/ \E ms \in ModuleStatus \cup {-1} : RecalcModules(t, ms)
    BY <2>2, RecalcStep
  <2>3. CASE \E a \in AlarmId : JobAck(t, a) \/ JobResolve(t, a)
    BY <2>3, JobStep
  <2>4. CASE JobEnd(t) \/ DropSeverity(t)
    BY <2>4, JobEndStep, DropStep
  <2>5. CASE \/ RcaCollect(t) \/ RcaEnd(t)
             \/ \E a \in AlarmId : \E p \in ParentChoice(a) : RcaApply(t, a, p)
    BY <2>5, RootCauseStep
  <2> QED BY <1>2, <2>1, <2>2, <2>3, <2>4, <2>5 DEF Continue
<1>3. CASE Brief
  BY <1>3, BriefStep
<1>4. ASSUME NEW o \in Object,
             \/ PollRead(o) \/ PollCommit(o)
             \/ \E ms \in ModuleStatus \cup {-1} : PollModules(o, ms)
      PROVE  IInv'
  BY <1>4, PollStep
<1>5. CASE UNCHANGED vars
  <2>1. UNCHANGED <<listVars, sev, op>>
    BY <1>5 DEF vars, listVars
  <2>2. RestType'
    BY <1>5 DEF vars, RestType, IInv, TypeOK
  <2> QED BY <2>1, <2>2, ListUnchanged, OpUnchanged, SevUnchanged, StepPreserves DEF IInv
<1> QED BY <1>1, <1>2, <1>3, <1>4, <1>5 DEF Next

\* The inductive invariant holds in every state the alarm manager can reach.
THEOREM Invariance == Spec => []IInv
BY InitIInv, NextIInv, PTL DEF Spec

\* Every variable keeps its type, and the list holds only alarms that have been issued, for
\* any number of threads, objects, keys and alarms.
THEOREM TypeCorrect == Spec => []TypeOK
<1>1. IInv => TypeOK
  BY DEF IInv
<1> QED BY <1>1, Invariance, PTL

\* The cached most critical severity of every object is the maximum of its table at all
\* times, for any number of threads, objects and alarms.
THEOREM MostCriticalCorrect == Spec => []MostCriticalIsMax
<1>1. IInv => MostCriticalIsMax
  BY DEF IInv
<1> QED BY <1>1, Invariance, PTL

\* The key index never points to an alarm that has been removed and freed, nor to one with
\* another key, although two threads may create alarms with one key at the same time.
THEOREM KeyIndexCorrect == Spec => []KeyIndexSound
<1>1. IInv => KeyIndexSound
  BY DEF IInv
<1> QED BY <1>1, Invariance, PTL

-----------------------------------------------------------------------------
(* No alarm counts against an object's status after it has been resolved or     *)
(* removed (NoGhostSeverity).  Half of the operations clear the severity in the *)
(* critical section that resolves the alarm; the others unlock first, and the   *)
(* proof follows their pending drop.                                            *)

\* A step that completes no pending drop
KeepsDrops == \A t \in Thread : op[t].pc = "drop" => op'[t] = op[t]
\* A step that resolves, moves and removes no unresolved alarm
KeepsAlarms ==
    \A a \in Ids : alarms[a].state # "resolved" =>
        a \in Ids' /\ alarms'[a].src = alarms[a].src /\ alarms'[a].state # "resolved"

\* removeAlarm clears the entry of the alarm and no other.
LEMMA RemovedEntry ==
    ASSUME NEW T \in SeverityTable, NEW a \in AlarmId, NEW x \in AlarmId
    PROVE  removeAlarm(T, a).of[x] = IF x = a THEN -1 ELSE T.of[x]
BY DEF removeAlarm, SeverityTable

\* updateAlarm sets the entry of the alarm and no other.
LEMMA UpdatedEntry ==
    ASSUME NEW T \in SeverityTable, NEW a \in AlarmId, NEW x \in AlarmId, NEW s
    PROVE  updateAlarm(T, a, s).of[x] = IF x = a THEN s ELSE T.of[x]
BY DEF updateAlarm, SeverityTable

\* A thread that begins an operation has no severity left to drop.
LEMMA FreeIsNotDrop == Free.pc # "drop"
BY DEF Free

\* A step that leaves the tables alone, resolves no alarm and completes no pending drop
\* preserves NoGhostSeverity.
LEMMA QuietStep ==
    ASSUME NoGhostSeverity, KeepsDrops, KeepsAlarms, UNCHANGED <<sev, deleted>>
    PROVE  NoGhostSeverity'
BY DEF NoGhostSeverity, KeepsDrops, KeepsAlarms

\* So does a step that clears the entry of the only alarm it resolves or removes.
LEMMA DropEntryStep ==
    ASSUME NoGhostSeverity, IInv, NEW o \in Object, NEW a \in AlarmId,
           sev' = [sev EXCEPT ![o] = removeAlarm(@, a)], UNCHANGED deleted,
           \A t \in Thread : op[t].pc = "drop" => op'[t] = op[t] \/ (op[t].a = a /\ op[t].o = o),
           \A x \in Ids : alarms[x].state # "resolved" =>
               \/ x = a /\ alarms[a].src = o
               \/ x \in Ids' /\ alarms'[x].src = alarms[x].src /\ alarms'[x].state # "resolved"
    PROVE  NoGhostSeverity'
<1>1. \A x \in Object : sev[x] \in SeverityTable
  BY DEF IInv, TypeOK
<1>2. \A x \in Object, y \in AlarmId :
        sev'[x].of[y] = IF x = o /\ y = a THEN -1 ELSE sev[x].of[y]
  <2>1. /\ \A x \in Object \ {o} : sev'[x] = sev[x]
        /\ sev'[o] = removeAlarm(sev[o], a)
    BY DEF IInv, TypeOK
  <2>2. \A y \in AlarmId : sev'[o].of[y] = IF y = a THEN -1 ELSE sev[o].of[y]
    BY <1>1, <2>1, RemovedEntry
  <2> QED BY <2>1, <2>2
<1> SUFFICES ASSUME NEW x \in Object \ deleted, NEW y \in AlarmId, sev'[x].of[y] # -1
             PROVE  \/ y \in Ids' /\ alarms'[y].src = x /\ alarms'[y].state # "resolved"
                    \/ \E t \in Thread : op'[t].pc = "drop" /\ op'[t].a = y /\ op'[t].o = x
  BY DEF NoGhostSeverity
<1>3. ~(x = o /\ y = a) /\ sev[x].of[y] # -1
  BY <1>2
<1>4. CASE y \in Ids /\ alarms[y].src = x /\ alarms[y].state # "resolved"
  BY <1>3, <1>4
<1>5. CASE \E t \in Thread : op[t].pc = "drop" /\ op[t].a = y /\ op[t].o = x
  BY <1>3, <1>5
<1> QED BY <1>3, <1>4, <1>5 DEF NoGhostSeverity

\* Going on to recalculate object status completes no other thread's pending drop.
LEMMA RecalculateKeepsDrops ==
    ASSUME TypeOK, NEW t \in Thread, op[t].pc # "drop", NEW objs, NEW after, NEW holder,
           Recalculate(t, objs, after, holder)
    PROVE  KeepsDrops
BY DEF Recalculate, Finish, KeepsDrops, TypeOK

\* Nor does any other change of one thread's position.
LEMMA GoesOn ==
    ASSUME TypeOK, NEW t \in Thread, op[t].pc # "drop", NEW x, op' = [op EXCEPT ![t] = x]
    PROVE  KeepsDrops
BY DEF KeepsDrops, TypeOK

\* Resolution in one critical section clears the entry together with the alarm.
LEMMA ResolveGhost ==
    ASSUME NoGhostSeverity, IInv, NEW a \in Ids, NEW terminate \in BOOLEAN, NEW cascade,
           resolve(a, terminate, cascade), UNCHANGED deleted, KeepsDrops
    PROVE  NoGhostSeverity'
<1>1. \A x \in Ids \ {a} : x \in Ids' /\ alarms'[x].src = alarms[x].src
                                      /\ alarms'[x].state = alarms[x].state
  <2>1. CASE terminate
    BY <2>1 DEF resolve, remove, Ids, IInv, TypeOK, Alarm
  <2>2. CASE ~terminate
    BY <2>2 DEF resolve, Ids
  <2> QED BY <2>1, <2>2
<1>2. a \in AlarmId /\ alarms[a].src \in Object
  BY IdsType DEF IInv
<1>3. PICK o \in Object : o = alarms[a].src
  BY <1>2
<1>4. sev' = [sev EXCEPT ![o] = removeAlarm(@, a)]
  BY <1>3 DEF resolve
<1>5. \A t \in Thread : op[t].pc = "drop" => op'[t] = op[t] \/ (op[t].a = a /\ op[t].o = o)
  BY DEF KeepsDrops
<1>6. \A x \in Ids : alarms[x].state # "resolved" =>
        \/ x = a /\ alarms[a].src = o
        \/ x \in Ids' /\ alarms'[x].src = alarms[x].src /\ alarms'[x].state # "resolved"
  BY <1>1, <1>3
<1> QED BY <1>2, <1>4, <1>5, <1>6, DropEntryStep

\* Moving an alarm between parents changes no other alarm's source or state.
LEMMA ReparentGhost ==
    ASSUME IInv, NEW a \in Ids, NEW r \in Alarm, NEW p, alarms' = Reparent(a, r, p)
    PROVE  /\ Ids' = Ids
           /\ \A x \in Ids \ {a} : alarms'[x].src = alarms[x].src /\ alarms'[x].state = alarms[x].state
           /\ alarms'[a].src = r.src /\ alarms'[a].state = r.state
<1>1. Ids' = Ids
  BY DEF Reparent, Ids
<1>2. ASSUME NEW x \in Ids
      PROVE  LET y == IF x = a THEN r ELSE alarms[x]
             IN  alarms'[x].src = y.src /\ alarms'[x].state = y.state
  <2> DEFINE y == IF x = a THEN [r EXCEPT !.parent = p] ELSE alarms[x]
  <2> DEFINE z == IF x = a THEN r ELSE alarms[x]
  <2>1. z \in Alarm
    BY DEF IInv, TypeOK
  <2>2. /\ y = z \/ y = [z EXCEPT !.parent = p]
        /\ \/ alarms'[x] = y
           \/ alarms'[x] = [y EXCEPT !.subs = @ \cup {a}]
           \/ alarms'[x] = [y EXCEPT !.subs = @ \ {a}]
    BY DEF Reparent
  <2> HIDE DEF y, z
  <2>3. alarms'[x].src = z.src /\ alarms'[x].state = z.state
    BY <2>1, <2>2 DEF Alarm
  <2> QED BY <2>3 DEF z
<1> QED BY <1>1, <1>2

\* A duplicate event moves the entry with the alarm from the old source to the new one.
LEMMA CreateUpdateGhost ==
    ASSUME NoGhostSeverity, IInv, NEW t \in Thread, NEW k \in Key \cup {NoKey}, NEW o \in Object,
           NEW s \in Severity, NEW p, NEW rca \in BOOLEAN,
           NEW timeout \in BOOLEAN, NEW ackTimeout \in BOOLEAN, NEW hd \in HelpdeskState,
           CreateUpdate(t, k, o, s, p, rca, timeout, ackTimeout, hd)
    PROVE  NoGhostSeverity'
<1> DEFINE a == keyIndex[k]
<1> DEFINE r == alarms[a]
<1> DEFINE st == IF r.state = "sticky" THEN r.state ELSE "outstanding"
<1> DEFINE at == IF st = "sticky" THEN r.ackTimeout ELSE ackTimeout
<1> DEFINE h == IF r.hd = "ignored" THEN hd ELSE r.hd
<1> DEFINE new == [r EXCEPT !.src = o, !.severity = s, !.rca = rca, !.timeout = timeout,
                            !.state = st, !.ackTimeout = at, !.hd = h]
<1>1. a \in Ids
  BY DEF CreateUpdate, IInv, KeyIndexSound
<1>2. a \in AlarmId /\ r \in Alarm /\ r.src \in Object
  BY <1>1, IdsType DEF IInv
<1>3. st \in AlarmState /\ st # "resolved" /\ h \in HelpdeskState
  BY <1>2 DEF Alarm, AlarmState
<1>4. at \in BOOLEAN
  BY <1>2 DEF Alarm
<1>5. /\ alarms' = Reparent(a, new, p)
      /\ sev' = [x \in Object |-> IF x = o THEN updateAlarm(sev[x], a, s)
                                  ELSE IF x = r.src THEN removeAlarm(sev[x], a)
                                  ELSE sev[x]]
      /\ Recalculate(t, {r.src, o}, AfterCreate(p, rca), t)
      /\ UNCHANGED deleted /\ op[t] = Free
  BY <1>2 DEF CreateUpdate, updateFromEvent, Alarm
<1> HIDE DEF st, at, h, r
<1>6. new \in Alarm /\ new.src = o /\ new.state # "resolved"
  BY <1>2, <1>3, <1>4 DEF Alarm
<1> HIDE DEF new
<1>7. /\ Ids' = Ids
      /\ \A x \in Ids \ {a} : alarms'[x].src = alarms[x].src /\ alarms'[x].state = alarms[x].state
      /\ alarms'[a].src = o /\ alarms'[a].state # "resolved"
  BY <1>1, <1>5, <1>6, ReparentGhost
<1>8. KeepsDrops
  BY <1>5, RecalculateKeepsDrops DEF Free, IInv
<1>9. \A x \in Object, y \in AlarmId :
        /\ y # a => sev'[x].of[y] = sev[x].of[y]
        /\ x # o => sev'[x].of[y] = -1 \/ (sev'[x].of[y] = sev[x].of[y] /\ (y = a => x # r.src))
  <2> TAKE x \in Object, y \in AlarmId
  <2>1. sev[x] \in SeverityTable
    BY DEF IInv, TypeOK
  <2>2. CASE x = o
    <3>1. sev'[x] = updateAlarm(sev[x], a, s)
      BY <1>5, <2>2
    <3>2. sev'[x].of[y] = IF y = a THEN s ELSE sev[x].of[y]
      BY <1>2, <2>1, <3>1, UpdatedEntry
    <3> QED BY <2>2, <3>2
  <2>3. CASE x # o /\ x = r.src
    <3>1. sev'[x] = removeAlarm(sev[x], a)
      BY <1>5, <2>3
    <3>2. sev'[x].of[y] = IF y = a THEN -1 ELSE sev[x].of[y]
      BY <1>2, <2>1, <3>1, RemovedEntry
    <3> QED BY <2>3, <3>2
  <2>4. CASE x # o /\ x # r.src
    BY <1>5, <2>4
  <2> QED BY <2>2, <2>3, <2>4
<1>10. ASSUME NEW x \in Object \ deleted, NEW y \in AlarmId, sev'[x].of[y] # -1
       PROVE  \/ y \in Ids' /\ alarms'[y].src = x /\ alarms'[y].state # "resolved"
              \/ \E u \in Thread : op'[u].pc = "drop" /\ op'[u].a = y /\ op'[u].o = x
  <2>1. CASE y # a
    <3>1. sev[x].of[y] # -1
      BY <1>9, <1>10, <2>1
    <3> QED BY <3>1, <2>1, <1>7, <1>8 DEF NoGhostSeverity, KeepsDrops
  <2>2. CASE y = a /\ x = o
    BY <2>2, <1>1, <1>7
  <2>3. CASE y = a /\ x # o
    <3>1. sev[x].of[y] # -1 /\ x # r.src
      BY <1>9, <1>10, <2>3
    <3> QED BY <3>1, <2>3, <1>8 DEF NoGhostSeverity, KeepsDrops, r
  <2> QED BY <2>1, <2>2, <2>3
<1> QED BY <1>5, <1>10 DEF NoGhostSeverity

\* A new alarm is outstanding when its entry is made.
LEMMA CreateAddGhost ==
    ASSUME NoGhostSeverity, IInv, NEW t \in Thread, CreateAdd(t)
    PROVE  NoGhostSeverity'
<1> DEFINE a == op[t].a
<1> DEFINE r == op[t].alarm
<1>1. op[t] \in Op /\ op[t].pc = "add"
  BY DEF CreateAdd, IInv, TypeOK
<1>2. a \in AlarmId /\ r \in Alarm /\ r.src \in Object
  BY <1>1, OpParts DEF Alarm
<1>3. a \notin Ids /\ r.state = "outstanding"
  BY <1>1 DEF IInv, Fresh
<1>4. /\ alarms' = [x \in Ids \cup {a} |-> IF x = a THEN r ELSE alarms[x]]
      /\ sev' = [sev EXCEPT ![r.src] = updateAlarm(@, a, r.severity)]
      /\ UNCHANGED deleted
  BY DEF CreateAdd
<1>5. KeepsDrops
  BY <1>1, GoesOn DEF CreateAdd, IInv
<1> HIDE DEF a, r
<1>6. /\ Ids' = Ids \cup {a} /\ alarms'[a] = r /\ \A x \in Ids : alarms'[x] = alarms[x]
  BY <1>3, <1>4 DEF Ids
<1>7. \A x \in Object, y \in AlarmId : ~(x = r.src /\ y = a) => sev'[x].of[y] = sev[x].of[y]
  <2>1. /\ \A x \in Object \ {r.src} : sev'[x] = sev[x]
        /\ sev'[r.src] = updateAlarm(sev[r.src], a, r.severity)
        /\ sev[r.src] \in SeverityTable
    BY <1>2, <1>4 DEF IInv, TypeOK
  <2>2. \A y \in AlarmId \ {a} : sev'[r.src].of[y] = sev[r.src].of[y]
    BY <1>2, <2>1, UpdatedEntry
  <2> QED BY <2>1, <2>2
<1>8. ASSUME NEW x \in Object \ deleted, NEW y \in AlarmId, sev'[x].of[y] # -1
      PROVE  \/ y \in Ids' /\ alarms'[y].src = x /\ alarms'[y].state # "resolved"
             \/ \E u \in Thread : op'[u].pc = "drop" /\ op'[u].a = y /\ op'[u].o = x
  <2>1. CASE x = r.src /\ y = a
    BY <2>1, <1>3, <1>6
  <2>2. CASE ~(x = r.src /\ y = a)
    BY <2>2, <1>5, <1>6, <1>7, <1>8 DEF NoGhostSeverity, KeepsDrops
  <2> QED BY <2>1, <2>2
<1> QED BY <1>4, <1>8 DEF NoGhostSeverity
\* An operation that unlocks before it clears the entry is recorded as pending.
LEMMA ResolveFirstGhost ==
    ASSUME NoGhostSeverity, IInv, NEW t \in Thread, NEW a \in Ids, NEW terminate \in BOOLEAN,
           ResolveFirst(t, a, terminate)
    PROVE  NoGhostSeverity'
<1>1. \A x \in Ids \ {a} : x \in Ids' /\ alarms'[x].src = alarms[x].src
                                      /\ alarms'[x].state = alarms[x].state
  <2>1. CASE terminate
    BY <2>1 DEF ResolveFirst, remove, Ids, IInv, TypeOK, Alarm
  <2>2. CASE ~terminate
    BY <2>2 DEF ResolveFirst, Ids
  <2> QED BY <2>1, <2>2
<1>2. op'[t].pc = "drop" /\ op'[t].a = a /\ op'[t].o = alarms[a].src
  BY DEF ResolveFirst, IInv, TypeOK
<1>3. KeepsDrops
  <2>1. op[t].pc # "drop"
    BY FreeIsNotDrop DEF ResolveFirst
  <2> QED BY <2>1 DEF ResolveFirst, IInv, TypeOK, KeepsDrops
<1> QED BY <1>1, <1>2, <1>3 DEF ResolveFirst, NoGhostSeverity, KeepsDrops

\* The pending operation clears its own entry.
LEMMA DropGhost ==
    ASSUME NoGhostSeverity, IInv, NEW t \in Thread, DropSeverity(t)
    PROVE  NoGhostSeverity'
<1>1. op[t].a \in AlarmId /\ op[t].o \in Object
  BY OpParts DEF DropSeverity, IInv, TypeOK
<1>2. \A u \in Thread \ {t} : op'[u] = op[u]
  BY DEF DropSeverity, Recalculate, Finish, IInv, TypeOK
<1>3. Ids' = Ids /\ UNCHANGED <<alarms, deleted>>
  BY DEF DropSeverity, listVars, Ids
<1> DEFINE a == op[t].a
<1> DEFINE o == op[t].o
<1>4. sev' = [sev EXCEPT ![o] = removeAlarm(@, a)]
  BY DEF DropSeverity
<1>5. \A u \in Thread : op[u].pc = "drop" => op'[u] = op[u] \/ (op[u].a = a /\ op[u].o = o)
  BY <1>2
<1>6. a \in AlarmId /\ o \in Object
  BY <1>1
<1> HIDE DEF a, o
<1> QED BY <1>3, <1>4, <1>5, <1>6, DropEntryStep

\* Deleting an object removes alarms of that object only.
LEMMA DeleteObjectGhost ==
    ASSUME NoGhostSeverity, IInv, NEW o \in Object, DeleteObjectAlarms(o)
    PROVE  NoGhostSeverity'
<1>1. \A x \in Ids : alarms[x].src # o =>
        x \in Ids' /\ alarms'[x].src = alarms[x].src /\ alarms'[x].state = alarms[x].state
  BY DEF DeleteObjectAlarms, remove, Ids, IInv, TypeOK, Alarm
<1> QED BY <1>1 DEF DeleteObjectAlarms, NoGhostSeverity

\* A step that leaves the alarms alone resolves none.
LEMMA SameAlarms ==
    ASSUME UNCHANGED alarms
    PROVE  KeepsAlarms
BY DEF KeepsAlarms, Ids

\* A change of the helpdesk state resolves no alarm.
LEMMA HelpdeskGhost ==
    ASSUME IInv, NEW a \in Ids, NEW hd, alarms' = [alarms EXCEPT ![a].hd = hd]
    PROVE  KeepsAlarms
BY DEF KeepsAlarms, Ids, IInv, TypeOK, Alarm

\* Alarm::acknowledge resolves no alarm.
LEMMA AcknowledgeGhost ==
    ASSUME IInv, NEW a \in Ids, NEW sticky \in BOOLEAN, NEW ackTimeout, NEW cascade,
           acknowledge(a, sticky, ackTimeout, cascade)
    PROVE  KeepsAlarms
<1> DEFINE st == IF sticky THEN "sticky" ELSE "acknowledged"
<1>1. st # "resolved"
  OBVIOUS
<1>2. /\ Ids' = Ids /\ \A x \in Ids \ {a} : alarms'[x] = alarms[x]
      /\ alarms'[a] = [alarms[a] EXCEPT !.state = st, !.ackTimeout = ackTimeout]
  BY DEF acknowledge, Ids
<1> HIDE DEF st
<1>3. alarms'[a].src = alarms[a].src /\ alarms'[a].state = st
  BY <1>2 DEF IInv, TypeOK, Alarm
<1> QED BY <1>1, <1>2, <1>3 DEF KeepsAlarms

\* The operations that are one critical section.
LEMMA BriefGhost ==
    ASSUME NoGhostSeverity, IInv, Brief
    PROVE  NoGhostSeverity'
<1>1. ASSUME UNCHANGED <<sev, deleted, op>>, KeepsAlarms
      PROVE  NoGhostSeverity'
  BY <1>1, QuietStep DEF KeepsDrops
<1>2. ASSUME NEW a \in AlarmId, NEW sticky \in BOOLEAN, NEW ackTimeout \in Timeouts,
             NEW cascade \in Cascades, AckAlarmById(a, sticky, ackTimeout, cascade)
      PROVE  NoGhostSeverity'
  BY <1>1, <1>2, AcknowledgeGhost DEF AckAlarmById
<1>3. ASSUME NEW a \in AlarmId, ResolveRefused(a)
      PROVE  NoGhostSeverity'
  BY <1>1, <1>3, SameAlarms, HelpdeskGhost DEF ResolveRefused
<1>4. ASSUME NEW a \in AlarmId,
             OpenHelpdeskIssue(a) \/ CloseHelpdeskIssue(a) \/ UnlinkHelpdeskIssue(a)
      PROVE  NoGhostSeverity'
  BY <1>1, <1>4, HelpdeskGhost
     DEF OpenHelpdeskIssue, CloseHelpdeskIssue, UnlinkHelpdeskIssue, SetHelpdesk
<1>5. ASSUME NEW a \in AlarmId, OutstandingTimeout(a) \/ AckTimeout(a)
      PROVE  NoGhostSeverity'
  <2>1. /\ a \in Ids /\ Ids' = Ids /\ UNCHANGED <<sev, deleted, op>>
        /\ \A x \in Ids \ {a} : alarms'[x] = alarms[x]
        /\ \/ alarms'[a] = [alarms[a] EXCEPT !.timeout = FALSE]
           \/ alarms'[a] = [alarms[a] EXCEPT !.ackTimeout = FALSE, !.state = "outstanding"]
    BY <1>5 DEF OutstandingTimeout, AckTimeout, Ids
  <2>2. /\ alarms'[a].src = alarms[a].src
        /\ alarms'[a].state = alarms[a].state \/ alarms'[a].state = "outstanding"
    BY <2>1 DEF IInv, TypeOK, Alarm
  <2>3. KeepsAlarms
    BY <2>1, <2>2 DEF KeepsAlarms
  <2> QED BY <1>1, <2>1, <2>3
<1> QED BY <1>2, <1>3, <1>4, <1>5, DeleteObjectGhost DEF Brief

\* Every operation that resolves, terminates or deletes an alarm.
LEMMA ResolutionGhost ==
    ASSUME NoGhostSeverity, IInv, NEW t \in Thread,
           \/ Resolution(t)
           \/ \E a \in AlarmId : DeleteAlarm(t, a) \/ ResolveExpired(t, a)
    PROVE  NoGhostSeverity'
<1>1. \A k \in Key : keyIndex[k] # 0 => keyIndex[k] \in Ids
  BY DEF IInv, KeyIndexSound
<1>2. ASSUME NEW a \in Ids, NEW terminate \in BOOLEAN, NEW cascade, NEW objs, NEW holder,
             op[t] = Free, resolve(a, terminate, cascade),
             Recalculate(t, objs, "none", holder), UNCHANGED deleted
      PROVE  NoGhostSeverity'
  <2>1. KeepsDrops
    BY <1>2, RecalculateKeepsDrops DEF Free, IInv
  <2> QED BY <1>2, <2>1, ResolveGhost
<1>3. ASSUME NEW terminate \in BOOLEAN, NEW a \in AlarmId, NEW cascade \in Cascades,
             ResolveAlarmById(t, a, terminate, cascade)
      PROVE  NoGhostSeverity'
  BY <1>2, <1>3 DEF ResolveAlarmById
<1>4. ASSUME NEW terminate \in BOOLEAN, NEW k \in Key, ResolveAlarmByKeyRegexp(t, k, terminate)
      PROVE  NoGhostSeverity'
  BY <1>1, <1>2, <1>4 DEF ResolveAlarmByKeyRegexp
<1>5. ASSUME NEW terminate \in BOOLEAN, NEW a \in AlarmId, ResolveAlarmByDCObjectId(t, a, terminate)
      PROVE  NoGhostSeverity'
  BY <1>2, <1>5 DEF ResolveAlarmByDCObjectId
<1>6. ASSUME NEW a \in AlarmId, ResolveExpired(t, a)
      PROVE  NoGhostSeverity'
  BY <1>2, <1>6 DEF ResolveExpired
<1>7. ASSUME NEW terminate \in BOOLEAN, NEW k \in Key, ResolveAlarmByKeyExact(t, k, terminate)
      PROVE  NoGhostSeverity'
  BY <1>1, <1>7, ResolveFirstGhost DEF ResolveAlarmByKeyExact
<1>8. ASSUME NEW terminate \in BOOLEAN, NEW a \in AlarmId, ResolveAlarmByHDRef(t, a, terminate)
      PROVE  NoGhostSeverity'
  BY <1>8, ResolveFirstGhost DEF ResolveAlarmByHDRef
<1>9. ASSUME NEW a \in AlarmId, DeleteAlarm(t, a)
      PROVE  NoGhostSeverity'
  BY <1>9, ResolveFirstGhost DEF DeleteAlarm
<1> QED BY <1>3, <1>4, <1>5, <1>6, <1>7, <1>8, <1>9 DEF Resolution

\* CreateNewAlarm, first critical section.
LEMMA ReportGhost ==
    ASSUME NoGhostSeverity, IInv, NEW t \in Thread, Report(t)
    PROVE  NoGhostSeverity'
<1>1. PICK k \in Key \cup {NoKey}, o \in Object, s \in Severity, rca \in RcaScripts,
           timeout \in Timeouts, ackTimeout \in Timeouts, hd \in HelpdeskResults :
        \/ \E p \in ParentChoice(nextId) :
              CreateCheck(t, k, o, s, p, rca, timeout, hd)
        \/ \E p \in ParentChoice(IF k = NoKey THEN 0 ELSE keyIndex[k]) :
              CreateUpdate(t, k, o, s, p, rca, timeout, ackTimeout, hd)
  BY DEF Report
<1>2. PICK p : \/ CreateCheck(t, k, o, s, p, rca, timeout, hd)
               \/ CreateUpdate(t, k, o, s, p, rca, timeout, ackTimeout, hd)
  BY <1>1
<1>3. rca \in BOOLEAN /\ timeout \in BOOLEAN /\ ackTimeout \in BOOLEAN
  BY InputAssumption
<1>4. hd \in HelpdeskState
  BY InputAssumption DEF HelpdeskState
<1>5. CASE CreateCheck(t, k, o, s, p, rca, timeout, hd)
  <2>1. op[t].pc # "drop" /\ UNCHANGED <<alarms, sev, deleted>>
    BY <1>5 DEF CreateCheck, Free
  <2>2. KeepsDrops
    BY <1>5, <2>1, GoesOn DEF CreateCheck, IInv
  <2> QED BY <2>1, <2>2, SameAlarms, QuietStep
<1>6. CASE CreateUpdate(t, k, o, s, p, rca, timeout, ackTimeout, hd)
  BY <1>3, <1>4, <1>6, CreateUpdateGhost
<1> QED BY <1>2, <1>5, <1>6

\* A background job acknowledges or resolves one subordinate alarm.
LEMMA JobGhost ==
    ASSUME NoGhostSeverity, IInv, NEW t \in Thread, NEW a \in AlarmId,
           JobStart(t, a) \/ JobAck(t, a) \/ JobResolve(t, a)
    PROVE  NoGhostSeverity'
<1>1. op[t] \in Op
  BY DEF IInv, TypeOK
<1>2. op[t].pc # "drop"
  <2>1. op[t] = Free \/ op[t].pc = "job"
    BY DEF JobStart, JobAck, JobResolve
  <2> QED BY <2>1, FreeIsNotDrop
<1>3. CASE JobStart(t, a)
  <2>1. UNCHANGED <<alarms, sev, deleted>>
    BY <1>3 DEF JobStart, listVars
  <2>2. KeepsDrops
    BY <1>2, <1>3, GoesOn DEF JobStart, IInv
  <2> QED BY <2>1, <2>2, SameAlarms, QuietStep
<1>4. CASE JobAck(t, a)
  <2>1. op[t].job.flag \in BOOLEAN
    BY <1>1, <1>4, OpParts DEF JobAck, Job
  <2>2. KeepsAlarms
    BY <1>4, <2>1, AcknowledgeGhost, SameAlarms DEF JobAck
  <2>3. KeepsDrops
    BY <1>2, <1>4 DEF JobAck, IInv, TypeOK, KeepsDrops
  <2> QED BY <1>4, <2>2, <2>3, QuietStep DEF JobAck
<1>5. CASE JobResolve(t, a)
  <2>1. op[t].job.flag \in BOOLEAN
    BY <1>1, <1>5, OpParts DEF JobResolve, Job
  <2>2. KeepsDrops /\ UNCHANGED deleted
    BY <1>2, <1>5 DEF JobResolve, IInv, TypeOK, KeepsDrops
  <2>3. CASE a \in Ids /\ resolve(a, op[t].job.flag, TRUE)
    BY <2>1, <2>2, <2>3, ResolveGhost
  <2>4. CASE UNCHANGED sev /\ KeepsAlarms
    BY <2>2, <2>4, QuietStep
  <2> QED BY <1>5, <2>3, <2>4, SameAlarms, HelpdeskGhost DEF JobResolve
<1> QED BY <1>3, <1>4, <1>5

\* CreateNewAlarm, the parent learns of its subordinate.
LEMMA CreateLinkGhost ==
    ASSUME NoGhostSeverity, IInv, NEW t \in Thread, CreateLink(t)
    PROVE  NoGhostSeverity'
<1>1. KeepsDrops
  BY RecalculateKeepsDrops DEF CreateLink, IInv
<1>2. KeepsAlarms
  BY DEF CreateLink, KeepsAlarms, Ids, IInv, TypeOK, Alarm
<1> QED BY <1>1, <1>2, QuietStep DEF CreateLink

\* NetObj::calculateCompoundStatus called by the alarm manager.
LEMMA RecalcGhost ==
    ASSUME NoGhostSeverity, IInv, NEW t \in Thread,
           \/ RecalcCommit(t) \/ \E o \in Object : RecalcRead(t, o)
           \/ \E ms \in ModuleStatus \cup {-1} : RecalcModules(t, ms)
    PROVE  NoGhostSeverity'
<1>1. UNCHANGED <<alarms, sev, deleted>>
  BY DEF RecalcCommit, RecalcRead, RecalcModules, listVars
<1>2. CASE RecalcCommit(t)
  BY <1>1, <1>2, RecalculateKeepsDrops, SameAlarms, QuietStep DEF RecalcCommit, IInv
<1>3. ASSUME NEW o \in Object, RecalcRead(t, o) PROVE NoGhostSeverity'
  BY <1>1, <1>3, GoesOn, SameAlarms, QuietStep DEF RecalcRead, IInv
<1>4. ASSUME NEW ms, RecalcModules(t, ms) PROVE NoGhostSeverity'
  BY <1>1, <1>4, GoesOn, SameAlarms, QuietStep DEF RecalcModules, IInv
<1> QED BY <1>2, <1>3, <1>4

\* RootCauseUpdateThread.
LEMMA RootCauseGhost ==
    ASSUME NoGhostSeverity, IInv, NEW t \in Thread,
           \/ RcaStart(t) \/ RcaCollect(t) \/ RcaEnd(t)
           \/ \E a \in AlarmId : \E p \in ParentChoice(a) : RcaApply(t, a, p)
    PROVE  NoGhostSeverity'
<1>1. ASSUME NEW x, op' = [op EXCEPT ![t] = x], UNCHANGED <<alarms, sev, deleted>>,
             op[t] = Free \/ op[t].pc \in {"rcastart", "rca"}
      PROVE  NoGhostSeverity'
  <2>1. op[t].pc # "drop"
    BY <1>1, FreeIsNotDrop
  <2> QED BY <1>1, <2>1, GoesOn, SameAlarms, QuietStep DEF IInv
<1>2. CASE RcaStart(t) \/ RcaCollect(t) \/ RcaEnd(t)
  BY <1>1, <1>2 DEF RcaStart, RcaCollect, RcaEnd, listVars
<1>3. ASSUME NEW a \in AlarmId, NEW p, RcaApply(t, a, p)
      PROVE  NoGhostSeverity'
  <2>1. KeepsDrops
    BY <1>3 DEF RcaApply, IInv, TypeOK, KeepsDrops
  <2>2. KeepsAlarms
    <3>1. CASE UNCHANGED alarms
      BY <3>1, SameAlarms
    <3>2. CASE a \in Ids /\ alarms' = Reparent(a, alarms[a], p)
      BY <3>2, IdsType, ReparentGhost DEF IInv, KeepsAlarms
    <3> QED BY <1>3, <3>1, <3>2 DEF RcaApply
  <2> QED BY <1>3, <2>1, <2>2, QuietStep DEF RcaApply
<1> QED BY <1>2, <1>3

\* Every step of the alarm manager preserves NoGhostSeverity.
LEMMA NextGhost == NoGhostSeverity /\ IInv /\ [Next]_vars => NoGhostSeverity'
<1> SUFFICES ASSUME NoGhostSeverity, IInv, [Next]_vars PROVE NoGhostSeverity'
  OBVIOUS
<1>1. ASSUME NEW t \in Thread, Begin(t) PROVE NoGhostSeverity'
  <2>1. CASE Report(t)
    BY <2>1, ReportGhost
  <2>2. CASE Resolution(t) \/ \E a \in AlarmId : DeleteAlarm(t, a) \/ ResolveExpired(t, a)
    BY <2>2, ResolutionGhost
  <2>3. CASE \E a \in AlarmId : JobStart(t, a)
    BY <2>3, JobGhost
  <2>4. CASE RcaStart(t)
    BY <2>4, RootCauseGhost
  <2> QED BY <1>1, <2>1, <2>2, <2>3, <2>4 DEF Begin
<1>2. ASSUME NEW t \in Thread, Continue(t) PROVE NoGhostSeverity'
  <2>1. CASE CreateAdd(t) \/ CreateLink(t)
    BY <2>1, CreateAddGhost, CreateLinkGhost
  <2>2. CASE \/ RecalcCommit(t) \/ \E o \in Object : RecalcRead(t, o)
             \/ \E ms \in ModuleStatus \cup {-1} : RecalcModules(t, ms)
    BY <2>2, RecalcGhost
  <2>3. CASE \E a \in AlarmId : JobAck(t, a) \/ JobResolve(t, a)
    BY <2>3, JobGhost
  <2>4. CASE JobEnd(t)
    <3>1. KeepsDrops
      BY <2>4, RecalculateKeepsDrops DEF JobEnd, IInv
    <3> QED BY <2>4, <3>1, SameAlarms, QuietStep DEF JobEnd, listVars
  <2>5. CASE DropSeverity(t)
    BY <2>5, DropGhost
  <2>6. CASE \/ RcaCollect(t) \/ RcaEnd(t)
             \/ \E a \in AlarmId : \E p \in ParentChoice(a) : RcaApply(t, a, p)
    BY <2>6, RootCauseGhost
  <2> QED BY <1>2, <2>1, <2>2, <2>3, <2>4, <2>5, <2>6 DEF Continue
<1>3. CASE Brief
  BY <1>3, BriefGhost
<1>4. ASSUME UNCHANGED <<alarms, sev, deleted, op>> PROVE NoGhostSeverity'
  BY <1>4, SameAlarms, QuietStep DEF KeepsDrops
<1>5. ASSUME NEW o \in Object,
             \/ PollRead(o) \/ PollCommit(o)
             \/ \E ms \in ModuleStatus \cup {-1} : PollModules(o, ms)
      PROVE  NoGhostSeverity'
  BY <1>4, <1>5 DEF PollRead, PollModules, PollCommit, listVars
<1>6. CASE UNCHANGED vars
  BY <1>4, <1>6 DEF vars
<1> QED BY <1>1, <1>2, <1>3, <1>5, <1>6 DEF Next

\* No alarm counts against an object's status unless it is an unresolved alarm of that object
\* or an operation that has resolved or deleted it is about to drop it, for any number of
\* threads, objects and alarms.
THEOREM NoGhostCorrect == Spec => []NoGhostSeverity
<1>1. Init => NoGhostSeverity
  BY DEF Init, NoGhostSeverity, EmptyTable
<1>2. NoGhostSeverity /\ IInv /\ [Next]_vars => NoGhostSeverity'
  BY NextGhost
<1> QED BY <1>1, <1>2, Invariance, PTL DEF Spec

-----------------------------------------------------------------------------
(* Parents know their subordinates (ParentKnowsSubordinate), and an alarm that  *)
(* waits for its root cause is evaluated (RcaNotForgotten).  A new alarm is     *)
(* linked to its parent after the list is unlocked, while other threads move    *)
(* it to another parent or remove that one: what the proof follows is for which *)
(* parent the link is pending, and that nobody has a parent that is not yet in  *)
(* the list (it would know nothing of its subordinates when it is added).       *)

\* An alarm is among its parent's subordinates, or its link to that parent is pending
Linked ==
    \A a \in Ids : alarms[a].parent \in Ids =>
        \/ a \in alarms[alarms[a].parent].subs
        \/ \E t \in Thread : op[t].pc = "link" /\ op[t].a = a /\ op[t].p = alarms[a].parent

\* A parent is an alarm that has been in the list
ParentsKnown ==
    /\ \A a \in Ids : alarms[a].parent \in KnownIds \cup {0}
    /\ \A t \in Thread : op[t].pc = "add" => op[t].alarm.parent \in KnownIds \cup {0}

\* The root cause thread is asked for, or on its way to alarm a
Asked(a) ==
    \/ rcaNeeded
    \/ \E t \in Thread :
         \/ op[t].pc = "rcastart"
         \/ op[t].pc = "rca" /\ a \in op[t].ids
         \/ op[t].pc \in {"link", "recalc", "commit"} /\ op[t].after = "unfound"

\* The invariant of this part
ParentInv == Linked /\ ParentsKnown /\ RcaNotForgotten

\* A step that adds no alarm, moves none to another parent, and lets a parent forget only
\* subordinates that are removed
KeepsParents ==
    /\ Ids' \subseteq Ids
    /\ \A x \in Ids' : /\ alarms'[x].parent = alarms[x].parent
                       /\ alarms'[x].rca = alarms[x].rca
                       /\ alarms[x].subs \cap Ids' \subseteq alarms'[x].subs

\* A step in which no thread links an alarm or comes to add one
KeepsLinks ==
    \A t \in Thread : /\ op[t].pc = "link" => op'[t] = op[t]
                      /\ op'[t].pc = "add" => op'[t] = op[t]

\* A step after which every waiting alarm is still asked for
KeepsAsked == \A a \in Ids : alarms[a].rca /\ alarms[a].parent = 0 /\ Asked(a) => Asked(a)'

\* A step that does none of the things the invariant is about
KeepsAll == /\ KeepsParents /\ KeepsLinks /\ KeepsAsked
            /\ UNCHANGED <<nextId, rcaDue>>

\* No identifier that was once known is unknown later.
LEMMA KnownGrows ==
    ASSUME IInv, nextId' = nextId \/ nextId' = nextId + 1,
           \A t \in Thread : op'[t].pc = "add" => op'[t] = op[t] \/ op'[t].a = nextId
    PROVE  KnownIds \subseteq KnownIds'
<1>1. nextId \in Nat
  BY BoundAssumption DEF IInv, TypeOK
<1> SUFFICES ASSUME NEW a \in KnownIds PROVE a \in KnownIds'
  OBVIOUS
<1>2. a \in 1..(nextId - 1) /\ \A t \in Thread : ~(op[t].pc = "add" /\ op[t].a = a)
  BY DEF KnownIds
<1>3. a \in 1..(nextId' - 1) /\ a # nextId
  <2>1. a \in Nat /\ 1 <= a /\ a < nextId
    BY <1>1, <1>2
  <2>2. nextId' \in Nat /\ nextId <= nextId'
    BY <1>1
  <2>3. a < nextId' /\ a # nextId
    BY <1>1, <2>1, <2>2
  <2>4. \A n \in Nat : a < n => a \in 1..(n - 1)
    BY <2>1
  <2> QED BY <2>2, <2>3, <2>4
<1>4. \A t \in Thread : ~(op'[t].pc = "add" /\ op'[t].a = a)
  BY <1>2, <1>3
<1> QED BY <1>3, <1>4 DEF KnownIds

\* A step that does none of the things the invariant is about preserves it.
LEMMA KeepsAllStep ==
    ASSUME IInv, ParentInv, KeepsAll
    PROVE  ParentInv'
<1>1. KnownIds \subseteq KnownIds'
  BY KnownGrows DEF KeepsAll, KeepsLinks
<1>2. ParentsKnown'
  BY <1>1 DEF ParentInv, ParentsKnown, KeepsAll, KeepsParents, KeepsLinks
<1>3. Linked'
  <2> SUFFICES ASSUME NEW a \in Ids', alarms'[a].parent \in Ids'
               PROVE  \/ a \in alarms'[alarms'[a].parent].subs
                      \/ \E t \in Thread : op'[t].pc = "link" /\ op'[t].a = a
                                           /\ op'[t].p = alarms'[a].parent
    BY DEF Linked
  <2> DEFINE p == alarms[a].parent
  <2>1. a \in Ids /\ p \in Ids /\ p \in Ids' /\ alarms'[a].parent = p
    BY DEF KeepsAll, KeepsParents
  <2>2. alarms[p].subs \cap Ids' \subseteq alarms'[p].subs
    BY <2>1 DEF KeepsAll, KeepsParents
  <2>3. CASE a \in alarms[p].subs
    BY <2>1, <2>2, <2>3
  <2>4. ASSUME NEW t \in Thread, op[t].pc = "link" /\ op[t].a = a /\ op[t].p = p
        PROVE  op'[t].pc = "link" /\ op'[t].a = a /\ op'[t].p = alarms'[a].parent
    BY <2>1, <2>4 DEF KeepsAll, KeepsLinks
  <2> QED BY <2>1, <2>3, <2>4 DEF ParentInv, Linked
<1>4. RcaNotForgotten'
  <2> SUFFICES ASSUME NEW a \in rcaDue' \cap Ids', alarms'[a].rca, alarms'[a].parent = 0
               PROVE  Asked(a)'
    BY DEF RcaNotForgotten, Asked
  <2>1. a \in rcaDue \cap Ids /\ alarms[a].rca /\ alarms[a].parent = 0
    BY DEF KeepsAll, KeepsParents
  <2>2. Asked(a)
    BY <2>1 DEF ParentInv, RcaNotForgotten, Asked
  <2> QED BY <2>1, <2>2 DEF KeepsAll, KeepsAsked
<1> QED BY <1>2, <1>3, <1>4 DEF ParentInv

\* A step that leaves the alarms alone keeps the parents.
LEMMA SameParents ==
    ASSUME UNCHANGED alarms
    PROVE  KeepsParents
BY DEF KeepsParents, Ids

\* So does one that changes other attributes of one alarm.
LEMMA EditParents ==
    ASSUME NEW a \in Ids, NEW r, alarms' = [alarms EXCEPT ![a] = r],
           r.parent = alarms[a].parent, r.rca = alarms[a].rca, r.subs = alarms[a].subs
    PROVE  KeepsParents
BY DEF KeepsParents, Ids

\* AlarmList::remove takes only removed alarms from the subordinates.
LEMMA RemoveParents ==
    ASSUME IInv, NEW S \in SUBSET Ids, remove(S)
    PROVE  KeepsParents
<1>1. Ids' = Ids \ S
  BY DEF remove, Ids
<1> SUFFICES ASSUME NEW x \in Ids \ S
             PROVE  /\ alarms'[x].parent = alarms[x].parent
                    /\ alarms'[x].rca = alarms[x].rca
                    /\ alarms[x].subs \cap Ids' \subseteq alarms'[x].subs
  BY <1>1 DEF KeepsParents
<1> DEFINE T == {a \in S : alarms[a].parent = x}
<1>2. alarms'[x] = [alarms[x] EXCEPT !.subs = @ \ T]
  BY DEF remove
<1>3. alarms[x] \in Alarm
  BY DEF IInv, TypeOK
<1>4. T \cap Ids' = {}
  BY <1>1
<1> HIDE DEF T
<1>5. /\ alarms'[x].parent = alarms[x].parent
      /\ alarms'[x].rca = alarms[x].rca
      /\ alarms'[x].subs = alarms[x].subs \ T
  BY <1>2, <1>3 DEF Alarm
<1> QED BY <1>4, <1>5

\* Alarm::resolve itself leaves parent and subordinates alone.
LEMMA ResolvedParents ==
    ASSUME IInv, NEW a \in Ids, alarms' = [alarms EXCEPT ![a] = Resolved(@)]
    PROVE  KeepsParents
<1> DEFINE r == Resolved(alarms[a])
<1>1. r.parent = alarms[a].parent /\ r.rca = alarms[a].rca /\ r.subs = alarms[a].subs
  BY DEF Resolved, IInv, TypeOK, Alarm
<1>2. alarms' = [alarms EXCEPT ![a] = r]
  OBVIOUS
<1> HIDE DEF r
<1> QED BY <1>1, <1>2, EditParents

\* Resolution, with or without termination, keeps the parents.
LEMMA ResolveParents ==
    ASSUME IInv, NEW a \in Ids, NEW terminate,
           IF terminate THEN remove({a})
           ELSE alarms' = [alarms EXCEPT ![a] = Resolved(@)] /\ UNCHANGED keyIndex
    PROVE  KeepsParents
BY RemoveParents, ResolvedParents

\* A change of the helpdesk state keeps the parents.
LEMMA HelpdeskParents ==
    ASSUME IInv, NEW a \in Ids, NEW hd, alarms' = [alarms EXCEPT ![a].hd = hd]
    PROVE  KeepsParents
BY EditParents DEF IInv, TypeOK, Alarm

\* Alarm::acknowledge keeps the parents.
LEMMA AcknowledgeParents ==
    ASSUME IInv, NEW a \in Ids, NEW sticky \in BOOLEAN, NEW ackTimeout, NEW cascade,
           acknowledge(a, sticky, ackTimeout, cascade)
    PROVE  KeepsParents
<1> DEFINE st == IF sticky THEN "sticky" ELSE "acknowledged"
<1> DEFINE r == [alarms[a] EXCEPT !.state = st, !.ackTimeout = ackTimeout]
<1>1. alarms' = [alarms EXCEPT ![a] = r]
  BY DEF acknowledge
<1> HIDE DEF st
<1>2. r.parent = alarms[a].parent /\ r.rca = alarms[a].rca /\ r.subs = alarms[a].subs
  BY DEF IInv, TypeOK, Alarm
<1> HIDE DEF r
<1> QED BY <1>1, <1>2, EditParents

\* A change of one thread's position that ends no link and nothing that asks for root cause
\* analysis keeps links and requests.
LEMMA PositionKeeps ==
    ASSUME IInv, NEW t \in Thread, NEW x, op' = [op EXCEPT ![t] = x], UNCHANGED rcaNeeded,
           op[t].pc \notin {"link", "rcastart", "rca"}, x.pc # "add",
           op[t].pc \in {"recalc", "commit"} => x.pc \in {"recalc", "commit"} /\ x.after = op[t].after
    PROVE  KeepsLinks /\ KeepsAsked
<1>1. op'[t] = x /\ \A u \in Thread \ {t} : op'[u] = op[u]
  BY DEF IInv, TypeOK
<1>2. KeepsLinks
  BY <1>1 DEF KeepsLinks
<1>3. ASSUME NEW a, Asked(a) PROVE Asked(a)'
  BY <1>1, <1>3 DEF Asked
<1> QED BY <1>2, <1>3 DEF KeepsAsked

\* Going on to recalculate object status, or finishing, hands on a request for root cause
\* analysis.
LEMMA RecalculateAsks ==
    ASSUME IInv, NEW t \in Thread, NEW objs, NEW after \in After, NEW holder,
           Recalculate(t, objs, after, holder),
           op[t].pc \notin {"rcastart", "rca"},
           op[t].pc \in {"link", "recalc", "commit"} => op[t].after = after
    PROVE  /\ KeepsAsked
           /\ \A u \in Thread \ {t} : op'[u] = op[u]
           /\ op'[t].pc \notin {"add", "link"}
           /\ after = "unfound" => \A a : Asked(a)'
<1> DEFINE objs1 == (objs \cap Managed) \ deleted
<1>1. CASE objs1 = {}
  <2>1. /\ op' = [op EXCEPT ![t] = Free]
        /\ rcaNeeded' = (rcaNeeded \/ after = "unfound")
    BY <1>1 DEF Recalculate, Finish
  <2>2. op'[t] = Free /\ \A u \in Thread \ {t} : op'[u] = op[u]
    BY <2>1 DEF IInv, TypeOK
  <2>3. rcaNeeded => rcaNeeded'
    BY <2>1
  <2>4. after = "unfound" => rcaNeeded'
    BY <2>1
  <2>5. ASSUME NEW a, Asked(a) PROVE Asked(a)'
    BY <2>2, <2>3, <2>4, <2>5 DEF Asked
  <2>6. op'[t].pc \notin {"add", "link"}
    BY <2>2 DEF Free
  <2> QED BY <2>2, <2>4, <2>5, <2>6 DEF KeepsAsked, Asked
<1>2. CASE objs1 # {}
  <2>1. /\ op' = [op EXCEPT ![t] = [pc |-> "recalc", objs |-> objs1, after |-> after]]
        /\ UNCHANGED rcaNeeded
    BY <1>2 DEF Recalculate
  <2>2. /\ op'[t].pc = "recalc" /\ op'[t].after = after
        /\ \A u \in Thread \ {t} : op'[u] = op[u]
    BY <2>1 DEF IInv, TypeOK
  <2>3. ASSUME NEW a, Asked(a) PROVE Asked(a)'
    BY <2>1, <2>2, <2>3 DEF Asked
  <2>4. after = "unfound" => \A a : Asked(a)'
    BY <2>2 DEF Asked
  <2> QED BY <2>2, <2>3, <2>4 DEF KeepsAsked
<1> QED BY <1>1, <1>2

\* So an operation that began without a link and ends in a recalculation keeps everything
\* that the invariant is about, if it keeps the parents.
LEMMA EndKeeps ==
    ASSUME IInv, NEW t \in Thread, NEW objs, NEW after \in After, NEW holder,
           Recalculate(t, objs, after, holder), KeepsParents, UNCHANGED <<nextId, rcaDue>>,
           op[t].pc \notin {"link", "rcastart", "rca"},
           op[t].pc \in {"recalc", "commit"} => op[t].after = after
    PROVE  KeepsAll
<1>1. /\ KeepsAsked
      /\ \A u \in Thread \ {t} : op'[u] = op[u]
      /\ op'[t].pc \notin {"add", "link"}
  BY RecalculateAsks
<1>2. KeepsLinks
  BY <1>1 DEF KeepsLinks
<1> QED BY <1>1, <1>2 DEF KeepsAll

\* The operations that are one critical section.
LEMMA BriefKeeps ==
    ASSUME IInv, Brief
    PROVE  KeepsAll
<1>1. ASSUME UNCHANGED <<op, rcaVars, nextId>>, KeepsParents
      PROVE  KeepsAll
  BY <1>1 DEF KeepsAll, KeepsLinks, KeepsAsked, Asked, rcaVars
<1>2. ASSUME NEW a \in AlarmId, NEW sticky \in BOOLEAN, NEW ackTimeout \in Timeouts,
             NEW cascade \in Cascades, AckAlarmById(a, sticky, ackTimeout, cascade)
      PROVE  KeepsAll
  BY <1>1, <1>2, AcknowledgeParents DEF AckAlarmById
<1>3. ASSUME NEW a \in AlarmId, ResolveRefused(a)
      PROVE  KeepsAll
  BY <1>1, <1>3, SameParents, HelpdeskParents DEF ResolveRefused
<1>4. ASSUME NEW a \in AlarmId,
             OpenHelpdeskIssue(a) \/ CloseHelpdeskIssue(a) \/ UnlinkHelpdeskIssue(a)
      PROVE  KeepsAll
  BY <1>1, <1>4, HelpdeskParents
     DEF OpenHelpdeskIssue, CloseHelpdeskIssue, UnlinkHelpdeskIssue, SetHelpdesk
<1>5. ASSUME NEW a \in AlarmId, OutstandingTimeout(a) \/ AckTimeout(a)
      PROVE  KeepsAll
  <2>1. PICK r : /\ \/ r = [alarms[a] EXCEPT !.timeout = FALSE]
                    \/ r = [alarms[a] EXCEPT !.ackTimeout = FALSE, !.state = "outstanding"]
                 /\ alarms' = [alarms EXCEPT ![a] = r]
    BY <1>5 DEF OutstandingTimeout, AckTimeout
  <2>2. a \in Ids /\ UNCHANGED <<op, rcaVars, nextId>>
    BY <1>5 DEF OutstandingTimeout, AckTimeout
  <2>3. r.parent = alarms[a].parent /\ r.rca = alarms[a].rca /\ r.subs = alarms[a].subs
    BY <2>1, <2>2 DEF IInv, TypeOK, Alarm
  <2> QED BY <1>1, <2>1, <2>2, <2>3, EditParents
<1>6. ASSUME NEW o \in Object, DeleteObjectAlarms(o)
      PROVE  KeepsAll
  BY <1>1, <1>6, RemoveParents DEF DeleteObjectAlarms
<1> QED BY <1>2, <1>3, <1>4, <1>5, <1>6 DEF Brief

\* Every operation that resolves, terminates or deletes an alarm.
LEMMA ResolutionKeeps ==
    ASSUME IInv, NEW t \in Thread,
           \/ Resolution(t)
           \/ \E a \in AlarmId : DeleteAlarm(t, a) \/ ResolveExpired(t, a)
    PROVE  KeepsAll
<1>1. \A k \in Key : keyIndex[k] # 0 => keyIndex[k] \in Ids
  BY DEF IInv, KeyIndexSound
<1>2. "none" \in After /\ Free.pc = "idle"
  BY DEF After, Free
<1>3. ASSUME NEW a \in Ids, NEW terminate \in BOOLEAN, NEW cascade, NEW objs, NEW holder,
             op[t] = Free, resolve(a, terminate, cascade),
             Recalculate(t, objs, "none", holder), UNCHANGED <<nextId, rcaDue>>
      PROVE  KeepsAll
  <2>1. KeepsParents
    BY <1>3, ResolveParents DEF resolve
  <2> QED BY <1>2, <1>3, <2>1, EndKeeps
<1>4. ASSUME NEW a \in Ids, NEW terminate \in BOOLEAN, ResolveFirst(t, a, terminate)
      PROVE  KeepsAll
  <2>1. KeepsParents
    BY <1>4, ResolveParents DEF ResolveFirst
  <2>2. UNCHANGED <<nextId, rcaNeeded, rcaDue>>
    BY <1>4 DEF ResolveFirst, rcaVars
  <2> DEFINE x == [pc |-> "drop", a |-> a, o |-> alarms[a].src]
  <2>3. op[t] = Free /\ op' = [op EXCEPT ![t] = x]
    BY <1>4 DEF ResolveFirst
  <2>4. op[t].pc = "idle" /\ x.pc = "drop"
    BY <1>2, <2>3
  <2> HIDE DEF x
  <2>5. KeepsLinks /\ KeepsAsked
    BY <2>2, <2>3, <2>4, PositionKeeps
  <2> QED BY <2>1, <2>2, <2>5 DEF KeepsAll
<1>5. ASSUME NEW terminate \in BOOLEAN, NEW a \in AlarmId, NEW cascade \in Cascades,
             ResolveAlarmById(t, a, terminate, cascade)
      PROVE  KeepsAll
  BY <1>3, <1>5 DEF ResolveAlarmById
<1>6. ASSUME NEW terminate \in BOOLEAN, NEW k \in Key, ResolveAlarmByKeyRegexp(t, k, terminate)
      PROVE  KeepsAll
  BY <1>1, <1>3, <1>6 DEF ResolveAlarmByKeyRegexp
<1>7. ASSUME NEW terminate \in BOOLEAN, NEW a \in AlarmId, ResolveAlarmByDCObjectId(t, a, terminate)
      PROVE  KeepsAll
  BY <1>3, <1>7 DEF ResolveAlarmByDCObjectId
<1>8. ASSUME NEW a \in AlarmId, ResolveExpired(t, a)
      PROVE  KeepsAll
  BY <1>3, <1>8 DEF ResolveExpired
<1>9. ASSUME NEW terminate \in BOOLEAN, NEW k \in Key, ResolveAlarmByKeyExact(t, k, terminate)
      PROVE  KeepsAll
  BY <1>1, <1>4, <1>9 DEF ResolveAlarmByKeyExact
<1>10. ASSUME NEW terminate \in BOOLEAN, NEW a \in AlarmId, ResolveAlarmByHDRef(t, a, terminate)
       PROVE  KeepsAll
  BY <1>4, <1>10 DEF ResolveAlarmByHDRef
<1>11. ASSUME NEW a \in AlarmId, DeleteAlarm(t, a)
       PROVE  KeepsAll
  BY <1>4, <1>11 DEF DeleteAlarm
<1> QED BY <1>5, <1>6, <1>7, <1>8, <1>9, <1>10, <1>11 DEF Resolution

\* A background job acknowledges or resolves one subordinate alarm.
LEMMA JobKeeps ==
    ASSUME IInv, NEW t \in Thread, NEW a \in AlarmId,
           JobStart(t, a) \/ JobAck(t, a) \/ JobResolve(t, a)
    PROVE  KeepsAll
<1>1. op[t] \in Op /\ UNCHANGED <<nextId, rcaNeeded, rcaDue>>
  BY DEF IInv, TypeOK, JobStart, JobAck, JobResolve, listVars, rcaVars
<1>2. op[t].pc \in {"idle", "job"}
  <2>1. op[t] = Free \/ op[t].pc = "job"
    BY DEF JobStart, JobAck, JobResolve
  <2> QED BY <2>1 DEF Free
<1>3. \E x : op' = [op EXCEPT ![t] = x] /\ x.pc = "job"
  <2>1. CASE JobStart(t, a)
    <3> DEFINE x == [pc |-> "job", job |-> jobs[a], objs |-> {}]
    <3>1. op' = [op EXCEPT ![t] = x] /\ x.pc = "job"
      BY <2>1 DEF JobStart
    <3> QED BY <3>1
  <2>2. CASE JobAck(t, a) \/ JobResolve(t, a)
    <3>1. op[t] \in [pc : {"job"}, job : Job, objs : SUBSET Object]
      BY <1>1, <2>2, OpParts DEF JobAck, JobResolve
    <3>2. PICK x : op' = [op EXCEPT ![t] = x] /\
                   \/ x = [op[t] EXCEPT !.job.ids = @ \ {a}]
                   \/ x = [op[t] EXCEPT !.job.ids = @ \ {a}, !.objs = @ \cup {alarms[a].src}]
      BY <2>2 DEF JobAck, JobResolve
    <3>3. x.pc = "job"
      BY <3>1, <3>2
    <3> QED BY <3>2, <3>3
  <2> QED BY <2>1, <2>2
<1>4. KeepsLinks /\ KeepsAsked
  BY <1>1, <1>2, <1>3, PositionKeeps
<1>5. KeepsParents
  <2>1. CASE JobStart(t, a)
    BY <2>1, SameParents DEF JobStart, listVars
  <2>2. CASE JobAck(t, a)
    <3>1. op[t].job.flag \in BOOLEAN
      BY <1>1, <2>2, OpParts DEF JobAck, Job
    <3> QED BY <2>2, <3>1, AcknowledgeParents, SameParents DEF JobAck
  <2>3. CASE JobResolve(t, a)
    BY <2>3, ResolveParents, HelpdeskParents, SameParents DEF JobResolve, resolve
  <2> QED BY <2>1, <2>2, <2>3
<1> QED BY <1>1, <1>4, <1>5 DEF KeepsAll

\* The steps that end an operation or recalculate object status.
LEMMA TailKeeps ==
    ASSUME IInv, NEW t \in Thread,
           \/ JobEnd(t) \/ DropSeverity(t) \/ RecalcCommit(t)
           \/ \E o \in Object : RecalcRead(t, o)
           \/ \E ms \in ModuleStatus \cup {-1} : RecalcModules(t, ms)
    PROVE  KeepsAll
<1>1. KeepsParents /\ UNCHANGED <<nextId, rcaDue>>
  BY SameParents DEF JobEnd, DropSeverity, RecalcCommit, RecalcRead, RecalcModules,
                        listVars, rcaVars
<1>2. "none" \in After /\ op[t] \in Op
  BY DEF After, IInv, TypeOK
<1>3. CASE JobEnd(t)
  BY <1>1, <1>2, <1>3, EndKeeps DEF JobEnd
<1>4. CASE DropSeverity(t)
  BY <1>1, <1>2, <1>4, EndKeeps DEF DropSeverity
<1>5. CASE RecalcCommit(t)
  <2>1. op[t].after \in After
    BY <1>2, <1>5, OpParts DEF RecalcCommit
  <2> QED BY <1>1, <1>5, <2>1, EndKeeps DEF RecalcCommit
<1>6. ASSUME NEW o \in Object, RecalcRead(t, o) PROVE KeepsAll
  <2> DEFINE x == [pc |-> "commit", o |-> o, v |-> sev[o].mostCritical, asked |-> FALSE,
                   objs |-> op[t].objs \ {o}, after |-> op[t].after]
  <2>1. op[t].pc = "recalc" /\ op' = [op EXCEPT ![t] = x] /\ UNCHANGED rcaNeeded
    BY <1>6 DEF RecalcRead, rcaVars
  <2>2. x.pc = "commit" /\ x.after = op[t].after
    OBVIOUS
  <2> HIDE DEF x
  <2>3. KeepsLinks /\ KeepsAsked
    BY <2>1, <2>2, PositionKeeps
  <2> QED BY <1>1, <2>3 DEF KeepsAll
<1>7. ASSUME NEW ms \in ModuleStatus \cup {-1}, RecalcModules(t, ms) PROVE KeepsAll
  <2> DEFINE x == [op[t] EXCEPT !.v = ApplyModule(op[t].v, status[op[t].o], ms),
                                !.asked = TRUE]
  <2>1. op[t].pc = "commit" /\ op' = [op EXCEPT ![t] = x] /\ UNCHANGED rcaNeeded
    BY <1>7 DEF RecalcModules, IInv, TypeOK, rcaVars
  <2>2. x.pc = "commit" /\ x.after = op[t].after
    <3>1. op[t].v \in Level /\ status[op[t].o] \in Level /\ ms \in Level
      BY <1>2, <2>1, OpParts, InputAssumption DEF IInv, TypeOK, Level
    <3> QED BY <1>2, <2>1, <3>1, AppliedLevel, AskedOp
  <2> HIDE DEF x
  <2>3. KeepsLinks /\ KeepsAsked
    BY <2>1, <2>2, PositionKeeps
  <2> QED BY <1>1, <2>3 DEF KeepsAll
<1> QED BY <1>3, <1>4, <1>5, <1>6, <1>7

\* RootCauseUpdateThread, but for the alarms that it moves: the requests that it takes over
\* are those it has collected.
LEMMA RootCauseKeeps ==
    ASSUME IInv, NEW t \in Thread, RcaStart(t) \/ RcaCollect(t) \/ RcaEnd(t)
    PROVE  KeepsAll
<1>1. KeepsParents /\ UNCHANGED <<nextId, rcaDue>>
  BY SameParents DEF RcaStart, RcaCollect, RcaEnd, listVars, rcaVars
<1>2. CASE RcaStart(t)
  <2>1. op[t].pc # "link"
    BY <1>2 DEF RcaStart, Free
  <2>2. op'[t].pc = "rcastart" /\ \A u \in Thread \ {t} : op'[u] = op[u]
    BY <1>2 DEF RcaStart, IInv, TypeOK
  <2>3. KeepsLinks
    BY <2>1, <2>2 DEF KeepsLinks
  <2>4. KeepsAsked
    BY <2>2 DEF KeepsAsked, Asked
  <2> QED BY <1>1, <2>3, <2>4 DEF KeepsAll
<1>3. CASE RcaCollect(t)
  <2> DEFINE S == {a \in Ids : alarms[a].rca /\ alarms[a].parent = 0}
  <2>1. /\ op'[t].pc = "rca" /\ op'[t].ids = S /\ op[t].pc = "rcastart"
        /\ \A u \in Thread \ {t} : op'[u] = op[u]
    BY <1>3 DEF RcaCollect, IInv, TypeOK
  <2>2. KeepsLinks
    BY <2>1 DEF KeepsLinks
  <2>3. KeepsAsked
    <3>1. ASSUME NEW a \in Ids, alarms[a].rca /\ alarms[a].parent = 0 PROVE a \in op'[t].ids
      BY <2>1, <3>1
    <3> QED BY <2>1, <3>1 DEF KeepsAsked, Asked
  <2> QED BY <1>1, <2>2, <2>3 DEF KeepsAll
<1>4. CASE RcaEnd(t)
  <2>1. /\ op[t].pc = "rca" /\ op[t].ids = {} /\ op'[t] = Free
        /\ UNCHANGED rcaNeeded /\ \A u \in Thread \ {t} : op'[u] = op[u]
    BY <1>4 DEF RcaEnd, IInv, TypeOK, rcaVars
  <2>2. KeepsLinks
    BY <2>1 DEF KeepsLinks, Free
  <2>3. ASSUME NEW a, Asked(a) PROVE Asked(a)'
    BY <2>1, <2>3 DEF Asked
  <2> QED BY <1>1, <2>2, <2>3 DEF KeepsAll, KeepsAsked
<1> QED BY <1>2, <1>3, <1>4

\* Moving alarm a to parent p: the others keep their parent and their subordinates, and the
\* new parent learns of a.
LEMMA ReparentLinks ==
    ASSUME IInv, NEW a \in Ids, NEW r \in Alarm, NEW p, r.subs = alarms[a].subs,
           alarms' = Reparent(a, r, p)
    PROVE  /\ Ids' = Ids
           /\ alarms'[a].parent = p /\ alarms'[a].rca = r.rca
           /\ \A x \in Ids \ {a} : /\ alarms'[x].parent = alarms[x].parent
                                   /\ alarms'[x].rca = alarms[x].rca
           /\ \A x \in Ids : alarms[x].subs \ {a} \subseteq alarms'[x].subs
           /\ p \in Ids => IF alarms[a].parent = p THEN alarms[p].subs \subseteq alarms'[p].subs
                           ELSE a \in alarms'[p].subs
<1>1. Ids' = Ids
  BY DEF Reparent, Ids
<1>2. ASSUME NEW x \in Ids
      PROVE  /\ alarms'[x].parent = IF x = a THEN p ELSE alarms[x].parent
             /\ alarms'[x].rca = IF x = a THEN r.rca ELSE alarms[x].rca
             /\ alarms[x].subs \ {a} \subseteq alarms'[x].subs
             /\ alarms[a].parent = p => alarms[x].subs \subseteq alarms'[x].subs
             /\ alarms[a].parent # p /\ x = p => a \in alarms'[x].subs
  <2> DEFINE y == IF x = a THEN [r EXCEPT !.parent = p] ELSE alarms[x]
  <2>1. PICK z \in Alarm : z = IF x = a THEN r ELSE alarms[x]
    BY DEF IInv, TypeOK
  <2>2. y = IF x = a THEN [z EXCEPT !.parent = p] ELSE z
    BY <2>1
  <2>3. z.subs = alarms[x].subs /\ z.rca = IF x = a THEN r.rca ELSE alarms[x].rca
    BY <2>1
  <2>4. x # a => z.parent = alarms[x].parent
    BY <2>1
  <2>5. alarms'[x] = IF alarms[a].parent = p THEN y
                     ELSE IF x = p THEN [y EXCEPT !.subs = @ \cup {a}]
                     ELSE IF x = alarms[a].parent THEN [y EXCEPT !.subs = @ \ {a}]
                     ELSE y
    BY DEF Reparent
  <2> HIDE DEF y
  <2>6. PICK q : /\ y.parent = q /\ y.subs = z.subs /\ y.rca = z.rca
                 /\ q = IF x = a THEN p ELSE z.parent
                 /\ y = [z EXCEPT !.parent = q]
    BY <2>2 DEF Alarm
  <2>7. \A T : [y EXCEPT !.subs = T].parent = q /\ [y EXCEPT !.subs = T].rca = z.rca
                                                 /\ [y EXCEPT !.subs = T].subs = T
    BY <2>6 DEF Alarm
  <2>8. alarms'[x].parent = q /\ alarms'[x].rca = z.rca
    BY <2>5, <2>6, <2>7
  <2>9. alarms'[x].subs = IF alarms[a].parent = p THEN z.subs
                           ELSE IF x = p THEN z.subs \cup {a}
                           ELSE IF x = alarms[a].parent THEN z.subs \ {a}
                           ELSE z.subs
    BY <2>5, <2>6, <2>7
  <2>10. /\ alarms[x].subs \ {a} \subseteq alarms'[x].subs
         /\ alarms[a].parent = p => alarms[x].subs \subseteq alarms'[x].subs
         /\ alarms[a].parent # p /\ x = p => a \in alarms'[x].subs
    BY <2>3, <2>9
  <2>11. /\ alarms'[x].parent = IF x = a THEN p ELSE alarms[x].parent
         /\ alarms'[x].rca = IF x = a THEN r.rca ELSE alarms[x].rca
    BY <2>3, <2>4, <2>6, <2>8
  <2> QED BY <2>10, <2>11
<1> QED BY <1>1, <1>2

\* A step that moves alarm a to a known parent, and ends no link, preserves that every alarm
\* is linked.
LEMMA MoveStep ==
    ASSUME IInv, ParentInv, NEW a \in Ids, NEW r \in Alarm, NEW p \in KnownIds \cup {0},
           r.subs = alarms[a].subs, alarms' = Reparent(a, r, p), KeepsLinks, UNCHANGED nextId
    PROVE  Linked' /\ ParentsKnown'
<1>1. /\ Ids' = Ids
      /\ alarms'[a].parent = p
      /\ \A x \in Ids \ {a} : alarms'[x].parent = alarms[x].parent
      /\ \A x \in Ids : alarms[x].subs \ {a} \subseteq alarms'[x].subs
      /\ p \in Ids => IF alarms[a].parent = p THEN alarms[p].subs \subseteq alarms'[p].subs
                      ELSE a \in alarms'[p].subs
  BY ReparentLinks
<1>2. KnownIds \subseteq KnownIds'
  BY KnownGrows DEF KeepsLinks
<1>3. ParentsKnown'
  <2>1. ASSUME NEW x \in Ids PROVE alarms'[x].parent \in KnownIds' \cup {0}
    BY <1>1, <1>2 DEF ParentInv, ParentsKnown
  <2>2. ASSUME NEW t \in Thread, op'[t].pc = "add"
        PROVE  op'[t].alarm.parent \in KnownIds' \cup {0}
    BY <1>2, <2>2 DEF ParentInv, ParentsKnown, KeepsLinks
  <2> QED BY <1>1, <2>1, <2>2 DEF ParentsKnown
<1>4. Linked'
  <2> SUFFICES ASSUME NEW x \in Ids, alarms'[x].parent \in Ids
               PROVE  \/ x \in alarms'[alarms'[x].parent].subs
                      \/ \E t \in Thread : op'[t].pc = "link" /\ op'[t].a = x
                                           /\ op'[t].p = alarms'[x].parent
    BY <1>1 DEF Linked
  <2>1. ASSUME alarms'[x].parent = alarms[x].parent
        PROVE  \/ x \in alarms[alarms'[x].parent].subs
               \/ \E t \in Thread : op'[t].pc = "link" /\ op'[t].a = x
                                    /\ op'[t].p = alarms'[x].parent
    BY <2>1 DEF ParentInv, Linked, KeepsLinks
  <2>2. CASE x # a
    BY <1>1, <2>1, <2>2
  <2>3. CASE x = a /\ alarms[a].parent = p
    BY <1>1, <2>1, <2>3
  <2>4. CASE x = a /\ alarms[a].parent # p
    BY <1>1, <2>4
  <2> QED BY <2>2, <2>3, <2>4
<1> QED BY <1>3, <1>4

\* An alarm reported without its root cause is due only while somebody asks for it.
LEMMA RcaStep ==
    ASSUME ParentInv,
           \A a \in Ids' \cap rcaDue' : alarms'[a].rca /\ alarms'[a].parent = 0 =>
               \/ Asked(a)'
               \/ /\ a \in Ids \cap rcaDue /\ alarms[a].rca /\ alarms[a].parent = 0
                  /\ Asked(a) => Asked(a)'
    PROVE  RcaNotForgotten'
<1> SUFFICES ASSUME NEW a \in rcaDue' \cap Ids', alarms'[a].rca, alarms'[a].parent = 0
             PROVE  Asked(a)'
  BY DEF RcaNotForgotten, Asked
<1>1. ASSUME a \in Ids \cap rcaDue /\ alarms[a].rca /\ alarms[a].parent = 0
      PROVE  Asked(a)
  BY <1>1 DEF ParentInv, RcaNotForgotten, Asked
<1> QED BY <1>1

\* The root cause script of an alarm names a parent that has been in the list.
LEMMA ChoiceKnown ==
    ASSUME NEW a, NEW p \in ParentChoice(a)
    PROVE  p \in KnownIds \cup {0}
BY DEF ParentChoice

\* RootCauseUpdateThread moves the alarm to the parent that its script has found, and is done
\* with that alarm.
LEMMA RcaApplyLinks ==
    ASSUME IInv, ParentInv, NEW t \in Thread, NEW a \in AlarmId, NEW p \in ParentChoice(a),
           RcaApply(t, a, p)
    PROVE  ParentInv'
<1>1. op[t] \in [pc : {"rca"}, ids : SUBSET AlarmId]
  BY OpParts DEF RcaApply, IInv, TypeOK
<1>2. /\ op'[t] = [op[t] EXCEPT !.ids = @ \ {a}]
      /\ \A u \in Thread \ {t} : op'[u] = op[u]
      /\ UNCHANGED <<nextId, rcaNeeded>> /\ rcaDue' = rcaDue \ {a}
  BY DEF RcaApply, IInv, TypeOK
<1>3. op'[t].pc = "rca" /\ op'[t].ids = op[t].ids \ {a} /\ op[t].pc = "rca"
  BY <1>1, <1>2
<1>4. KeepsLinks
  BY <1>2, <1>3 DEF KeepsLinks
<1>5. ASSUME NEW x, x # a, Asked(x) PROVE Asked(x)'
  BY <1>2, <1>3, <1>5 DEF Asked
<1>6. p \in KnownIds \cup {0}
  BY ChoiceKnown
<1>7. CASE p # 0 /\ a \in Ids
  <2>1. alarms' = Reparent(a, alarms[a], p) /\ alarms[a] \in Alarm
    BY <1>7 DEF RcaApply, IInv, TypeOK
  <2>2. Linked' /\ ParentsKnown'
    BY <1>2, <1>4, <1>6, <1>7, <2>1, MoveStep
  <2>3. Ids' = Ids /\ \A x \in Ids \ {a} : /\ alarms'[x].parent = alarms[x].parent
                                           /\ alarms'[x].rca = alarms[x].rca
    BY <1>7, <2>1, ReparentLinks
  <2>4. RcaNotForgotten'
    BY <1>2, <1>5, <2>3, RcaStep
  <2> QED BY <2>2, <2>4 DEF ParentInv
<1>8. CASE UNCHANGED alarms
  <2>1. KeepsParents
    BY <1>8, SameParents
  <2>2. KnownIds \subseteq KnownIds'
    BY <1>2, <1>4, KnownGrows DEF KeepsLinks
  <2>3. ParentsKnown'
    BY <1>4, <1>8, <2>2 DEF ParentInv, ParentsKnown, KeepsLinks, Ids
  <2>4. Linked'
    BY <1>4, <1>8 DEF ParentInv, Linked, KeepsLinks, Ids
  <2>5. RcaNotForgotten'
    BY <1>2, <1>5, <1>8, RcaStep DEF Ids
  <2> QED BY <2>3, <2>4, <2>5 DEF ParentInv
<1> QED BY <1>7, <1>8 DEF RcaApply

\* A duplicate event moves the alarm to the parent that its rule has found; if it has found
\* none, the operation ends by asking for root cause analysis.
LEMMA CreateUpdateLinks ==
    ASSUME IInv, ParentInv, NEW t \in Thread, NEW k \in Key \cup {NoKey}, NEW o \in Object,
           NEW s \in Severity, NEW p \in KnownIds \cup {0}, NEW rca \in BOOLEAN,
           NEW timeout \in BOOLEAN, NEW ackTimeout \in BOOLEAN, NEW hd \in HelpdeskState,
           CreateUpdate(t, k, o, s, p, rca, timeout, ackTimeout, hd)
    PROVE  ParentInv'
<1> DEFINE a == keyIndex[k]
<1> DEFINE r == alarms[a]
<1> DEFINE st == IF r.state = "sticky" THEN r.state ELSE "outstanding"
<1> DEFINE at == IF st = "sticky" THEN r.ackTimeout ELSE ackTimeout
<1> DEFINE h == IF r.hd = "ignored" THEN hd ELSE r.hd
<1> DEFINE new == [r EXCEPT !.src = o, !.severity = s, !.rca = rca, !.timeout = timeout,
                            !.state = st, !.ackTimeout = at, !.hd = h]
<1>1. a \in Ids
  BY DEF CreateUpdate, IInv, KeyIndexSound
<1>2. r \in Alarm
  BY <1>1, IdsType DEF IInv
<1>3. st \in AlarmState /\ h \in HelpdeskState
  BY <1>2 DEF Alarm, AlarmState
<1>4. at \in BOOLEAN
  BY <1>2 DEF Alarm
<1>5. /\ alarms' = Reparent(a, new, p)
      /\ Recalculate(t, {r.src, o}, AfterCreate(p, rca), t)
      /\ rcaDue' = IF p = 0 /\ rca THEN rcaDue \cup {a} ELSE rcaDue
      /\ UNCHANGED nextId /\ op[t] = Free
  BY <1>2 DEF CreateUpdate, updateFromEvent, Alarm
<1> DEFINE objs == {r.src, o}
<1>6. Recalculate(t, objs, AfterCreate(p, rca), t)
  BY <1>5
<1> HIDE DEF st, at, h, objs
<1>7. new \in Alarm /\ new.rca = rca /\ new.subs = alarms[a].subs
  BY <1>2, <1>3, <1>4 DEF Alarm
<1> HIDE DEF new, r, a
<1>8. AfterCreate(p, rca) \in After /\ (p = 0 /\ rca => AfterCreate(p, rca) = "unfound")
  BY DEF AfterCreate, After
<1>9. /\ KeepsAsked
      /\ \A u \in Thread \ {t} : op'[u] = op[u]
      /\ op'[t].pc \notin {"add", "link"}
      /\ p = 0 /\ rca => \A x : Asked(x)'
  <2>1. op[t].pc = "idle"
    BY <1>5 DEF Free
  <2> QED BY <1>6, <1>8, <2>1, RecalculateAsks
<1>10. KeepsLinks
  <2>1. op[t].pc = "idle"
    BY <1>5 DEF Free
  <2> QED BY <1>9, <2>1 DEF KeepsLinks
<1>11. Linked' /\ ParentsKnown'
  BY <1>1, <1>5, <1>7, <1>10, MoveStep
<1>12. /\ Ids' = Ids /\ alarms'[a].parent = p /\ alarms'[a].rca = rca
       /\ \A x \in Ids \ {a} : /\ alarms'[x].parent = alarms[x].parent
                               /\ alarms'[x].rca = alarms[x].rca
  BY <1>1, <1>5, <1>7, ReparentLinks
<1>13. RcaNotForgotten'
  BY <1>5, <1>9, <1>12, RcaStep DEF KeepsAsked
<1> QED BY <1>11, <1>13 DEF ParentInv

\* A new alarm has an identifier that nobody knows yet, and a parent that is known.
LEMMA CreateCheckLinks ==
    ASSUME IInv, ParentInv, NEW t \in Thread, NEW k, NEW o, NEW s,
           NEW p \in KnownIds \cup {0}, NEW rca, NEW timeout, NEW hd,
           CreateCheck(t, k, o, s, p, rca, timeout, hd)
    PROVE  ParentInv'
<1> DEFINE x == [pc |-> "add", a |-> nextId, alarm |-> NewAlarm(k, o, s, p, rca, timeout, hd)]
<1>1. /\ op[t] = Free /\ nextId' = nextId + 1 /\ op' = [op EXCEPT ![t] = x]
      /\ UNCHANGED <<alarms, rcaNeeded, rcaDue>>
  BY DEF CreateCheck, rcaVars
<1>2. x.pc = "add" /\ x.a = nextId /\ x.alarm.parent = p
  BY DEF NewAlarm
<1> HIDE DEF x
<1>3. op'[t] = x /\ \A u \in Thread \ {t} : op'[u] = op[u]
  BY <1>1 DEF IInv, TypeOK
<1>4. op[t].pc = "idle"
  BY <1>1 DEF Free
<1>5. KnownIds \subseteq KnownIds'
  BY <1>1, <1>2, <1>3, KnownGrows
<1>6. Ids' = Ids
  BY <1>1 DEF Ids
<1>7. ParentsKnown'
  BY <1>1, <1>2, <1>3, <1>5, <1>6 DEF ParentInv, ParentsKnown
<1>8. Linked'
  BY <1>1, <1>3, <1>4, <1>6 DEF ParentInv, Linked
<1>9. ASSUME NEW a, Asked(a) PROVE Asked(a)'
  BY <1>1, <1>3, <1>4, <1>9 DEF Asked
<1>10. RcaNotForgotten'
  BY <1>1, <1>6, <1>9, RcaStep
<1> QED BY <1>7, <1>8, <1>10 DEF ParentInv

\* An alarm that is added is nobody's parent yet, and its own link is pending.
LEMMA CreateAddLinks ==
    ASSUME IInv, ParentInv, NEW t \in Thread, CreateAdd(t)
    PROVE  ParentInv'
<1> DEFINE r == op[t].alarm
<1>0. PICK a : a = op[t].a
  OBVIOUS
<1> DEFINE new == [pc |-> "link", a |-> a, o |-> r.src, p |-> r.parent,
                   after |-> AfterCreate(r.parent, r.rca)]
<1>1. op[t] \in Op /\ op[t].pc = "add"
  BY DEF CreateAdd, IInv, TypeOK
<1>2. a \in AlarmId /\ a \notin Ids /\ r.parent \in KnownIds \cup {0}
  BY <1>0, <1>1, OpParts DEF IInv, Fresh, ParentInv, ParentsKnown
<1>3. /\ alarms' = [x \in Ids \cup {a} |-> IF x = a THEN r ELSE alarms[x]]
      /\ op' = [op EXCEPT ![t] = new]
      /\ rcaDue' = IF r.parent = 0 /\ r.rca THEN rcaDue \cup {a} ELSE rcaDue
      /\ UNCHANGED <<nextId, rcaNeeded>>
  BY <1>0 DEF CreateAdd
<1>4. /\ new.pc = "link" /\ new.a = a /\ new.p = r.parent
      /\ r.parent = 0 /\ r.rca => new.after = "unfound"
  BY DEF AfterCreate
<1>5. a \notin KnownIds /\ a # 0
  BY <1>0, <1>1, <1>2 DEF KnownIds, AlarmId
<1> HIDE DEF r, new
<1>6. op'[t] = new /\ \A u \in Thread \ {t} : op'[u] = op[u]
  BY <1>3 DEF IInv, TypeOK
<1>7. Ids' = Ids \cup {a} /\ alarms'[a] = r /\ \A x \in Ids : alarms'[x] = alarms[x]
  BY <1>2, <1>3 DEF Ids
<1>8. KnownIds \subseteq KnownIds'
  BY <1>3, <1>4, <1>6, KnownGrows
<1>9. ParentsKnown'
  BY <1>2, <1>4, <1>6, <1>7, <1>8 DEF ParentInv, ParentsKnown
<1>10. ASSUME NEW x \in Ids', alarms'[x].parent \in Ids'
       PROVE  \/ x \in alarms'[alarms'[x].parent].subs
              \/ \E u \in Thread : op'[u].pc = "link" /\ op'[u].a = x /\ op'[u].p = alarms'[x].parent
  <2>1. CASE x = a
    BY <1>4, <1>6, <1>7, <2>1
  <2>2. CASE x \in Ids
    <3>1. alarms'[x].parent = alarms[x].parent /\ alarms[x].parent \in Ids
      BY <1>5, <1>7, <1>10, <2>2 DEF ParentInv, ParentsKnown
    <3>2. CASE x \in alarms[alarms[x].parent].subs
      BY <1>7, <3>1, <3>2
    <3>3. ASSUME NEW u \in Thread, op[u].pc = "link", op[u].a = x, op[u].p = alarms[x].parent
          PROVE  op'[u].pc = "link" /\ op'[u].a = x /\ op'[u].p = alarms'[x].parent
      BY <1>1, <1>6, <3>1, <3>3
    <3> QED BY <2>2, <3>1, <3>2, <3>3 DEF ParentInv, Linked
  <2> QED BY <1>7, <1>10, <2>1, <2>2
<1>11. Linked'
  BY <1>10 DEF Linked
<1>12. ASSUME NEW x, Asked(x) PROVE Asked(x)'
  BY <1>1, <1>3, <1>6, <1>12 DEF Asked
<1>13. r.parent = 0 /\ r.rca => Asked(a)'
  BY <1>4, <1>6 DEF Asked
<1>14. RcaNotForgotten'
  <2>1. CASE r.parent = 0 /\ r.rca
    <3>1. rcaDue' = rcaDue \cup {a} /\ Asked(a)'
      BY <1>3, <1>13, <2>1
    <3>2. \A x \in Ids' \cap rcaDue' : x # a => x \in Ids \cap rcaDue /\ alarms'[x] = alarms[x]
      BY <1>7, <3>1
    <3> QED BY <1>12, <3>1, <3>2, RcaStep
  <2>2. CASE ~(r.parent = 0 /\ r.rca)
    <3>1. rcaDue' = rcaDue
      BY <1>3, <2>2
    <3> QED BY <1>7, <1>12, <2>2, <3>1, RcaStep
  <2> QED BY <2>1, <2>2
<1> QED BY <1>9, <1>11, <1>14 DEF ParentInv

\* CreateNewAlarm, the parent learns of its subordinate: the link that is completed is the
\* one that was pending.
LEMMA CreateLinkLinks ==
    ASSUME IInv, ParentInv, NEW t \in Thread, CreateLink(t)
    PROVE  ParentInv'
<1> DEFINE a == op[t].a
<1> DEFINE p == op[t].p
<1>1. op[t] \in Op /\ op[t].pc = "link"
  BY DEF CreateLink, IInv, TypeOK
<1>2. op[t].after \in After
  BY <1>1, OpParts
<1>3. /\ Recalculate(t, {op[t].o}, op[t].after, lock)
      /\ UNCHANGED <<nextId, rcaDue>>
  BY DEF CreateLink
<1>4. /\ KeepsAsked
      /\ \A u \in Thread \ {t} : op'[u] = op[u]
      /\ op'[t].pc \notin {"add", "link"}
  BY <1>1, <1>2, <1>3, RecalculateAsks
<1>5. Ids' = Ids
  BY DEF CreateLink, Ids
<1>6. ASSUME NEW x \in Ids
      PROVE  /\ alarms'[x].parent = alarms[x].parent /\ alarms'[x].rca = alarms[x].rca
             /\ alarms[x].subs \subseteq alarms'[x].subs
             /\ x = p => a \in alarms'[x].subs
  BY <1>6 DEF CreateLink, IInv, TypeOK, Alarm
<1>7. KnownIds \subseteq KnownIds'
  BY <1>3, <1>4, KnownGrows
<1>8. ParentsKnown'
  BY <1>4, <1>5, <1>6, <1>7 DEF ParentInv, ParentsKnown
<1>9. ASSUME NEW x \in Ids, alarms[x].parent \in Ids
      PROVE  \/ x \in alarms'[alarms[x].parent].subs
             \/ \E u \in Thread : op'[u].pc = "link" /\ op'[u].a = x /\ op'[u].p = alarms[x].parent
  <2>1. CASE x \in alarms[alarms[x].parent].subs
    BY <1>6, <1>9, <2>1
  <2>2. ASSUME NEW u \in Thread, op[u].pc = "link", op[u].a = x, op[u].p = alarms[x].parent
        PROVE  \/ x \in alarms'[alarms[x].parent].subs
               \/ op'[u].pc = "link" /\ op'[u].a = x /\ op'[u].p = alarms[x].parent
    BY <1>4, <1>6, <1>9, <2>2
  <2> QED BY <1>9, <2>1, <2>2 DEF ParentInv, Linked
<1>10. Linked'
  BY <1>5, <1>6, <1>9 DEF Linked
<1>11. RcaNotForgotten'
  BY <1>3, <1>4, <1>5, <1>6, RcaStep DEF KeepsAsked
<1> QED BY <1>8, <1>10, <1>11 DEF ParentInv

\* CreateNewAlarm, first critical section.
LEMMA ReportLinks ==
    ASSUME IInv, ParentInv, NEW t \in Thread, Report(t)
    PROVE  ParentInv'
<1>1. PICK k \in Key \cup {NoKey}, o \in Object, s \in Severity, rca \in RcaScripts,
           timeout \in Timeouts, ackTimeout \in Timeouts, hd \in HelpdeskResults :
        \/ \E p \in ParentChoice(nextId) :
              CreateCheck(t, k, o, s, p, rca, timeout, hd)
        \/ \E p \in ParentChoice(IF k = NoKey THEN 0 ELSE keyIndex[k]) :
              CreateUpdate(t, k, o, s, p, rca, timeout, ackTimeout, hd)
  BY DEF Report
<1>2. PICK p \in KnownIds \cup {0} :
        \/ CreateCheck(t, k, o, s, p, rca, timeout, hd)
        \/ CreateUpdate(t, k, o, s, p, rca, timeout, ackTimeout, hd)
  BY <1>1, ChoiceKnown
<1>3. rca \in BOOLEAN /\ timeout \in BOOLEAN /\ ackTimeout \in BOOLEAN
  BY InputAssumption
<1>4. hd \in HelpdeskState
  BY InputAssumption DEF HelpdeskState
<1>5. CASE CreateCheck(t, k, o, s, p, rca, timeout, hd)
  BY <1>5, CreateCheckLinks
<1>6. CASE CreateUpdate(t, k, o, s, p, rca, timeout, ackTimeout, hd)
  BY <1>3, <1>4, <1>6, CreateUpdateLinks, ZenonT(40)
<1> QED BY <1>2, <1>5, <1>6

\* Every step of the alarm manager preserves the invariant.
LEMMA NextParents == ParentInv /\ IInv /\ [Next]_vars => ParentInv'
<1> SUFFICES ASSUME ParentInv, IInv, [Next]_vars PROVE ParentInv'
  OBVIOUS
<1>1. ASSUME NEW t \in Thread, Begin(t) PROVE ParentInv'
  <2>1. CASE Report(t)
    BY <2>1, ReportLinks
  <2>2. CASE Resolution(t) \/ \E a \in AlarmId : DeleteAlarm(t, a) \/ ResolveExpired(t, a)
    BY <2>2, ResolutionKeeps, KeepsAllStep
  <2>3. CASE \E a \in AlarmId : JobStart(t, a)
    BY <2>3, JobKeeps, KeepsAllStep
  <2>4. CASE RcaStart(t)
    BY <2>4, RootCauseKeeps, KeepsAllStep
  <2> QED BY <1>1, <2>1, <2>2, <2>3, <2>4 DEF Begin
<1>2. ASSUME NEW t \in Thread, Continue(t) PROVE ParentInv'
  <2>1. CASE CreateAdd(t) \/ CreateLink(t)
    BY <2>1, CreateAddLinks, CreateLinkLinks
  <2>2. CASE \/ JobEnd(t) \/ DropSeverity(t) \/ RecalcCommit(t)
             \/ \E o \in Object : RecalcRead(t, o)
             \/ \E ms \in ModuleStatus \cup {-1} : RecalcModules(t, ms)
    BY <2>2, TailKeeps, KeepsAllStep
  <2>3. CASE \E a \in AlarmId : JobAck(t, a) \/ JobResolve(t, a)
    BY <2>3, JobKeeps, KeepsAllStep
  <2>4. CASE RcaCollect(t) \/ RcaEnd(t)
    BY <2>4, RootCauseKeeps, KeepsAllStep
  <2>5. CASE \E a \in AlarmId : \E p \in ParentChoice(a) : RcaApply(t, a, p)
    BY <2>5, RcaApplyLinks
  <2> QED BY <1>2, <2>1, <2>2, <2>3, <2>4, <2>5 DEF Continue
<1>3. CASE Brief
  BY <1>3, BriefKeeps, KeepsAllStep
<1>4. ASSUME UNCHANGED <<alarms, nextId, op, rcaNeeded, rcaDue>> PROVE ParentInv'
  <2>1. KeepsAll
    BY <1>4, SameParents DEF KeepsAll, KeepsLinks, KeepsAsked, Asked
  <2> QED BY <2>1, KeepsAllStep
<1>5. ASSUME NEW o \in Object,
             \/ PollRead(o) \/ PollCommit(o)
             \/ \E ms \in ModuleStatus \cup {-1} : PollModules(o, ms)
      PROVE  ParentInv'
  BY <1>4, <1>5 DEF PollRead, PollModules, PollCommit, listVars, rcaVars
<1>6. CASE UNCHANGED vars
  BY <1>4, <1>6 DEF vars
<1> QED BY <1>1, <1>2, <1>3, <1>5, <1>6 DEF Next

\* The invariant holds at all times.
LEMMA ParentInvariance == Spec => []ParentInv
<1>1. Init => ParentInv
  <2> SUFFICES ASSUME Init PROVE ParentInv
    OBVIOUS
  <2>1. Ids = {} /\ \A t \in Thread : op[t].pc = "idle"
    BY DEF Init, Ids, Free
  <2> QED BY <2>1 DEF ParentInv, Linked, ParentsKnown, RcaNotForgotten
<1>2. ParentInv /\ IInv /\ [Next]_vars => ParentInv'
  BY NextParents
<1> QED BY <1>1, <1>2, Invariance, PTL DEF Spec

\* An alarm is known to its parent as a subordinate unless its creator is about to link it, so
\* that a cascade from the parent reaches it, however threads that create, move and remove
\* alarms and parents interleave.
THEOREM SubordinatesKnown == Spec => []ParentKnowsSubordinate
<1>1. ParentInv => ParentKnowsSubordinate
  BY DEF ParentInv, Linked, ParentKnowsSubordinate
<1> QED BY <1>1, ParentInvariance, PTL

\* An alarm reported without its root cause is never forgotten: until it has been evaluated
\* the root cause thread is asked for or on its way to it, for any number of threads.
THEOREM RootCauseRemembered == Spec => []RcaNotForgotten
<1>1. ParentInv => RcaNotForgotten
  BY DEF ParentInv
<1> QED BY <1>1, ParentInvariance, PTL

=============================================================================
