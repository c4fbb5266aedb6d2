-------------------------- MODULE AlarmStoreProofs --------------------------
(***************************************************************************)
(* Proofs about the persistence of alarms, for any set of alarms and any   *)
(* number of changes, database failures and crashes.                       *)
(*                                                                         *)
(* QueueCompletesTable looks at the row of an alarm together with the      *)
(* requests for it that the alarm writer will still execute.  To be kept   *)
(* by every step it needs what is promised while an alarm is being created *)
(* (the request that is prepared holds the present fields) or deleted (a   *)
(* DELETE is still to come), and where the end-of-job indicators of the    *)
(* two queues can be.  RowNeverGoesBack needs that the requests for an     *)
(* alarm are in the order of its changes, and nothing is ahead of memory.  *)
(***************************************************************************)
EXTENDS AlarmStore, SequenceLemmas

Entry == WriteRequest \cup {Stop}
Statement == [type : {"delete"}, id : Alarm]

-----------------------------------------------------------------------------
(* The inductive invariant *)

\* When the process has ended nothing is under way; alarms are created and the alarms of
\* an object are deleted only before the alarm writer is told to stop
PhaseFits ==
    /\ ~Up => writerQueue = <<>> /\ sqlQueue = <<>> /\ deleting = {}
    /\ \A a \in Alarm : Creating(a) => phase = "running"
    /\ cleanup # None => phase = "running"
    /\ phase = "running" => \A i \in 1..Len(writerQueue) : writerQueue[i] # Stop

\* When the alarm writer has stopped nothing is left to execute, save what was too late;
\* so for the other writer and what is behind its end-of-job indicator.  After an orderly
\* end the table is what is loaded.
WrittenOut ==
    /\ phase \in {"flushing", "ending"} => \A a \in Alarm \ overtaken : Requests(a) = {}
    /\ phase # "ending" => \A i \in 1..Len(sqlQueue) : sqlQueue[i] # Stop
    /\ \A i, j \in 1..Len(sqlQueue) :
          i < j /\ sqlQueue[i] = Stop => sqlQueue[j] # Stop /\ sqlQueue[j].id \in overtaken
    /\ phase = "stopped" => \A a \in Alarm \ overtaken :
          IF a \in list THEN row[a] = alarm[a] ELSE row[a] = None \/ row[a].terminated

\* A DELETE for the alarm is in the queue, or will be
Pending(q, a) == \E i \in 1..Len(q) : q[i] # Stop /\ q[i].id = a
Dying(a) == a \in deleting \/ Pending(sqlQueue, a)

\* An alarm that was not created yet has left no trace; the request that is prepared for
\* one is complete; an alarm in the list is neither being deleted nor terminated
LifeCycle(a) ==
    /\ creator[a] = "none" =>
          /\ row[a] = None /\ a \notin list /\ ~Dying(a) /\ ~alarm[a].terminated
          /\ ~Pending(writerQueue, a)
    /\ creator[a] = "copied" =>
          snapshot[a] \in WriteRequest /\ snapshot[a].id = a /\ snapshot[a].type = "insert"
    /\ a \in list => ~Dying(a) /\ ~alarm[a].terminated

\* The alarms of its object are being deleted
Cleaning(a) == alarm[a].source = cleanup /\ ~alarm[a].terminated

\* What is promised of an alarm whose writes were not overtaken
Promised(a) ==
    /\ a \in list /\ creator[a] = "done" => Final(a) = alarm[a]
    /\ a \notin list /\ creator[a] = "done" =>
          Final(a) = None \/ Final(a).terminated \/ Cleaning(a) \/ Dying(a)
    /\ a \notin list /\ Creating(a) => alarm[a].terminated \/ Cleaning(a) \/ Dying(a)
    /\ creator[a] = "copied" => snapshot[a].data = alarm[a]

\* The fields d are those of an alarm before those of e, or the same
Older(d, e) == d.version <= e.version /\ (d.terminated => e.terminated)

\* The requests for alarm a in queue q, when its row holds v and the memory d: those for
\* updates are in the order of the changes, the row is behind them, none is ahead of the
\* memory
QueueOrdered(q, v, d, a) ==
    \A i \in 1..Len(q) : q[i] # Stop /\ q[i].id = a =>
        /\ Older(q[i].data, d)
        /\ q[i].type = "update" =>
              /\ v # None => Older(v, q[i].data)
              /\ \A j \in 1..Len(q) : j < i /\ q[j] # Stop /\ q[j].id = a => Older(q[j].data, q[i].data)

\* So it is, and neither row nor prepared request is ahead of the memory
Ordered(a) ==
    /\ alarm[a].version <= changes
    /\ row[a] # None => Older(row[a], alarm[a])
    /\ creator[a] = "copied" => Older(snapshot[a].data, alarm[a])
    /\ QueueOrdered(writerQueue, row[a], alarm[a], a)

Fits(a) == LifeCycle(a) /\ Ordered(a) /\ (Up /\ a \notin overtaken => Promised(a))

IInv == TypeOK /\ PhaseFits /\ WrittenOut /\ \A a \in Alarm : Fits(a)

-----------------------------------------------------------------------------
(* Queues *)

\* An end-of-job indicator is neither a request nor a statement.
LEMMA StopIsNoRequest == Stop \notin WriteRequest /\ Stop \notin Statement
BY DEF Stop, WriteRequest, Statement

\* What Snapshot makes is a request.
LEMMA SnapshotRequest ==
    ASSUME NEW t \in {"insert", "update"}, NEW a \in Alarm, NEW d \in Data, NEW e \in EventId
    PROVE  /\ Snapshot(t, a, d, e) \in WriteRequest /\ Snapshot(t, a, d, e) \in Entry /\ Snapshot(t, a, d, e) # Stop
           /\ Snapshot(t, a, d, e).type = t /\ Snapshot(t, a, d, e).id = a /\ Snapshot(t, a, d, e).data = d
<1>1. Snapshot(t, a, d, e) \in WriteRequest
    BY DEF Snapshot, WriteRequest
<1> QED BY <1>1, StopIsNoRequest DEF Snapshot, Entry

\* A queue with one more entry.
LEMMA Longer ==
    ASSUME NEW S, NEW q \in Seq(S), NEW x \in S
    PROVE  /\ Append(q, x) \in Seq(S) /\ Len(q) \in Nat /\ Len(Append(q, x)) = Len(q) + 1
           /\ \A i \in 1..Len(q) : Append(q, x)[i] = q[i]
           /\ Append(q, x)[Len(q) + 1] = x
BY AppendProperties, LenProperties

\* A queue without its first entry.
LEMMA Shorter ==
    ASSUME NEW S, NEW q \in Seq(S), q # <<>>
    PROVE  /\ Tail(q) \in Seq(S) /\ Len(q) \in Nat \ {0} /\ Len(Tail(q)) = Len(q) - 1
           /\ \A i \in 1..Len(Tail(q)) : Tail(q)[i] = q[i + 1]
           /\ Head(q) = q[1] /\ Head(q) \in S
BY HeadTailProperties, LenProperties, EmptySeq, ElementOfSeq

\* A failed request is where it was.
LEMMA PutBack ==
    ASSUME NEW S, NEW q \in Seq(S), q # <<>>
    PROVE  <<Head(q)>> \o Tail(q) = q
<1> DEFINE h == <<Head(q)>>
           t == Tail(q)
<1>1. /\ t \in Seq(S) /\ Len(q) \in Nat \ {0} /\ Len(t) = Len(q) - 1 /\ Head(q) = q[1] /\ Head(q) \in S
      /\ \A i \in 1..Len(t) : t[i] = q[i + 1]
    BY Shorter
<1>2. h \in Seq(S) /\ Len(h) = 1 /\ h[1] = q[1]
    BY <1>1
<1> HIDE DEF h, t
<1>3. /\ h \o t \in Seq(S) /\ Len(h \o t) = Len(q)
      /\ \A j \in 1..Len(q) : (h \o t)[j] = IF j <= Len(h) THEN h[j] ELSE t[j - Len(h)]
    <2>1. /\ h \o t \in Seq(S) /\ Len(h \o t) = Len(h) + Len(t)
          /\ \A j \in 1..(Len(h) + Len(t)) : (h \o t)[j] = IF j <= Len(h) THEN h[j] ELSE t[j - Len(h)]
        BY <1>1, <1>2, ConcatProperties
    <2>2. Len(h) + Len(t) = Len(q)
        BY <1>1, <1>2
    <2> QED BY <2>1, <2>2
<1>4. ASSUME NEW j \in 1..Len(q) PROVE (h \o t)[j] = q[j]
    <2>1. CASE j = 1
        BY <1>1, <1>2, <1>3, <2>1
    <2>2. CASE j # 1
        <3>1. j - 1 \in 1..Len(t) /\ (j - 1) + 1 = j /\ ~(j <= 1)
            BY <1>1, <2>2
        <3>2. (h \o t)[j] = t[j - 1]
            BY <1>2, <1>3, <3>1
        <3> QED BY <1>1, <3>1, <3>2
    <2> QED BY <2>1, <2>2
<1>5. h \o t = q
    BY <1>3, <1>4, SeqEqual
<1> QED BY <1>5 DEF h, t

\* Whether there is an entry for an alarm, in a queue with one more entry and in one
\* without its first entry.
LEMMA PendingAppend ==
    ASSUME NEW S, NEW q \in Seq(S), NEW x \in S, NEW a
    PROVE  Pending(Append(q, x), a) <=> Pending(q, a) \/ (x # Stop /\ x.id = a)
<1>1. PICK p : p = Append(q, x)
    OBVIOUS
<1>2. /\ Len(q) \in Nat /\ Len(p) = Len(q) + 1 /\ p[Len(q) + 1] = x
      /\ \A i \in 1..Len(q) : p[i] = q[i]
    BY <1>1, Longer
<1>3. \A i \in 1..Len(p) : i \in 1..Len(q) \/ i = Len(q) + 1
    BY <1>2
<1>4. Len(q) + 1 \in 1..Len(p) /\ \A i \in 1..Len(q) : i \in 1..Len(p)
    BY <1>2
<1>5. Pending(p, a) <=> Pending(q, a) \/ (x # Stop /\ x.id = a)
    BY <1>2, <1>3, <1>4 DEF Pending
<1> QED BY <1>1, <1>5

\* Taking an entry leaves the others.
LEMMA PendingTail ==
    ASSUME NEW S, NEW q \in Seq(S), q # <<>>, NEW a
    PROVE  Pending(q, a) <=> Pending(Tail(q), a) \/ (Head(q) # Stop /\ Head(q).id = a)
<1>1. PICK p : p = Tail(q)
    OBVIOUS
<1>2. /\ Len(q) \in Nat \ {0} /\ Len(p) = Len(q) - 1 /\ Head(q) = q[1]
      /\ \A i \in 1..Len(p) : p[i] = q[i + 1]
    BY <1>1, Shorter
<1>3. \A i \in 1..Len(q) : i = 1 \/ (i - 1 \in 1..Len(p) /\ p[i - 1] = q[i])
    <2> SUFFICES ASSUME NEW i \in 1..Len(q), i # 1 PROVE i - 1 \in 1..Len(p) /\ p[i - 1] = q[i]
        OBVIOUS
    <2>1. i - 1 \in 1..Len(p) /\ (i - 1) + 1 = i
        BY <1>2
    <2> QED BY <1>2, <2>1
<1>4. 1 \in 1..Len(q) /\ \A i \in 1..Len(p) : i + 1 \in 1..Len(q)
    BY <1>2
<1>5. Pending(q, a) <=> Pending(p, a) \/ (q[1] # Stop /\ q[1].id = a)
    BY <1>2, <1>3, <1>4 DEF Pending
<1> QED BY <1>1, <1>2, <1>5

-----------------------------------------------------------------------------
(* The order of requests *)

\* Older is an order on the fields of an alarm.
LEMMA OlderOrder ==
    /\ \A d \in Data : Older(d, d)
    /\ \A c, d, e \in Data : Older(c, d) /\ Older(d, e) => Older(c, e)
BY BoundAssumption DEF Older, Data

\* A queue without requests for the alarm is in order, so is an empty one.
LEMMA OrderedEmpty ==
    ASSUME NEW v, NEW d, NEW a
    PROVE  QueueOrdered(<<>>, v, d, a)
BY DEF QueueOrdered

\* The data of the requests in a queue are fields of an alarm.
LEMMA EntryData ==
    ASSUME NEW q \in Seq(Entry), NEW i \in 1..Len(q), q[i] # Stop
    PROVE  q[i] \in WriteRequest /\ q[i].data \in Data /\ q[i].id \in Alarm /\ q[i].type \in {"insert", "update"}
<1>1. q[i] \in Entry
    BY ElementOfSeq
<1> QED BY <1>1 DEF Entry, WriteRequest

\* An entry that is not for the alarm.
LEMMA OrderedAppendOther ==
    ASSUME NEW q \in Seq(Entry), NEW x \in Entry, NEW v, NEW d, NEW a,
           x = Stop \/ x.id # a, QueueOrdered(q, v, d, a)
    PROVE  QueueOrdered(Append(q, x), v, d, a)
<1>1. PICK p : p = Append(q, x)
    OBVIOUS
<1>2. /\ Len(q) \in Nat /\ Len(p) = Len(q) + 1 /\ p[Len(q) + 1] = x
      /\ \A i \in 1..Len(q) : p[i] = q[i]
    BY <1>1, Longer
<1>3. \A i \in 1..Len(p) : i \in 1..Len(q) \/ i = Len(q) + 1
    BY <1>2
<1>4. QueueOrdered(p, v, d, a)
    BY <1>2, <1>3 DEF QueueOrdered
<1> QED BY <1>1, <1>4

\* An UPDATE with fields that are newer than the memory was.
LEMMA OrderedAppendUpdate ==
    ASSUME NEW q \in Seq(Entry), NEW x \in WriteRequest, NEW v \in Data \cup {None}, NEW d \in Data, NEW a,
           x.id = a, Older(d, x.data), v # None => Older(v, d), QueueOrdered(q, v, d, a)
    PROVE  QueueOrdered(Append(q, x), v, x.data, a)
<1>1. PICK p : p = Append(q, x)
    OBVIOUS
<1>2. /\ Len(q) \in Nat /\ Len(p) = Len(q) + 1 /\ p[Len(q) + 1] = x
      /\ \A i \in 1..Len(q) : p[i] = q[i]
    BY <1>1, Longer DEF Entry
<1>3. \A i \in 1..Len(p) : i \in 1..Len(q) \/ i = Len(q) + 1
    BY <1>2
<1>4. x.data \in Data
    BY DEF WriteRequest
<1>5. \A i \in 1..Len(q) : q[i] # Stop /\ q[i].id = a => Older(q[i].data, x.data)
    <2> SUFFICES ASSUME NEW i \in 1..Len(q), q[i] # Stop, q[i].id = a PROVE Older(q[i].data, x.data)
        OBVIOUS
    <2>1. q[i].data \in Data /\ Older(q[i].data, d)
        BY EntryData DEF QueueOrdered
    <2> QED BY <1>4, <2>1, OlderOrder
<1>6. v # None => Older(v, x.data)
    BY <1>4, OlderOrder
<1>7. Older(x.data, x.data)
    BY <1>4, OlderOrder
<1>8. ASSUME NEW i \in 1..Len(p), p[i] # Stop, p[i].id = a
      PROVE  /\ Older(p[i].data, x.data)
             /\ p[i].type = "update" =>
                   /\ v # None => Older(v, p[i].data)
                   /\ \A j \in 1..Len(p) : j < i /\ p[j] # Stop /\ p[j].id = a => Older(p[j].data, p[i].data)
    <2>1. CASE i = Len(q) + 1
        BY <1>2, <1>3, <1>5, <1>6, <1>7, <2>1
    <2>2. CASE i \in 1..Len(q)
        <3>1. p[i] = q[i] /\ \A j \in 1..Len(p) : j < i => j \in 1..Len(q) /\ p[j] = q[j]
            BY <1>2, <2>2
        <3> QED BY <1>5, <1>8, <2>2, <3>1 DEF QueueOrdered
    <2> QED BY <1>3, <2>1, <2>2
<1>9. QueueOrdered(p, v, x.data, a)
    BY <1>8 DEF QueueOrdered
<1> QED BY <1>1, <1>9

\* An INSERT with fields that are not newer than the memory.
LEMMA OrderedAppendInsert ==
    ASSUME NEW q \in Seq(Entry), NEW x \in WriteRequest, NEW v, NEW d, NEW a,
           x.id = a, x.type = "insert", Older(x.data, d), QueueOrdered(q, v, d, a)
    PROVE  QueueOrdered(Append(q, x), v, d, a)
<1>1. PICK p : p = Append(q, x)
    OBVIOUS
<1>2. /\ Len(q) \in Nat /\ Len(p) = Len(q) + 1 /\ p[Len(q) + 1] = x
      /\ \A i \in 1..Len(q) : p[i] = q[i]
    BY <1>1, Longer DEF Entry
<1>3. \A i \in 1..Len(p) : i \in 1..Len(q) \/ i = Len(q) + 1
    BY <1>2
<1>4. QueueOrdered(p, v, d, a)
    BY <1>2, <1>3 DEF QueueOrdered
<1> QED BY <1>1, <1>4

\* The first entry is taken.
LEMMA OrderedTail ==
    ASSUME NEW q \in Seq(Entry), q # <<>>, NEW v, NEW d, NEW a, QueueOrdered(q, v, d, a)
    PROVE  QueueOrdered(Tail(q), v, d, a)
<1>1. PICK p : p = Tail(q)
    OBVIOUS
<1>2. /\ Len(q) \in Nat \ {0} /\ Len(p) = Len(q) - 1
      /\ \A i \in 1..Len(p) : p[i] = q[i + 1]
    BY <1>1, Shorter
<1>3. \A i \in 1..Len(p) : i + 1 \in 1..Len(q)
    BY <1>2
<1>4. \A i, j \in 1..Len(p) : j < i => j + 1 < i + 1
    BY <1>2
<1>5. QueueOrdered(p, v, d, a)
    BY <1>2, <1>3, <1>4 DEF QueueOrdered
<1> QED BY <1>1, <1>5

\* The first request is executed: the row is behind what is left, and behind the request
\* itself, should it be repeated.
LEMMA OrderedWrite ==
    ASSUME NEW q \in Seq(Entry), q # <<>>, NEW v, NEW d, Head(q) # Stop,
           QueueOrdered(q, v, d, Head(q).id)
    PROVE  QueueOrdered(q, Head(q).data, d, Head(q).id) /\ Older(Head(q).data, d)
<1>1. Len(q) \in Nat \ {0} /\ Head(q) = q[1] /\ 1 \in 1..Len(q)
    BY Shorter
<1>2. q[1].data \in Data
    BY <1>1, EntryData
<1>3. Older(q[1].data, q[1].data)
    BY <1>2, OlderOrder
<1>4. \A i \in 1..Len(q) : i = 1 \/ 1 < i
    BY <1>1
<1> QED BY <1>1, <1>3, <1>4 DEF QueueOrdered

\* A deletion takes nothing from the order.
LEMMA OrderedDelete ==
    ASSUME NEW q, NEW v, NEW d, NEW a, QueueOrdered(q, v, d, a)
    PROVE  QueueOrdered(q, None, d, a)
BY DEF QueueOrdered

-----------------------------------------------------------------------------
(* What the row will be *)

\* Requests and Final, as functions of the queue and of the value of the row
RequestsIn(q, a) == {i \in 1..Len(q) : (\A j \in 1..i : q[j] # Stop) /\ q[i].id = a}
FinalOf(q, v, a) ==
    LET last == CHOOSE i \in RequestsIn(q, a) : \A j \in RequestsIn(q, a) : j <= i
    IN IF v = None /\ \A i \in RequestsIn(q, a) : q[i].type = "update" THEN None
       ELSE IF RequestsIn(q, a) = {} THEN v ELSE q[last].data
\* The latest of the requests
Latest(q, a, m) == m \in RequestsIn(q, a) /\ \A j \in RequestsIn(q, a) : j <= m
\* There is no row, and no request will make one
NoRow(q, v, a) == v = None /\ \A i \in RequestsIn(q, a) : q[i].type = "update"

\* They are, now and after a step.
LEMMA FinalNow ==
    ASSUME NEW a
    PROVE  /\ Requests(a) = RequestsIn(writerQueue, a) /\ Final(a) = FinalOf(writerQueue, row[a], a)
           /\ Requests(a)' = RequestsIn(writerQueue', a) /\ Final(a)' = FinalOf(writerQueue', row'[a], a)
<1>1. Requests(a) = RequestsIn(writerQueue, a)
    BY DEF Requests, RequestsIn
<1>2. Requests(a)' = RequestsIn(writerQueue', a)
    BY DEF Requests, RequestsIn
<1>3. Final(a) = FinalOf(writerQueue, row[a], a)
    BY <1>1 DEF Final, FinalOf
<1>4. Final(a)' = FinalOf(writerQueue', row'[a], a)
    BY <1>2 DEF Final, FinalOf
<1> QED BY <1>1, <1>2, <1>3, <1>4

\* If there are requests for an alarm, one is the latest.
LEMMA LatestExists ==
    ASSUME NEW q \in Seq(Entry), NEW a, RequestsIn(q, a) # {}
    PROVE  \E m : Latest(q, a, m)
<1> DEFINE R == RequestsIn(q, a)
           U == {n \in Nat : \A j \in R : j <= n}
<1>1. Len(q) \in Nat /\ R \subseteq 1..Len(q)
    BY LenProperties DEF RequestsIn
<1> HIDE DEF R
<1>2. Len(q) \in U
    BY <1>1
<1>3. Min(U) \in U /\ \A j \in U : Min(U) <= j
    BY <1>2, MinProperties
<1>4. PICK m : m = Min(U)
    OBVIOUS
<1>5. m \in Nat /\ \A j \in R : j <= m
    BY <1>3, <1>4
<1>6. ASSUME m \notin R PROVE FALSE
    <2>1. PICK j \in R : TRUE
        BY DEF R
    <2>2. m # 0
        BY <1>1, <1>5, <2>1
    <2>3. m - 1 \in Nat /\ \A i \in R : i <= m - 1
        BY <1>1, <1>5, <1>6, <2>2
    <2>4. m - 1 \in U
        BY <2>3
    <2>5. m <= m - 1
        BY <1>3, <1>4, <2>4
    <2> QED BY <1>5, <2>5
<1> QED BY <1>5, <1>6 DEF R, Latest

\* The cases of Final.
LEMMA FinalCases ==
    ASSUME NEW q \in Seq(Entry), NEW v, NEW a
    PROVE  /\ NoRow(q, v, a) => FinalOf(q, v, a) = None
           /\ RequestsIn(q, a) = {} => FinalOf(q, v, a) = v
           /\ \A m : Latest(q, a, m) /\ ~NoRow(q, v, a) => FinalOf(q, v, a) = q[m].data
<1>1. NoRow(q, v, a) => FinalOf(q, v, a) = None
    BY DEF NoRow, FinalOf
<1>2. RequestsIn(q, a) = {} => FinalOf(q, v, a) = v
    BY DEF FinalOf
<1>3. ASSUME NEW m, Latest(q, a, m), ~NoRow(q, v, a) PROVE FinalOf(q, v, a) = q[m].data
    <2>1. PICK l : l = CHOOSE i \in RequestsIn(q, a) : \A j \in RequestsIn(q, a) : j <= i
        OBVIOUS
    <2>2. l \in RequestsIn(q, a) /\ \A j \in RequestsIn(q, a) : j <= l
        BY <1>3, <2>1 DEF Latest
    <2>3. l = m
        <3>1. RequestsIn(q, a) \subseteq Nat
            BY LenProperties DEF RequestsIn
        <3>2. l \in Nat /\ m \in Nat /\ l <= m /\ m <= l
            BY <1>3, <2>2, <3>1 DEF Latest
        <3> QED BY <3>2
    <2>4. RequestsIn(q, a) # {}
        BY <2>2
    <2> QED BY <1>3, <2>1, <2>3, <2>4 DEF FinalOf, NoRow
<1> QED BY <1>1, <1>2, <1>3

\* An entry that is not for the alarm, or behind the end-of-job indicator, changes nothing.
LEMMA FinalAppendOther ==
    ASSUME NEW q \in Seq(Entry), NEW x \in Entry, NEW v, NEW a, x = Stop \/ x.id # a
    PROVE  /\ RequestsIn(Append(q, x), a) = RequestsIn(q, a)
           /\ FinalOf(Append(q, x), v, a) = FinalOf(q, v, a)
<1>1. PICK p : p = Append(q, x)
    OBVIOUS
<1>2. /\ p \in Seq(Entry) /\ Len(q) \in Nat /\ Len(p) = Len(q) + 1 /\ p[Len(q) + 1] = x
      /\ \A i \in 1..Len(q) : p[i] = q[i]
    BY <1>1, Longer
<1>3. \A i \in 1..Len(q) : i \in RequestsIn(p, a) <=> i \in RequestsIn(q, a)
    <2> SUFFICES ASSUME NEW i \in 1..Len(q) PROVE i \in RequestsIn(p, a) <=> i \in RequestsIn(q, a)
        OBVIOUS
    <2>1. i \in 1..Len(p) /\ \A j \in 1..i : j \in 1..Len(q) /\ p[j] = q[j]
        BY <1>2
    <2> QED BY <1>2, <2>1 DEF RequestsIn
<1>4. Len(q) + 1 \notin RequestsIn(p, a)
    BY <1>2 DEF RequestsIn
<1>5. RequestsIn(p, a) = RequestsIn(q, a)
    <2>1. \A i \in RequestsIn(p, a) : i \in 1..Len(q) \/ i = Len(q) + 1
        BY <1>2 DEF RequestsIn
    <2>2. \A i \in RequestsIn(q, a) : i \in 1..Len(q)
        BY DEF RequestsIn
    <2> QED BY <1>3, <1>4, <2>1, <2>2
<1>6. \A i \in RequestsIn(q, a) : p[i] = q[i]
    BY <1>2 DEF RequestsIn
<1>7. NoRow(p, v, a) <=> NoRow(q, v, a)
    BY <1>5, <1>6 DEF NoRow
<1>8. FinalOf(p, v, a) = FinalOf(q, v, a)
    <2>1. CASE NoRow(q, v, a)
        BY <1>2, <1>7, <2>1, FinalCases
    <2>2. CASE RequestsIn(q, a) = {}
        BY <1>2, <1>5, <2>2, FinalCases
    <2>3. CASE ~NoRow(q, v, a) /\ RequestsIn(q, a) # {}
        <3>1. PICK m : Latest(q, a, m)
            BY <2>3, LatestExists
        <3>2. Latest(p, a, m) /\ p[m] = q[m]
            BY <1>5, <1>6, <3>1 DEF Latest
        <3>3. FinalOf(q, v, a) = q[m].data
            BY <2>3, <3>1, FinalCases
        <3>4. FinalOf(p, v, a) = p[m].data
            BY <1>2, <1>7, <2>3, <3>2, FinalCases
        <3> QED BY <3>2, <3>3, <3>4
    <2> QED BY <2>1, <2>2, <2>3
<1> QED BY <1>1, <1>5, <1>8

\* A request before the end-of-job indicator is the last word, unless it is an UPDATE of a
\* row that will not be there.
LEMMA FinalAppendOwn ==
    ASSUME NEW q \in Seq(Entry), NEW x \in WriteRequest, NEW v,
           \A i \in 1..Len(q) : q[i] # Stop,
           x.type = "insert" \/ FinalOf(q, v, x.id) # None
    PROVE  FinalOf(Append(q, x), v, x.id) = x.data
<1>1. PICK p : p = Append(q, x)
    OBVIOUS
<1>2. PICK a : a = x.id
    OBVIOUS
<1>3. /\ p \in Seq(Entry) /\ Len(q) \in Nat /\ Len(p) = Len(q) + 1 /\ p[Len(q) + 1] = x
      /\ \A i \in 1..Len(q) : p[i] = q[i]
    BY <1>1, Longer DEF Entry
<1>4. \A i \in 1..Len(p) : (i \in 1..Len(q) \/ i = Len(q) + 1) /\ p[i] # Stop
    BY <1>3, StopIsNoRequest
<1>5. Latest(p, a, Len(q) + 1)
    <2>1. Len(q) + 1 \in 1..Len(p) /\ \A i \in 1..(Len(q) + 1) : i \in 1..Len(p)
        BY <1>3
    <2>2. Len(q) + 1 \in RequestsIn(p, a)
        BY <1>2, <1>3, <1>4, <2>1 DEF RequestsIn
    <2>3. \A i \in RequestsIn(p, a) : i <= Len(q) + 1
        BY <1>3 DEF RequestsIn
    <2> QED BY <2>2, <2>3 DEF Latest
<1>6. ~NoRow(p, v, a)
    <2>1. CASE x.type = "insert"
        BY <1>3, <1>5, <2>1 DEF NoRow, Latest
    <2>2. CASE FinalOf(q, v, a) # None
        <3>1. ~NoRow(q, v, a)
            BY <2>2, FinalCases
        <3>2. CASE v # None
            BY <3>2 DEF NoRow
        <3>3. CASE \E i \in RequestsIn(q, a) : q[i].type # "update"
            <4>1. PICK i \in RequestsIn(q, a) : q[i].type # "update"
                BY <3>3
            <4>2. i \in 1..Len(q) /\ q[i].id = a
                BY DEF RequestsIn
            <4>3. i \in 1..Len(p) /\ p[i] = q[i] /\ \A j \in 1..i : j \in 1..Len(p)
                BY <1>3, <4>2
            <4>4. i \in RequestsIn(p, a)
                BY <1>4, <4>2, <4>3 DEF RequestsIn
            <4> QED BY <4>1, <4>3, <4>4 DEF NoRow
        <3> QED BY <3>1, <3>2, <3>3 DEF NoRow
    <2> QED BY <1>2, <2>1, <2>2
<1>7. FinalOf(p, v, a) = p[Len(q) + 1].data
    BY <1>3, <1>5, <1>6, FinalCases
<1> QED BY <1>1, <1>2, <1>3, <1>7

\* The requests in q are those in p, one place further, and perhaps the first
Shifted(p, q, a) ==
    /\ \A i \in RequestsIn(p, a) : i + 1 \in RequestsIn(q, a) /\ p[i] = q[i + 1] /\ i \in Nat \ {0}
    /\ \A i \in RequestsIn(q, a) : i # 1 => i - 1 \in RequestsIn(p, a) /\ p[i - 1] = q[i] /\ i \in Nat
    /\ 1 \in RequestsIn(q, a) <=> Head(q).id = a

\* The requests when the first is taken.
LEMMA RequestsTail ==
    ASSUME NEW q \in Seq(Entry), q # <<>>, Head(q) # Stop, NEW a
    PROVE  Shifted(Tail(q), q, a)
<1>1. PICK p : p = Tail(q)
    OBVIOUS
<1>2. /\ Len(q) \in Nat \ {0} /\ Len(p) = Len(q) - 1 /\ Head(q) = q[1]
      /\ \A i \in 1..Len(p) : p[i] = q[i + 1]
    BY <1>1, Shorter
<1>3. 1 \in RequestsIn(q, a) <=> Head(q).id = a
    <2>1. 1 \in 1..Len(q) /\ \A j \in 1..1 : j = 1
        BY <1>2
    <2> QED BY <1>2, <2>1 DEF RequestsIn
<1>4. ASSUME NEW i \in RequestsIn(p, a) PROVE i + 1 \in RequestsIn(q, a) /\ p[i] = q[i + 1] /\ i \in Nat \ {0}
    <2>1. i \in 1..Len(p) /\ p[i].id = a /\ \A j \in 1..i : p[j] # Stop
        BY DEF RequestsIn
    <2>2. i + 1 \in 1..Len(q) /\ p[i] = q[i + 1] /\ i \in Nat \ {0}
        BY <1>2, <2>1
    <2>3. ASSUME NEW j \in 1..(i + 1) PROVE q[j] # Stop
        <3>1. CASE j = 1
            BY <1>2, <3>1
        <3>2. CASE j # 1
            <4>1. j - 1 \in 1..i /\ j - 1 \in 1..Len(p) /\ (j - 1) + 1 = j
                BY <1>2, <2>1, <3>2
            <4>2. p[j - 1] = q[j]
                BY <1>2, <4>1
            <4> QED BY <2>1, <4>1, <4>2
        <3> QED BY <3>1, <3>2
    <2> QED BY <2>1, <2>2, <2>3 DEF RequestsIn
<1>5. ASSUME NEW i \in RequestsIn(q, a), i # 1 PROVE i - 1 \in RequestsIn(p, a) /\ p[i - 1] = q[i] /\ i \in Nat
    <2>1. i \in 1..Len(q) /\ q[i].id = a /\ \A j \in 1..i : q[j] # Stop
        BY DEF RequestsIn
    <2>2. i - 1 \in 1..Len(p) /\ (i - 1) + 1 = i /\ i \in Nat
        BY <1>2, <1>5, <2>1
    <2>3. p[i - 1] = q[i]
        BY <1>2, <2>2
    <2>4. ASSUME NEW j \in 1..(i - 1) PROVE p[j] # Stop
        <3>1. j \in 1..Len(p) /\ j + 1 \in 1..i
            BY <1>2, <2>1, <2>2
        <3> QED BY <1>2, <2>1, <3>1
    <2> QED BY <2>1, <2>2, <2>3, <2>4 DEF RequestsIn
<1>6. Shifted(p, q, a)
    BY <1>3, <1>4, <1>5 DEF Shifted
<1> QED BY <1>1, <1>6

\* Taking a request for another alarm changes nothing.
LEMMA FinalTailOther ==
    ASSUME NEW q \in Seq(Entry), q # <<>>, Head(q) # Stop, NEW v, NEW a, Head(q).id # a
    PROVE  FinalOf(Tail(q), v, a) = FinalOf(q, v, a)
<1>1. PICK p : p = Tail(q)
    OBVIOUS
<1>2. /\ p \in Seq(Entry)
      /\ \A i \in RequestsIn(p, a) : i + 1 \in RequestsIn(q, a) /\ p[i] = q[i + 1] /\ i \in Nat \ {0}
      /\ \A i \in RequestsIn(q, a) : i - 1 \in RequestsIn(p, a) /\ p[i - 1] = q[i] /\ i \in Nat
    <2>1. p \in Seq(Entry)
        BY <1>1, Shorter
    <2>2. Shifted(p, q, a)
        BY <1>1, RequestsTail
    <2> QED BY <2>1, <2>2 DEF Shifted
<1>3. NoRow(p, v, a) <=> NoRow(q, v, a)
    BY <1>2 DEF NoRow
<1>4. CASE NoRow(q, v, a)
    <2>1. FinalOf(p, v, a) = None /\ FinalOf(q, v, a) = None
        BY <1>2, <1>3, <1>4, FinalCases
    <2> QED BY <1>1, <2>1
<1>5. CASE RequestsIn(q, a) = {}
    <2>1. RequestsIn(p, a) = {}
        BY <1>2, <1>5
    <2> QED BY <1>1, <1>2, <1>5, <2>1, FinalCases, ZenonT(40)
<1>6. CASE ~NoRow(q, v, a) /\ RequestsIn(q, a) # {}
    <2>1. PICK m : Latest(q, a, m)
        BY <1>6, LatestExists
    <2>2. Latest(p, a, m - 1) /\ p[m - 1] = q[m]
        BY <1>2, <2>1 DEF Latest
    <2>3. FinalOf(q, v, a) = q[m].data
        BY <1>6, <2>1, FinalCases
    <2>4. FinalOf(p, v, a) = p[m - 1].data
        BY <1>2, <1>3, <1>6, <2>2, FinalCases
    <2> QED BY <1>1, <2>2, <2>3, <2>4
<1> QED BY <1>4, <1>5, <1>6

\* The row after a request for its alarm
Written(x, v) == IF x.type = "insert" \/ v # None THEN x.data ELSE v

\* Executing the first request, and then taking it from the queue or repeating it, changes
\* nothing of what the row will be.
LEMMA FinalWrite ==
    ASSUME NEW q \in Seq(Entry), q # <<>>, Head(q) # Stop, NEW v
    PROVE  LET x == Head(q) IN
           /\ FinalOf(Tail(q), Written(x, v), x.id) = FinalOf(q, v, x.id)
           /\ FinalOf(q, Written(x, v), x.id) = FinalOf(q, v, x.id)
<1>1. PICK p : p = Tail(q)
    OBVIOUS
<1>2. PICK x : x = Head(q)
    OBVIOUS
<1>3. PICK a : a = x.id
    OBVIOUS
<1>4. PICK w : w = Written(x, v)
    OBVIOUS
<1>5. /\ p \in Seq(Entry) /\ x = q[1]
      /\ \A i \in RequestsIn(p, a) : i + 1 \in RequestsIn(q, a) /\ p[i] = q[i + 1] /\ i \in Nat \ {0}
      /\ \A i \in RequestsIn(q, a) : i # 1 => i - 1 \in RequestsIn(p, a) /\ p[i - 1] = q[i] /\ i \in Nat
      /\ 1 \in RequestsIn(q, a)
    <2>1. p \in Seq(Entry) /\ x = q[1]
        BY <1>1, <1>2, Shorter
    <2>2. Shifted(p, q, a)
        BY <1>1, RequestsTail
    <2> QED BY <1>2, <1>3, <2>1, <2>2 DEF Shifted
<1>6. x \in WriteRequest /\ x.data \in Data /\ x.data # None /\ x.type \in {"insert", "update"}
    <2>1. x \in WriteRequest
        BY <1>2, Shorter DEF Entry
    <2> QED BY <2>1, NoneAssumption DEF WriteRequest
<1>7. RequestsIn(q, a) \subseteq Nat
    BY LenProperties DEF RequestsIn
<1>8. PICK m : Latest(q, a, m)
    BY <1>5, LatestExists
<1>9. CASE NoRow(q, v, a)
    <2>1. x.type = "update" /\ v = None
        BY <1>5, <1>9 DEF NoRow
    <2>2. w = None /\ NoRow(q, w, a)
        BY <1>4, <1>9, <2>1 DEF Written
    <2>3. NoRow(p, w, a)
        BY <1>5, <2>2 DEF NoRow
    <2>4. FinalOf(q, v, a) = None /\ FinalOf(q, w, a) = None /\ FinalOf(p, w, a) = None
        BY <1>5, <1>9, <2>2, <2>3, FinalCases
    <2> QED BY <1>1, <1>2, <1>3, <1>4, <2>4
<1>10. CASE ~NoRow(q, v, a)
    <2>1. FinalOf(q, v, a) = q[m].data
        BY <1>8, <1>10, FinalCases
    <2>2. w = None => v = None /\ x.type = "update"
        BY <1>4, <1>6 DEF Written
    <2>3. ~NoRow(q, w, a)
        BY <1>10, <2>2 DEF NoRow
    <2>4. FinalOf(q, w, a) = q[m].data
        BY <1>8, <2>3, FinalCases
    <2>5. CASE m = 1
        <3>1. \A i \in RequestsIn(q, a) : i = 1
            <4>1. RequestsIn(q, a) \subseteq 1..Len(q)
                BY DEF RequestsIn
            <4>2. Len(q) \in Nat
                BY LenProperties
            <4> QED BY <1>8, <2>5, <4>1, <4>2 DEF Latest
        <3>2. RequestsIn(p, a) = {}
            <4> SUFFICES ASSUME NEW i \in RequestsIn(p, a) PROVE FALSE
                OBVIOUS
            <4>1. i + 1 = 1 /\ i \in Nat \ {0}
                BY <1>5, <3>1
            <4> QED BY <4>1
        <3>3. v # None \/ x.type = "insert"
            BY <1>5, <1>6, <1>10, <3>1 DEF NoRow
        <3>4. w = x.data
            BY <1>4, <3>3 DEF Written
        <3>5. FinalOf(p, w, a) = w
            BY <1>5, <3>2, FinalCases
        <3> QED BY <1>1, <1>2, <1>3, <1>4, <1>5, <2>1, <2>4, <2>5, <3>4, <3>5
    <2>6. CASE m # 1
        <3>1. m \in RequestsIn(q, a) /\ m - 1 \in RequestsIn(p, a) /\ p[m - 1] = q[m]
            BY <1>5, <1>8, <2>6 DEF Latest
        <3>2. \A i \in RequestsIn(p, a) : i <= m - 1
            <4> SUFFICES ASSUME NEW i \in RequestsIn(p, a) PROVE i <= m - 1
                OBVIOUS
            <4>1. i + 1 <= m /\ i \in Nat /\ m \in Nat
                BY <1>5, <1>7, <1>8 DEF Latest
            <4> QED BY <4>1
        <3>3. Latest(p, a, m - 1)
            BY <3>1, <3>2 DEF Latest
        <3>4. ~NoRow(p, w, a)
            <4> SUFFICES ASSUME w = None PROVE \E i \in RequestsIn(p, a) : p[i].type # "update"
                BY DEF NoRow
            <4>1. v = None /\ x.type = "update"
                BY <2>2
            <4>2. PICK i \in RequestsIn(q, a) : q[i].type # "update"
                BY <1>10, <4>1 DEF NoRow
            <4>3. i # 1
                BY <1>5, <4>1, <4>2
            <4> QED BY <1>5, <4>2, <4>3
        <3>5. FinalOf(p, w, a) = p[m - 1].data
            BY <1>5, <3>3, <3>4, FinalCases
        <3> QED BY <1>1, <1>2, <1>3, <1>4, <2>1, <2>4, <3>1, <3>5
    <2> QED BY <2>5, <2>6
<1> QED BY <1>9, <1>10

\* A deleted row without an INSERT to come stays away.
LEMMA FinalDeleted ==
    ASSUME NEW q \in Seq(Entry), NEW a,
           \A i \in 1..Len(q) : ~(q[i] # Stop /\ q[i].type = "insert" /\ q[i].id = a)
    PROVE  FinalOf(q, None, a) = None
<1>1. ASSUME NEW i \in RequestsIn(q, a) PROVE q[i].type = "update"
    <2>1. i \in 1..Len(q) /\ q[i].id = a /\ q[i] # Stop
        BY LenProperties DEF RequestsIn
    <2> QED BY <2>1, EntryData
<1>2. NoRow(q, None, a)
    BY <1>1 DEF NoRow
<1> QED BY <1>2, FinalCases

\* Without requests the row is what it is.
LEMMA FinalEmpty ==
    ASSUME NEW v, NEW a
    PROVE  RequestsIn(<<>>, a) = {} /\ FinalOf(<<>>, v, a) = v
<1>1. RequestsIn(<<>>, a) = {}
    BY DEF RequestsIn
<1> QED BY <1>1 DEF FinalOf

\* Without its row an alarm ends up as it would have, or without a row.
LEMMA FinalRowGone ==
    ASSUME NEW q, NEW v, NEW a
    PROVE  FinalOf(q, None, a) = FinalOf(q, v, a) \/ FinalOf(q, None, a) = None
BY DEF FinalOf, NoRow

-----------------------------------------------------------------------------
(* Steps *)

\* The invariant holds when the server is started for the first time.
LEMMA InitIInv == Init => IInv
<1> SUFFICES ASSUME Init PROVE IInv
    OBVIOUS
<1>1. /\ writerQueue = <<>> /\ sqlQueue = <<>> /\ phase = "running" /\ deleting = {} /\ list = {}
      /\ cleanup = None /\ changes = 0
      /\ \A a \in Alarm : /\ row[a] = None /\ creator[a] = "none"
                          /\ alarm[a].version = 0 /\ ~alarm[a].terminated
    BY DEF Init
<1>2. TypeOK
    <2>1. 0 \in EventId
        BY BoundAssumption DEF EventId
    <2>2. alarm \in [Alarm -> Data] /\ event \in [Alarm -> EventId] /\ rowEvent \in [Alarm -> EventId]
        BY <2>1 DEF Init
    <2>3. changes \in 0..MaxChanges /\ failures \in 0..MaxFailures /\ crashes \in 0..MaxCrashes
        BY BoundAssumption DEF Init
    <2>4. /\ row \in [Alarm -> Data \cup {None}] /\ snapshot \in [Alarm -> WriteRequest \cup {None}]
          /\ creator \in [Alarm -> {"none", "added", "copied", "done"}]
        BY DEF Init
    <2>5. /\ writerQueue \in Seq(WriteRequest \cup {Stop})
          /\ sqlQueue \in Seq([type : {"delete"}, id : Alarm] \cup {Stop})
        BY <1>1
    <2>6. /\ phase \in {"running", "closing", "flushing", "ending", "stopped", "crashed"}
          /\ list \subseteq Alarm /\ deleting \subseteq Alarm /\ overtaken \subseteq Alarm /\ cleanup \in Object \cup {None}
        BY DEF Init
    <2> QED BY <2>2, <2>3, <2>4, <2>5, <2>6 DEF TypeOK
<1>3. PhaseFits
    BY <1>1 DEF PhaseFits, Up, Creating
<1>4. WrittenOut
    BY <1>1 DEF WrittenOut
<1>5. ASSUME NEW a \in Alarm PROVE Fits(a)
    <2>1. ~Dying(a) /\ ~Pending(writerQueue, a)
        BY <1>1 DEF Dying, Pending
    <2>2. ~alarm[a].terminated /\ alarm[a].version <= changes
        BY <1>1
    <2>3. LifeCycle(a)
        BY <1>1, <2>1, <2>2 DEF LifeCycle
    <2>4. Ordered(a)
        BY <1>1, <2>2, OrderedEmpty DEF Ordered
    <2>5. Promised(a)
        BY <1>1 DEF Promised, Creating
    <2> QED BY <2>3, <2>4, <2>5 DEF Fits
<1> QED BY <1>2, <1>3, <1>4, <1>5 DEF IInv

\* The types of what concerns one alarm.
LEMMA AlarmTyped ==
    ASSUME TypeOK, NEW a \in Alarm
    PROVE  /\ alarm[a] \in Data /\ row[a] \in Data \cup {None} /\ event[a] \in EventId
           /\ writerQueue \in Seq(Entry) /\ sqlQueue \in Seq(Statement \cup {Stop})
           /\ changes \in Int /\ alarm[a].version \in Int
BY BoundAssumption DEF TypeOK, Entry, Statement, Data

\* The memory, the row and the creation of an alarm stay as they are
Untouched(a) ==
    /\ creator'[a] = creator[a] /\ snapshot'[a] = snapshot[a] /\ alarm'[a] = alarm[a]
    /\ row'[a] = row[a] /\ (a \in list' <=> a \in list)

\* An alarm that a step does not touch, and for which the queues say the same as before.
LEMMA FitsKept ==
    ASSUME IInv, TypeOK', NEW a \in Alarm, Untouched(a), Up, overtaken \subseteq overtaken',
           Dying(a)' <=> Dying(a), Pending(writerQueue', a) => Pending(writerQueue, a),
           QueueOrdered(writerQueue, row[a], alarm[a], a) => QueueOrdered(writerQueue', row[a], alarm[a], a),
           Final(a)' = Final(a), changes <= changes', cleanup' = cleanup
    PROVE  Fits(a)'
<1>1. LifeCycle(a) /\ Ordered(a) /\ (a \notin overtaken => Promised(a))
    BY DEF IInv, Fits
<1>2. LifeCycle(a)'
    BY <1>1 DEF LifeCycle, Untouched
<1>3. Ordered(a)'
    <2>1. alarm[a].version <= changes'
        <3>1. alarm[a].version \in Int /\ changes \in Int
            BY AlarmTyped DEF IInv
        <3>2. changes' \in Int
            BY BoundAssumption DEF TypeOK
        <3> QED BY <1>1, <3>1, <3>2 DEF Ordered
    <2> QED BY <1>1, <2>1 DEF Ordered, Untouched
<1>4. Promised(a) => Promised(a)'
    BY DEF Promised, Cleaning, Creating, Untouched
<1> QED BY <1>1, <1>2, <1>3, <1>4 DEF Fits

\* Another alarm, while a request is queued.
LEMMA FitsOther ==
    ASSUME IInv, TypeOK', NEW x \in Entry, NEW a \in Alarm, x = Stop \/ x.id # a, Untouched(a), Up,
           writerQueue' = Append(writerQueue, x),
           overtaken \subseteq overtaken', UNCHANGED <<deleting, sqlQueue, cleanup>>, changes <= changes'
    PROVE  Fits(a)' /\ Requests(a)' = Requests(a)
<1>1. writerQueue \in Seq(Entry) /\ row'[a] = row[a]
    BY AlarmTyped DEF IInv, Untouched
<1>2. Pending(writerQueue', a) => Pending(writerQueue, a)
    BY <1>1, PendingAppend
<1>3. QueueOrdered(writerQueue, row[a], alarm[a], a) => QueueOrdered(writerQueue', row[a], alarm[a], a)
    BY <1>1, OrderedAppendOther
<1>4. Final(a)' = Final(a) /\ Requests(a)' = Requests(a)
    BY <1>1, FinalAppendOther, FinalNow
<1>5. Dying(a)' <=> Dying(a)
    BY DEF Dying
<1> QED BY <1>2, <1>3, <1>4, <1>5, FitsKept

\* An alarm that a step does not touch, while the queues stay as they are.
LEMMA FitsQuiet ==
    ASSUME IInv, TypeOK', NEW a \in Alarm, Untouched(a), Up, overtaken \subseteq overtaken',
           UNCHANGED <<writerQueue, changes>>, Dying(a)' <=> Dying(a), cleanup' = cleanup
    PROVE  Fits(a)' /\ Requests(a)' = Requests(a) /\ Final(a)' = Final(a)
<1>1. Final(a)' = Final(a) /\ Requests(a)' = Requests(a)
    BY FinalNow DEF Untouched
<1>2. changes <= changes'
    BY AlarmTyped DEF IInv
<1> QED BY <1>1, <1>2, FitsKept

\* A queue before the end-of-job indicator gets one more request.
LEMMA NoStopAppend ==
    ASSUME NEW q \in Seq(Entry), NEW x \in WriteRequest, \A i \in 1..Len(q) : q[i] # Stop
    PROVE  Append(q, x) \in Seq(Entry) /\ \A i \in 1..Len(Append(q, x)) : Append(q, x)[i] # Stop
<1>1. PICK p : p = Append(q, x)
    OBVIOUS
<1>2. /\ p \in Seq(Entry) /\ Len(q) \in Nat /\ Len(p) = Len(q) + 1 /\ p[Len(q) + 1] = x
      /\ \A i \in 1..Len(q) : p[i] = q[i]
    BY <1>1, Longer DEF Entry
<1>3. \A i \in 1..Len(p) : i \in 1..Len(q) \/ i = Len(q) + 1
    BY <1>2
<1>4. \A i \in 1..Len(p) : p[i] # Stop
    BY <1>2, <1>3, StopIsNoRequest
<1> QED BY <1>1, <1>2, <1>4

\* CreateNewAlarm: the new alarm is in the list, and its creation is under way.
LEMMA CreateNewAlarmIInv ==
    ASSUME IInv, NEW a \in Alarm, NEW hd \in BOOLEAN, CreateNewAlarm(a, hd)
    PROVE  IInv'
<1>1. TypeOK
    BY DEF IInv
<1>2. PICK x : x = Snapshot("update", a, alarm[a], event[a])
    OBVIOUS
<1>3. /\ phase = "running" /\ creator[a] = "none" /\ creator' = [creator EXCEPT ![a] = "added"]
      /\ writerQueue' = Append(writerQueue, x) \/ writerQueue' = writerQueue
      /\ list' = list \cup {a}
      /\ UNCHANGED <<phase, alarm, event, snapshot, deleting, cleanup, sqlQueue, row, rowEvent, bounds, overtaken>>
    BY <1>2 DEF CreateNewAlarm, table
<1>4. x \in WriteRequest /\ x \in Entry /\ x # Stop /\ x.type = "update" /\ x.id = a /\ x.data = alarm[a]
    BY <1>1, <1>2, AlarmTyped, SnapshotRequest
<1>5. writerQueue \in Seq(Entry) /\ writerQueue' \in Seq(Entry) /\ \A i \in 1..Len(writerQueue') : writerQueue'[i] # Stop
    <2>1. writerQueue \in Seq(Entry) /\ \A i \in 1..Len(writerQueue) : writerQueue[i] # Stop
        BY <1>1, <1>3, AlarmTyped DEF IInv, PhaseFits
    <2> QED BY <1>3, <1>4, <2>1, NoStopAppend
<1>6. creator' \in [Alarm -> {"none", "added", "copied", "done"}] /\ creator'[a] = "added"
      /\ \A b \in Alarm : b # a => creator'[b] = creator[b]
    BY <1>1, <1>3 DEF TypeOK
<1>7. TypeOK'
    BY <1>1, <1>3, <1>5, <1>6 DEF TypeOK, bounds, Entry
<1>8. Up /\ Up'
    BY <1>3 DEF Up
<1>9. PhaseFits'
    BY <1>3, <1>5, <1>8 DEF IInv, PhaseFits
<1>10. WrittenOut'
    BY <1>3 DEF IInv, WrittenOut
<1>11. Fits(a)'
    <2>1. /\ row[a] = None /\ ~Dying(a) /\ ~alarm[a].terminated /\ Ordered(a)
        BY <1>3 DEF IInv, Fits, LifeCycle
    <2>2. ~Dying(a)'
        BY <1>3, <2>1 DEF Dying
    <2>3. LifeCycle(a)'
        BY <1>3, <1>6, <2>1, <2>2 DEF LifeCycle
    <2>4. alarm[a] \in Data /\ row[a] \in Data \cup {None}
        BY <1>1, AlarmTyped
    <2>5. QueueOrdered(writerQueue', row[a], alarm[a], a)
        <3>1. QueueOrdered(writerQueue, row[a], alarm[a], a)
            BY <2>1 DEF Ordered
        <3>2. Older(alarm[a], x.data)
            BY <1>4, <2>4, OlderOrder
        <3>3. QueueOrdered(Append(writerQueue, x), row[a], x.data, a)
            BY <1>4, <1>5, <2>1, <2>4, <3>1, <3>2, OrderedAppendUpdate
        <3> QED BY <1>3, <1>4, <3>1, <3>3
    <2>6. Ordered(a)'
        BY <1>3, <1>6, <2>1, <2>5 DEF Ordered, bounds
    <2>7. Promised(a)'
        BY <1>3, <1>6 DEF Promised
    <2> QED BY <2>3, <2>6, <2>7 DEF Fits
<1>12. ASSUME NEW b \in Alarm, b # a PROVE Fits(b)'
    <2>1. Untouched(b)
        BY <1>3, <1>6, <1>12 DEF Untouched
    <2>2. Dying(b)' <=> Dying(b)
        BY <1>3 DEF Dying
    <2>3. changes' = changes /\ changes <= changes'
        BY <1>1, <1>3, AlarmTyped DEF bounds
    <2>4. CASE writerQueue' = Append(writerQueue, x)
        BY <1>3, <1>4, <1>7, <1>8, <1>12, <2>1, <2>3, <2>4, FitsOther
    <2>5. CASE writerQueue' = writerQueue
        BY <1>3, <1>7, <1>8, <2>1, <2>2, <2>3, <2>5, FitsQuiet
    <2> QED BY <1>3, <2>4, <2>5
<1> QED BY <1>7, <1>9, <1>10, <1>11, <1>12 DEF IInv

\* createInDatabase copies the fields, or garbage when the alarm is gone.
LEMMA CreateSnapshotIInv ==
    ASSUME IInv, NEW a \in Alarm, CreateSnapshot(a)
    PROVE  IInv'
<1>1. TypeOK
    BY DEF IInv
<1>2. PICK x : x = Snapshot("insert", a, alarm[a], event[a])
    OBVIOUS
<1>3. /\ creator[a] = "added"
      /\ \/ /\ creator' = [creator EXCEPT ![a] = "copied"] /\ snapshot' = [snapshot EXCEPT ![a] = x]
            /\ UNCHANGED overtaken
         \/ /\ a \notin list /\ creator' = [creator EXCEPT ![a] = "done"]
            /\ overtaken' = overtaken \cup {a} /\ UNCHANGED snapshot
      /\ UNCHANGED <<phase, list, alarm, event, deleting, cleanup, writerQueue, sqlQueue, row, rowEvent, bounds>>
    BY <1>2 DEF CreateSnapshot, table
<1>4. x \in WriteRequest /\ x.type = "insert" /\ x.id = a /\ x.data = alarm[a]
    BY <1>1, <1>2, AlarmTyped, SnapshotRequest
<1>5. /\ creator' \in [Alarm -> {"none", "added", "copied", "done"}]
      /\ snapshot' \in [Alarm -> WriteRequest \cup {None}]
      /\ \A b \in Alarm : b # a => creator'[b] = creator[b] /\ snapshot'[b] = snapshot[b]
      /\ overtaken \subseteq overtaken' /\ overtaken' \subseteq Alarm
      /\ \/ creator'[a] = "copied" /\ snapshot'[a] = x
         \/ creator'[a] = "done" /\ a \in overtaken'
    BY <1>1, <1>3, <1>4 DEF TypeOK
<1>6. TypeOK'
    BY <1>1, <1>3, <1>5 DEF TypeOK, bounds
<1>7. phase = "running"
    BY <1>3 DEF IInv, PhaseFits, Creating
<1>8. Up /\ Up'
    BY <1>3, <1>7 DEF Up
<1>9. PhaseFits'
    BY <1>3, <1>7, <1>8 DEF IInv, PhaseFits
<1>10. WrittenOut'
    BY <1>3, <1>5, <1>7 DEF IInv, WrittenOut
<1>11. Fits(a)'
    <2>1. /\ LifeCycle(a) /\ Ordered(a) /\ (a \notin overtaken => Promised(a))
        BY <1>8 DEF IInv, Fits
    <2>2. Dying(a)' <=> Dying(a)
        BY <1>3 DEF Dying
    <2>3. LifeCycle(a)'
        BY <1>3, <1>4, <1>5, <2>1, <2>2 DEF LifeCycle
    <2>4. Older(x.data, alarm[a])
        BY <1>1, <1>4, AlarmTyped, OlderOrder
    <2>5. Ordered(a)'
        BY <1>3, <1>5, <2>1, <2>4 DEF Ordered, bounds
    <2>6. a \notin overtaken' => Promised(a)'
        <3> SUFFICES ASSUME a \notin overtaken' PROVE Promised(a)'
            OBVIOUS
        <3>1. creator'[a] = "copied" /\ snapshot'[a] = x /\ a \notin overtaken
            BY <1>5
        <3>2. a \notin list => alarm[a].terminated \/ Cleaning(a) \/ Dying(a)
            BY <1>3, <2>1, <3>1 DEF Promised, Creating
        <3> QED BY <1>3, <1>4, <2>2, <3>1, <3>2 DEF Promised, Cleaning
    <2> QED BY <2>3, <2>5, <2>6 DEF Fits
<1>12. ASSUME NEW b \in Alarm, b # a PROVE Fits(b)'
    <2>1. Untouched(b)
        BY <1>3, <1>5, <1>12 DEF Untouched
    <2>2. Dying(b)' <=> Dying(b)
        BY <1>3 DEF Dying
    <2> QED BY <1>3, <1>5, <1>6, <1>8, <2>1, <2>2, FitsQuiet DEF bounds
<1> QED BY <1>6, <1>9, <1>10, <1>11, <1>12 DEF IInv

\* createInDatabase queues the INSERT that it has prepared.
LEMMA CreatePutIInv ==
    ASSUME IInv, NEW a \in Alarm, CreatePut(a)
    PROVE  IInv'
<1>1. TypeOK
    BY DEF IInv
<1>2. PICK x : x = snapshot[a]
    OBVIOUS
<1>3. /\ creator[a] = "copied" /\ creator' = [creator EXCEPT ![a] = "done"]
      /\ writerQueue' = Append(writerQueue, x) /\ snapshot' = [snapshot EXCEPT ![a] = None]
      /\ UNCHANGED <<phase, list, alarm, event, deleting, cleanup, sqlQueue, row, rowEvent, bounds, overtaken>>
    BY <1>2 DEF CreatePut, table
<1>4. x \in WriteRequest /\ x \in Entry /\ x.id = a /\ x.type = "insert"
    BY <1>2, <1>3 DEF IInv, Fits, LifeCycle, Entry
<1>5. phase = "running"
    BY <1>3 DEF IInv, PhaseFits, Creating
<1>6. /\ writerQueue \in Seq(Entry) /\ \A i \in 1..Len(writerQueue) : writerQueue[i] # Stop
      /\ writerQueue' \in Seq(Entry) /\ \A i \in 1..Len(writerQueue') : writerQueue'[i] # Stop
    <2>1. writerQueue \in Seq(Entry) /\ \A i \in 1..Len(writerQueue) : writerQueue[i] # Stop
        BY <1>1, <1>5, AlarmTyped DEF IInv, PhaseFits
    <2> QED BY <1>3, <1>4, <2>1, NoStopAppend
<1>7. /\ creator' \in [Alarm -> {"none", "added", "copied", "done"}] /\ creator'[a] = "done"
      /\ snapshot' \in [Alarm -> WriteRequest \cup {None}]
      /\ \A b \in Alarm : b # a => creator'[b] = creator[b] /\ snapshot'[b] = snapshot[b]
    BY <1>1, <1>3 DEF TypeOK
<1>8. TypeOK'
    BY <1>1, <1>3, <1>6, <1>7 DEF TypeOK, bounds, Entry
<1>9. Up /\ Up'
    BY <1>3, <1>5 DEF Up
<1>10. PhaseFits'
    BY <1>3, <1>5, <1>6, <1>9 DEF IInv, PhaseFits
<1>11. WrittenOut'
    BY <1>3, <1>5 DEF IInv, WrittenOut
<1>12. Fits(a)'
    <2>1. LifeCycle(a) /\ Ordered(a) /\ (a \notin overtaken => Promised(a))
        BY <1>9 DEF IInv, Fits
    <2>2. Dying(a)' <=> Dying(a)
        BY <1>3 DEF Dying
    <2>3. LifeCycle(a)'
        BY <1>3, <1>7, <2>1, <2>2 DEF LifeCycle
    <2>4. Older(x.data, alarm[a]) /\ QueueOrdered(writerQueue, row[a], alarm[a], a)
        BY <1>2, <1>3, <2>1 DEF Ordered
    <2>5. QueueOrdered(writerQueue', row[a], alarm[a], a)
        BY <1>3, <1>4, <1>6, <2>4, OrderedAppendInsert
    <2>6. Ordered(a)'
        BY <1>3, <1>7, <2>1, <2>5 DEF Ordered, bounds
    <2>7. Final(a)' = x.data
        <3>1. FinalOf(Append(writerQueue, x), row[a], x.id) = x.data
            BY <1>4, <1>6, FinalAppendOwn
        <3> QED BY <1>3, <1>4, <3>1, FinalNow
    <2>8. a \notin overtaken => Promised(a)'
        <3> SUFFICES ASSUME a \notin overtaken PROVE Promised(a)'
            OBVIOUS
        <3>1. x.data = alarm[a] /\ (a \notin list => alarm[a].terminated \/ Cleaning(a) \/ Dying(a))
            BY <1>2, <1>3, <2>1 DEF Promised, Creating
        <3> QED BY <1>3, <1>7, <2>2, <2>7, <3>1 DEF Promised, Cleaning, Creating
    <2> QED BY <1>3, <2>3, <2>6, <2>8 DEF Fits
<1>13. ASSUME NEW b \in Alarm, b # a PROVE Fits(b)'
    <2>1. Untouched(b)
        BY <1>3, <1>7, <1>13 DEF Untouched
    <2>2. changes <= changes'
        BY <1>1, <1>3, AlarmTyped DEF bounds
    <2> QED BY <1>3, <1>4, <1>8, <1>9, <1>13, <2>1, <2>2, FitsOther
<1> QED BY <1>8, <1>10, <1>11, <1>12, <1>13 DEF IInv

\* A change of an alarm in the list and its UPDATE: to newer fields, with which the alarm
\* stays in the list, or leaves it when it is terminated.
LEMMA ChangeIInv ==
    ASSUME IInv, NEW a \in Alarm, a \in list, Up, NEW d \in Data, NEW e \in EventId, Change(a, d, e), Older(alarm[a], d),
           changes' \in 0..MaxChanges, changes <= changes', d.version <= changes',
           \/ list' = list /\ ~d.terminated
           \/ list' = list \ {a} /\ d.terminated
    PROVE  IInv'
<1>1. TypeOK
    BY DEF IInv
<1>2. PICK x : x = Snapshot("update", a, d, e)
    OBVIOUS
<1>3. /\ alarm' = [alarm EXCEPT ![a] = d] /\ event' = [event EXCEPT ![a] = e]
      /\ writerQueue' = Append(writerQueue, x)
      /\ overtaken' = IF creator[a] = "copied" \/ phase # "running" THEN overtaken \cup {a} ELSE overtaken
      /\ UNCHANGED <<phase, creator, snapshot, deleting, cleanup, sqlQueue, row, rowEvent, failures, crashes>>
    BY <1>2 DEF Change, Late, table
<1>4. x \in WriteRequest /\ x \in Entry /\ x # Stop /\ x.type = "update" /\ x.id = a /\ x.data = d
    BY <1>2, SnapshotRequest
<1>5. writerQueue \in Seq(Entry) /\ writerQueue' \in Seq(Entry)
    BY <1>1, <1>3, <1>4, AlarmTyped, Longer
<1>6. /\ alarm' \in [Alarm -> Data] /\ alarm'[a] = d /\ event' \in [Alarm -> EventId]
      /\ \A b \in Alarm : b # a => alarm'[b] = alarm[b]
      /\ overtaken \subseteq overtaken' /\ overtaken' \subseteq Alarm /\ list' \subseteq list
    BY <1>1, <1>3 DEF TypeOK
<1>7. TypeOK'
    BY <1>1, <1>3, <1>5, <1>6 DEF TypeOK, Entry
<1>8. Up'
    BY <1>3 DEF Up
<1>9. PhaseFits'
    <2>1. phase = "running" => \A i \in 1..Len(writerQueue') : writerQueue'[i] # Stop
        <3> SUFFICES ASSUME phase = "running" PROVE \A i \in 1..Len(writerQueue') : writerQueue'[i] # Stop
            OBVIOUS
        <3>1. \A i \in 1..Len(writerQueue) : writerQueue[i] # Stop
            BY DEF IInv, PhaseFits
        <3> QED BY <1>3, <1>4, <1>5, <3>1, NoStopAppend
    <2> QED BY <1>3, <1>8, <2>1 DEF IInv, PhaseFits, Creating
<1>10. ASSUME NEW b \in Alarm, b # a PROVE Fits(b)' /\ Requests(b)' = Requests(b)
    <2>1. Untouched(b)
        BY <1>3, <1>6, <1>10 DEF Untouched
    <2> QED BY <1>3, <1>4, <1>6, <1>7, <1>10, <2>1, FitsOther
<1>11. WrittenOut'
    <2>1. phase \in {"flushing", "ending"} => \A b \in Alarm \ overtaken' : Requests(b)' = {}
        BY <1>3, <1>6, <1>10 DEF IInv, WrittenOut
    <2> QED BY <1>3, <1>6, <2>1 DEF IInv, WrittenOut, Up
<1>12. Fits(a)'
    <2>1. LifeCycle(a) /\ Ordered(a) /\ (a \notin overtaken => Promised(a))
        BY DEF IInv, Fits
    <2>2. Dying(a)' <=> Dying(a)
        BY <1>3 DEF Dying
    <2>3. creator[a] # "none" /\ ~Dying(a)
        BY <2>1 DEF LifeCycle
    <2>4. a \in list' => ~d.terminated
        OBVIOUS
    <2>5. LifeCycle(a)'
        BY <1>3, <1>6, <2>1, <2>2, <2>3, <2>4 DEF LifeCycle
    <2>6. alarm[a] \in Data /\ row[a] \in Data \cup {None}
        BY <1>1, AlarmTyped
    <2>7. Ordered(a)'
        <3>1. row[a] # None => Older(row[a], d)
            BY <2>1, <2>6, OlderOrder DEF Ordered
        <3>2. creator[a] = "copied" => Older(snapshot[a].data, d)
            <4> SUFFICES ASSUME creator[a] = "copied" PROVE Older(snapshot[a].data, d)
                OBVIOUS
            <4>1. snapshot[a] \in WriteRequest /\ Older(snapshot[a].data, alarm[a])
                BY <2>1 DEF LifeCycle, Ordered
            <4>2. snapshot[a].data \in Data
                BY <4>1 DEF WriteRequest
            <4> QED BY <2>6, <4>1, <4>2, OlderOrder
        <3>3. QueueOrdered(Append(writerQueue, x), row[a], x.data, a)
            BY <1>4, <1>5, <2>1, <2>6, OrderedAppendUpdate DEF Ordered
        <3> QED BY <1>3, <1>4, <1>6, <3>1, <3>2, <3>3 DEF Ordered
    <2>8. ASSUME a \notin overtaken' PROVE Promised(a)'
        <3>1. creator[a] # "copied" /\ phase = "running" /\ Promised(a)
            BY <1>3, <2>1, <2>8
        <3>2. CASE creator[a] = "done"
            <4>1. Final(a) = alarm[a] /\ Final(a) # None
                BY <2>6, <3>1, <3>2, NoneAssumption DEF Promised
            <4>2. FinalOf(writerQueue, row[a], x.id) # None
                BY <1>4, <4>1, FinalNow
            <4>3. \A i \in 1..Len(writerQueue) : writerQueue[i] # Stop
                BY <3>1 DEF IInv, PhaseFits
            <4>4. FinalOf(Append(writerQueue, x), row[a], x.id) = x.data
                BY <1>4, <1>5, <4>2, <4>3, FinalAppendOwn
            <4>5. Final(a)' = d
                BY <1>3, <1>4, <4>4, FinalNow
            <4>6. a \notin list' => d.terminated
                OBVIOUS
            <4> QED BY <1>3, <1>6, <3>2, <4>5, <4>6 DEF Promised, Creating
        <3>3. CASE creator[a] # "done"
            <4>1. a \notin list' => d.terminated
                OBVIOUS
            <4> QED BY <1>3, <1>6, <3>1, <3>3, <4>1 DEF Promised
        <3> QED BY <3>2, <3>3
    <2> QED BY <2>5, <2>7, <2>8 DEF Fits
<1> QED BY <1>7, <1>9, <1>10, <1>11, <1>12 DEF IInv

\* A change of the fields, by an event or not, or termination.
LEMMA UpdateIInv ==
    ASSUME IInv, NEW a \in Alarm, Update(a) \/ (\E o \in Object : UpdateFromEvent(a, o)) \/ Terminate(a)
    PROVE  IInv'
<1>1. TypeOK /\ a \in list /\ Up
    BY DEF IInv, Update, UpdateFromEvent, Terminate, Up
<1>2. /\ alarm[a] \in Data /\ alarm[a].version <= changes /\ ~alarm[a].terminated /\ changes \in 0..MaxChanges
      /\ event[a] \in EventId
    <2>1. alarm[a] \in Data /\ changes \in 0..MaxChanges /\ event[a] \in EventId
        BY <1>1 DEF TypeOK
    <2>2. LifeCycle(a) /\ Ordered(a)
        BY DEF IInv, Fits
    <2> QED BY <1>1, <2>1, <2>2 DEF LifeCycle, Ordered
<1>3. ASSUME NEW d, NEW e \in EventId, d \in Data, d.version = changes + 1, d.terminated = alarm[a].terminated,
             Change(a, d, e), changes < MaxChanges, changes' = changes + 1, list' = list
      PROVE  IInv'
    <2>1. changes + 1 \in 0..MaxChanges
        BY <1>2, <1>3, BoundAssumption
    <2>2. Older(alarm[a], d)
        <3>1. alarm[a].version \in Int /\ changes \in Int
            BY <1>1, AlarmTyped
        <3>2. alarm[a].version <= changes + 1
            BY <1>2, <3>1
        <3> QED BY <1>3, <3>2 DEF Older
    <2>3. changes <= changes' /\ d.version <= changes' /\ ~d.terminated
        BY <1>2, <1>3
    <2> QED BY <1>1, <1>3, <2>1, <2>2, <2>3, ChangeIInv
<1>4. changes < MaxChanges => changes + 1 \in 0..MaxChanges /\ changes + 1 \in EventId
    BY <1>2, BoundAssumption DEF EventId
<1>5. CASE Update(a)
    <2>1. PICK d : d = [alarm[a] EXCEPT !.version = changes + 1]
        OBVIOUS
    <2>2. Change(a, d, event[a]) /\ changes < MaxChanges /\ changes' = changes + 1 /\ list' = list
        BY <1>5, <2>1 DEF Update
    <2>3. d \in Data /\ d.version = changes + 1 /\ d.terminated = alarm[a].terminated
        BY <1>2, <1>4, <2>1, <2>2 DEF Data
    <2> QED BY <1>2, <1>3, <2>2, <2>3
<1>6. ASSUME NEW o \in Object, UpdateFromEvent(a, o) PROVE IInv'
    <2>1. PICK d : d = [alarm[a] EXCEPT !.version = changes + 1, !.source = o]
        OBVIOUS
    <2>2. Change(a, d, changes + 1) /\ changes < MaxChanges /\ changes' = changes + 1 /\ list' = list
        BY <1>6, <2>1 DEF UpdateFromEvent
    <2>3. d \in Data /\ d.version = changes + 1 /\ d.terminated = alarm[a].terminated
        BY <1>2, <1>4, <2>1, <2>2 DEF Data
    <2> QED BY <1>3, <1>4, <2>2, <2>3
<1>7. CASE Terminate(a)
    <2>1. PICK d : d = [alarm[a] EXCEPT !.terminated = TRUE]
        OBVIOUS
    <2>2. Change(a, d, event[a]) /\ changes' = changes /\ list' = list \ {a}
        BY <1>7, <2>1 DEF Terminate
    <2>3. d \in Data /\ d.version = alarm[a].version /\ d.terminated = TRUE
        BY <1>2, <2>1 DEF Data
    <2>4. Older(alarm[a], d)
        <3>1. alarm[a].version \in Int
            BY <1>1, AlarmTyped
        <3> QED BY <2>3, <3>1 DEF Older
    <2>5. changes <= changes' /\ d.version <= changes'
        BY <1>2, <2>2, <2>3
    <2> QED BY <1>1, <1>2, <2>2, <2>3, <2>4, <2>5, ChangeIInv
<1> QED BY <1>5, <1>6, <1>7

\* DeleteAlarm: the alarm leaves the list, its DELETE is to come.
LEMMA DeleteAlarmIInv ==
    ASSUME IInv, NEW a \in Alarm, DeleteAlarm(a)
    PROVE  IInv'
<1>1. TypeOK
    BY DEF IInv
<1>2. /\ Up /\ a \in list /\ list' = list \ {a} /\ deleting' = deleting \cup {a}
      /\ UNCHANGED <<phase, alarm, event, creator, snapshot, cleanup, writerQueue, sqlQueue, row, rowEvent, bounds, overtaken>>
    BY DEF DeleteAlarm, table
<1>3. TypeOK'
    BY <1>1, <1>2 DEF TypeOK, bounds
<1>4. Up'
    BY <1>2 DEF Up
<1>5. PhaseFits'
    BY <1>2, <1>4 DEF IInv, PhaseFits, Creating
<1>6. \A b : Requests(b)' = Requests(b)
    BY <1>2, FinalNow
<1>7. WrittenOut'
    BY <1>2, <1>6 DEF IInv, WrittenOut, Up
<1>8. Fits(a)'
    <2>1. LifeCycle(a) /\ Ordered(a) /\ (a \notin overtaken => Promised(a))
        BY <1>2 DEF IInv, Fits
    <2>2. Dying(a)' /\ a \notin list'
        BY <1>2 DEF Dying
    <2>3. creator[a] # "none"
        BY <1>2, <2>1 DEF LifeCycle
    <2>4. LifeCycle(a)'
        BY <1>2, <2>1, <2>2, <2>3 DEF LifeCycle
    <2>5. Ordered(a)'
        BY <1>2, <2>1 DEF Ordered, bounds
    <2>6. a \notin overtaken => Promised(a)'
        BY <1>2, <2>1, <2>2 DEF Promised
    <2> QED BY <1>2, <2>4, <2>5, <2>6 DEF Fits
<1>9. ASSUME NEW b \in Alarm, b # a PROVE Fits(b)'
    <2>1. Untouched(b)
        BY <1>2, <1>9 DEF Untouched
    <2>2. Dying(b)' <=> Dying(b)
        BY <1>2, <1>9 DEF Dying
    <2> QED BY <1>2, <1>3, <2>1, <2>2, FitsQuiet DEF bounds
<1> QED BY <1>3, <1>5, <1>7, <1>8, <1>9 DEF IInv

\* The DELETE is queued.
LEMMA DeleteAlarmQueueIInv ==
    ASSUME IInv, NEW a \in Alarm, DeleteAlarmQueue(a)
    PROVE  IInv'
<1>1. TypeOK
    BY DEF IInv
<1>2. PICK x : x = [type |-> "delete", id |-> a]
    OBVIOUS
<1>3. /\ Up /\ a \in deleting /\ deleting' = deleting \ {a} /\ sqlQueue' = Append(sqlQueue, x)
      /\ overtaken' = IF phase = "ending" THEN overtaken \cup {a} ELSE overtaken
      /\ UNCHANGED <<phase, list, alarm, event, creator, snapshot, cleanup, writerQueue, row, rowEvent, bounds>>
    BY <1>2 DEF DeleteAlarmQueue, table
<1>4. x \in Statement \cup {Stop} /\ x # Stop /\ x.id = a
    <2>1. x \in Statement /\ x.id = a
        BY <1>2 DEF Statement
    <2> QED BY <2>1, StopIsNoRequest
<1>5. PICK q : q = sqlQueue'
    OBVIOUS
<1>6. /\ sqlQueue \in Seq(Statement \cup {Stop}) /\ q \in Seq(Statement \cup {Stop})
      /\ Len(sqlQueue) \in Nat /\ Len(q) = Len(sqlQueue) + 1 /\ q[Len(sqlQueue) + 1] = x
      /\ \A i \in 1..Len(sqlQueue) : q[i] = sqlQueue[i]
    BY <1>1, <1>3, <1>4, <1>5, AlarmTyped, Longer
<1>7. TypeOK'
    BY <1>1, <1>3, <1>5, <1>6 DEF TypeOK, bounds, Statement
<1>8. Up'
    BY <1>3 DEF Up
<1>9. PhaseFits'
    BY <1>3, <1>8 DEF IInv, PhaseFits, Creating
<1>10. ASSUME NEW b \in Alarm PROVE Fits(b)' /\ Requests(b)' = Requests(b)
    <2>1. Untouched(b)
        BY <1>3 DEF Untouched
    <2>2. Pending(sqlQueue', b) <=> Pending(sqlQueue, b) \/ a = b
        BY <1>3, <1>4, <1>6, PendingAppend
    <2>3. Dying(b)' <=> Dying(b)
        BY <1>3, <2>2 DEF Dying
    <2>4. overtaken \subseteq overtaken'
        BY <1>3
    <2> QED BY <1>3, <1>7, <2>1, <2>3, <2>4, FitsQuiet DEF bounds
<1>11. WrittenOut'
    <2>1. \A i \in 1..Len(q) : i \in 1..Len(sqlQueue) \/ i = Len(sqlQueue) + 1
        BY <1>6
    <2>2. phase # "ending" => \A i \in 1..Len(q) : q[i] # Stop
        BY <1>4, <1>6, <2>1 DEF IInv, WrittenOut
    <2>3. ASSUME NEW i \in 1..Len(q), NEW j \in 1..Len(q), i < j, q[i] = Stop
          PROVE  q[j] # Stop /\ q[j].id \in overtaken'
        <3>1. phase = "ending"
            BY <2>2, <2>3
        <3>2. i \in 1..Len(sqlQueue) /\ sqlQueue[i] = Stop
            BY <1>4, <1>6, <2>1, <2>3
        <3>3. CASE j = Len(sqlQueue) + 1
            BY <1>3, <1>4, <1>6, <3>1, <3>3
        <3>4. CASE j \in 1..Len(sqlQueue)
            BY <1>3, <1>6, <2>3, <3>2, <3>4 DEF IInv, WrittenOut
        <3> QED BY <2>1, <3>3, <3>4
    <2>4. phase \in {"flushing", "ending"} => \A b \in Alarm \ overtaken' : Requests(b)' = {}
        BY <1>3, <1>10 DEF IInv, WrittenOut
    <2>5. phase # "stopped"
        BY <1>3 DEF Up
    <2> QED BY <1>3, <1>5, <2>2, <2>3, <2>4, <2>5 DEF WrittenOut
<1> QED BY <1>7, <1>9, <1>10, <1>11 DEF IInv

\* DeleteObjectAlarms clears the list.
LEMMA DeleteObjectAlarmsIInv ==
    ASSUME IInv, NEW o \in Object, DeleteObjectAlarms(o)
    PROVE  IInv'
<1>1. TypeOK
    BY DEF IInv
<1>2. /\ phase = "running" /\ list' = {a \in list : alarm[a].source # o}
      /\ cleanup = None /\ cleanup' = o
      /\ UNCHANGED <<phase, alarm, event, creator, snapshot, deleting, writerQueue, sqlQueue, row, rowEvent, bounds, overtaken>>
    BY DEF DeleteObjectAlarms, table
<1>3. TypeOK'
    BY <1>1, <1>2 DEF TypeOK, bounds
<1>4. Up /\ Up'
    BY <1>2 DEF Up
<1>5. PhaseFits'
    BY <1>2, <1>4 DEF IInv, PhaseFits, Creating
<1>6. WrittenOut'
    BY <1>2 DEF IInv, WrittenOut
<1>7. ASSUME NEW a \in Alarm PROVE Fits(a)'
    <2>1. LifeCycle(a) /\ Ordered(a) /\ (a \notin overtaken => Promised(a))
        BY <1>4 DEF IInv, Fits
    <2>2. Dying(a)' <=> Dying(a)
        BY <1>2 DEF Dying
    <2>3. LifeCycle(a)'
        BY <1>2, <2>1, <2>2 DEF LifeCycle
    <2>4. Ordered(a)'
        BY <1>2, <2>1 DEF Ordered, bounds
    <2>5. Final(a)' = Final(a)
        BY <1>2, FinalNow
    <2>6. alarm[a].source # cleanup
        BY <1>1, <1>2, AlarmTyped, NoneAssumption DEF Data
    <2>7. ASSUME Promised(a) PROVE Promised(a)'
        <3>1. CASE a \in list' \/ a \notin list
            BY <1>2, <2>2, <2>5, <2>6, <2>7, <3>1 DEF Promised, Creating, Cleaning
        <3>2. CASE a \in list /\ a \notin list'
            <4>1. Cleaning(a)'
                BY <1>2, <2>1, <3>2 DEF Cleaning, LifeCycle
            <4> QED BY <1>2, <2>7, <3>2, <4>1 DEF Promised
        <3> QED BY <3>1, <3>2
    <2> QED BY <1>2, <2>1, <2>3, <2>4, <2>7 DEF Fits
<1> QED BY <1>3, <1>5, <1>6, <1>7 DEF IInv

\* DeleteObjectAlarms deletes the rows, or fails.
LEMMA DeleteObjectRowsIInv ==
    ASSUME IInv, DeleteObjectRows
    PROVE  IInv'
<1>1. TypeOK
    BY DEF IInv
<1>2. /\ cleanup # None /\ cleanup' = None
      /\ UNCHANGED <<phase, list, alarm, event, creator, snapshot, deleting, writerQueue, sqlQueue,
                     rowEvent, changes, crashes>>
    BY DEF DeleteObjectRows
<1>3. /\ overtaken \subseteq overtaken' /\ overtaken' \subseteq Alarm
      /\ row' \in [Alarm -> Data \cup {None}] /\ failures' \in 0..MaxFailures
      /\ \A a \in Alarm \ overtaken' : /\ a \in list => row'[a] = row[a]
                                       /\ a \notin list /\ Cleaning(a) => row'[a] = None /\ a \notin InsertToCome
      /\ \A a \in Alarm : row'[a] = row[a] \/ row'[a] = None
    <2>1. /\ list \subseteq Alarm /\ overtaken \subseteq Alarm /\ row \in [Alarm -> Data \cup {None}]
          /\ failures \in 0..MaxFailures
        BY <1>1 DEF TypeOK
    <2>2. /\ ObjectRows \subseteq Alarm /\ \A R : Forgotten(R) \subseteq Alarm
          /\ \A R : \A a \in Alarm \ Forgotten(R) :
                a \notin list /\ Cleaning(a) => a \notin InsertToCome /\ (row[a] = None \/ a \in R)
        BY DEF ObjectRows, Forgotten, Cleaning
    <2>3. CASE /\ row' = [a \in Alarm |-> IF a \in ObjectRows THEN None ELSE row[a]] /\ UNCHANGED failures
               /\ overtaken' = overtaken \cup Forgotten(ObjectRows) \cup (ObjectRows \cap list)
        <3>1. \A a \in Alarm : row'[a] = IF a \in ObjectRows THEN None ELSE row[a]
            BY <2>3
        <3>2. row' \in [Alarm -> Data \cup {None}]
            BY <2>1, <2>3
        <3> QED BY <2>1, <2>2, <2>3, <3>1, <3>2
    <2>4. CASE /\ failures < MaxFailures /\ failures' = failures + 1 /\ UNCHANGED row
               /\ overtaken' = overtaken \cup Forgotten({})
        <3>1. failures' \in 0..MaxFailures
            BY <2>1, <2>4, BoundAssumption
        <3> QED BY <2>1, <2>2, <2>4, <3>1
    <2> QED BY <2>3, <2>4 DEF DeleteObjectRows
<1>4. phase = "running"
    BY <1>2 DEF IInv, PhaseFits
<1>5. TypeOK'
    BY <1>1, <1>2, <1>3 DEF TypeOK
<1>6. Up /\ Up'
    BY <1>2, <1>4 DEF Up
<1>7. PhaseFits'
    BY <1>2, <1>6 DEF IInv, PhaseFits, Creating
<1>8. WrittenOut'
    BY <1>2, <1>3, <1>4 DEF IInv, WrittenOut
<1>9. ASSUME NEW a \in Alarm PROVE Fits(a)'
    <2>1. LifeCycle(a) /\ Ordered(a) /\ (a \notin overtaken => Promised(a))
        BY <1>6 DEF IInv, Fits
    <2>2. Dying(a)' <=> Dying(a)
        BY <1>2 DEF Dying
    <2>3. LifeCycle(a)'
        BY <1>2, <1>3, <2>1, <2>2 DEF LifeCycle
    <2>4. Ordered(a)'
        BY <1>2, <1>3, <2>1, OrderedDelete DEF Ordered
    <2>5. ASSUME a \notin overtaken' PROVE Promised(a)'
        <3>1. a \notin overtaken /\ Promised(a)
            BY <1>3, <2>1, <2>5
        <3>2. CASE a \in list
            <4>1. Final(a)' = Final(a)
                BY <1>2, <1>3, <2>5, <3>2, FinalNow
            <4> QED BY <1>2, <3>1, <3>2, <4>1 DEF Promised
        <3>3. CASE a \notin list /\ Cleaning(a)
            <4>1. row'[a] = None /\ a \notin InsertToCome
                BY <1>3, <2>5, <3>3
            <4>2. ~Creating(a)
                BY <4>1 DEF InsertToCome
            <4>3. \A i \in 1..Len(writerQueue) :
                      ~(writerQueue[i] # Stop /\ writerQueue[i].type = "insert" /\ writerQueue[i].id = a)
                BY <4>1 DEF InsertToCome
            <4>4. writerQueue \in Seq(Entry)
                BY <1>1, AlarmTyped
            <4>5. Final(a)' = None
                BY <1>2, <4>1, <4>3, <4>4, FinalDeleted, FinalNow
            <4> QED BY <1>2, <3>3, <4>2, <4>5 DEF Promised, Creating
        <3>4. CASE a \notin list /\ ~Cleaning(a)
            <4>1. Final(a)' = Final(a) \/ Final(a)' = None
                BY <1>2, <1>3, FinalRowGone, FinalNow
            <4> QED BY <1>2, <2>2, <3>1, <3>4, <4>1 DEF Promised, Creating
        <3> QED BY <3>2, <3>3, <3>4
    <2> QED BY <2>3, <2>4, <2>5 DEF Fits
<1> QED BY <1>5, <1>7, <1>8, <1>9 DEF IInv

-----------------------------------------------------------------------------
(* The writer threads *)

\* What one attempt of the alarm writer can do: nothing, or execute the request; a request
\* that is taken from the queue has been executed.
LEMMA WriteCases ==
    ASSUME IInv, AlarmDbWriterThread
    PROVE  LET x == Head(writerQueue)
               w == Written(x, row[x.id])
           IN /\ phase \in {"running", "closing"} /\ writerQueue # <<>> /\ x # Stop
              /\ x \in WriteRequest /\ x.id \in Alarm /\ x.data \in Data
              /\ \/ UNCHANGED <<writerQueue, row>>
                 \/ /\ x.type = "insert" => row[x.id] = None
                    /\ writerQueue' = Tail(writerQueue) \/ UNCHANGED writerQueue
                    /\ row' = [row EXCEPT ![x.id] = w]
              /\ failures' \in 0..MaxFailures /\ rowEvent' \in [Alarm -> EventId]
              /\ UNCHANGED <<phase, list, alarm, event, creator, snapshot, deleting, cleanup, sqlQueue, changes,
                             crashes, overtaken>>
<1>1. TypeOK
    BY DEF IInv
<1>2. PICK x : x = Head(writerQueue)
    OBVIOUS
<1>3. /\ phase \in {"running", "closing"} /\ writerQueue # <<>> /\ x # Stop
      /\ \/ /\ Accepts(x) /\ Execute(x) /\ writerQueue' = Tail(writerQueue) /\ UNCHANGED failures
         \/ /\ ~Accepts(x) /\ WriteFailed /\ UNCHANGED <<row, rowEvent, failures>>
         \/ /\ failures < MaxFailures /\ failures' = failures + 1 /\ WriteFailed
            /\ UNCHANGED <<row, rowEvent>> \/ (Accepts(x) /\ Execute(x))
      /\ UNCHANGED <<phase, list, alarm, event, creator, snapshot, deleting, cleanup, sqlQueue, changes, crashes, overtaken>>
    BY <1>2 DEF AlarmDbWriterThread, table
<1>4. x \in WriteRequest /\ x.id \in Alarm /\ x.data \in Data
    <2>1. x \in WriteRequest \cup {Stop}
        BY <1>1, <1>2, <1>3, Shorter DEF TypeOK
    <2>2. x \in WriteRequest
        BY <1>3, <2>1
    <2> QED BY <2>2 DEF WriteRequest
<1>5. WriteFailed => writerQueue' = writerQueue
    BY <1>1, <1>3, PutBack DEF WriteFailed, TypeOK
<1>6. Execute(x) => row' = [row EXCEPT ![x.id] = Written(x, row[x.id])]
    <2> SUFFICES ASSUME Execute(x) PROVE row' = [row EXCEPT ![x.id] = Written(x, row[x.id])]
        OBVIOUS
    <2>1. row = [row EXCEPT ![x.id] = row[x.id]]
        BY <1>1 DEF TypeOK
    <2>2. CASE x.type = "insert" \/ row[x.id] # None
        BY <2>2 DEF Execute, Written
    <2>3. CASE ~(x.type = "insert" \/ row[x.id] # None)
        <3>1. Written(x, row[x.id]) = row[x.id] /\ row' = row
            BY <2>3 DEF Execute, Written
        <3> QED BY <2>1, <3>1
    <2> QED BY <2>2, <2>3
<1>7. failures' \in 0..MaxFailures
    BY <1>1, <1>3, BoundAssumption DEF TypeOK
<1>8. \/ UNCHANGED <<writerQueue, row>>
      \/ /\ x.type = "insert" => row[x.id] = None
         /\ writerQueue' = Tail(writerQueue) \/ UNCHANGED writerQueue
         /\ row' = [row EXCEPT ![x.id] = Written(x, row[x.id])]
    BY <1>3, <1>5, <1>6 DEF Accepts
<1>9. rowEvent' \in [Alarm -> EventId]
    <2>1. rowEvent \in [Alarm -> EventId] /\ x.event \in EventId
        BY <1>1, <1>4 DEF TypeOK, WriteRequest
    <2>2. Execute(x) => rowEvent' \in [Alarm -> EventId]
        BY <1>4, <2>1 DEF Execute
    <2> QED BY <1>3, <2>1, <2>2
<1> QED BY <1>2, <1>3, <1>4, <1>7, <1>8, <1>9

\* One attempt of the alarm writer keeps the invariant.
LEMMA AlarmDbWriterIInv ==
    ASSUME IInv, AlarmDbWriterThread
    PROVE  IInv'
<1>1. TypeOK
    BY DEF IInv
<1>2. PICK x : x = Head(writerQueue)
    OBVIOUS
<1>3. PICK a : a = x.id
    OBVIOUS
<1>4. PICK w : w = Written(x, row[a])
    OBVIOUS
<1>5. /\ phase \in {"running", "closing"} /\ writerQueue # <<>> /\ x # Stop
      /\ x \in WriteRequest /\ a \in Alarm /\ x.data \in Data
      /\ \/ UNCHANGED <<writerQueue, row>>
         \/ /\ x.type = "insert" => row[a] = None
            /\ writerQueue' = Tail(writerQueue) \/ UNCHANGED writerQueue
            /\ row' = [row EXCEPT ![a] = w]
      /\ failures' \in 0..MaxFailures /\ rowEvent' \in [Alarm -> EventId]
      /\ UNCHANGED <<phase, list, alarm, event, creator, snapshot, deleting, cleanup, sqlQueue, changes,
                     crashes, overtaken>>
    BY <1>2, <1>3, <1>4, WriteCases
<1>6. writerQueue \in Seq(Entry) /\ row[a] \in Data \cup {None} /\ w \in Data \cup {None}
    BY <1>1, <1>4, <1>5, AlarmTyped DEF Written
<1>7. writerQueue' \in Seq(Entry)
    BY <1>5, <1>6, Shorter
<1>8. row' \in [Alarm -> Data \cup {None}]
    BY <1>1, <1>5, <1>6 DEF TypeOK
<1>9. TypeOK'
    BY <1>1, <1>5, <1>7, <1>8 DEF TypeOK, Entry
<1>10. Up /\ Up'
    BY <1>5 DEF Up
<1>11. PhaseFits'
    <2>1. phase = "running" => \A i \in 1..Len(writerQueue') : writerQueue'[i] # Stop
        <3> SUFFICES ASSUME phase = "running", writerQueue' = Tail(writerQueue)
                     PROVE  \A i \in 1..Len(writerQueue') : writerQueue'[i] # Stop
            BY <1>5 DEF IInv, PhaseFits
        <3>1. PICK q : q = writerQueue'
            OBVIOUS
        <3>2. /\ Len(writerQueue) \in Nat /\ Len(q) = Len(writerQueue) - 1
              /\ \A i \in 1..Len(q) : q[i] = writerQueue[i + 1]
            BY <1>5, <1>6, <3>1, Shorter
        <3>3. \A i \in 1..Len(q) : i + 1 \in 1..Len(writerQueue)
            BY <3>2
        <3> QED BY <3>1, <3>2, <3>3 DEF IInv, PhaseFits
    <2> QED BY <1>5, <1>10, <2>1 DEF IInv, PhaseFits, Creating
<1>12. WrittenOut'
    BY <1>5 DEF IInv, WrittenOut
<1>13. ASSUME NEW b \in Alarm
       PROVE  /\ Pending(writerQueue', b) => Pending(writerQueue, b)
              /\ \A v : QueueOrdered(writerQueue, v, alarm[b], b) => QueueOrdered(writerQueue', v, alarm[b], b)
              /\ Dying(b)' <=> Dying(b)
    <2>1. writerQueue' = Tail(writerQueue) \/ writerQueue' = writerQueue
        BY <1>5
    <2>2. Pending(Tail(writerQueue), b) => Pending(writerQueue, b)
        BY <1>5, <1>6, PendingTail
    <2>3. ASSUME NEW v, QueueOrdered(writerQueue, v, alarm[b], b)
          PROVE  QueueOrdered(writerQueue', v, alarm[b], b)
        <3>1. QueueOrdered(Tail(writerQueue), v, alarm[b], b)
            BY <1>5, <1>6, <2>3, OrderedTail
        <3>2. CASE writerQueue' = Tail(writerQueue)
            BY <3>1, <3>2, Zenon
        <3>3. CASE writerQueue' = writerQueue
            BY <2>3, <3>3, Zenon
        <3> QED BY <2>1, <3>2, <3>3
    <2>4. Pending(writerQueue', b) => Pending(writerQueue, b)
        <3>1. CASE writerQueue' = Tail(writerQueue)
            BY <2>2, <3>1, Zenon
        <3>2. CASE writerQueue' = writerQueue
            BY <3>2, Zenon
        <3> QED BY <2>1, <3>1, <3>2
    <2>5. Dying(b)' <=> Dying(b)
        BY <1>5 DEF Dying, Pending
    <2> QED BY <2>3, <2>4, <2>5, Zenon
<1>14. ASSUME NEW b \in Alarm, b # a PROVE Fits(b)'
    <2>1. row'[b] = row[b]
        BY <1>1, <1>5, <1>14 DEF TypeOK
    <2>2. Untouched(b)
        BY <1>5, <2>1 DEF Untouched
    <2>3. Final(b)' = Final(b)
        <3>1. FinalOf(Tail(writerQueue), row[b], b) = FinalOf(writerQueue, row[b], b)
            BY <1>2, <1>3, <1>5, <1>6, <1>14, FinalTailOther
        <3> QED BY <1>5, <2>1, <3>1, FinalNow
    <2>4. changes <= changes'
        BY <1>1, <1>5, AlarmTyped
    <2> QED BY <1>5, <1>9, <1>10, <1>13, <2>2, <2>3, <2>4, FitsKept
<1>15. Fits(a)'
    <2>1. LifeCycle(a) /\ Ordered(a) /\ (a \notin overtaken => Promised(a))
        BY <1>5, <1>10 DEF IInv, Fits
    <2>2. creator[a] # "none"
        <3>1. Pending(writerQueue, a)
            BY <1>2, <1>3, <1>5, <1>6, PendingTail
        <3> QED BY <2>1, <3>1 DEF LifeCycle
    <2>3. LifeCycle(a)'
        BY <1>5, <1>13, <2>1, <2>2 DEF LifeCycle
    <2>4. row'[a] = row[a] \/ row'[a] = w
        BY <1>1, <1>5 DEF TypeOK
    <2>5. QueueOrdered(writerQueue, w, alarm[a], a) /\ (w # None => Older(w, alarm[a]))
        <3>1. CASE w = x.data
            <4>1. QueueOrdered(writerQueue, row[a], alarm[a], x.id)
                BY <1>3, <2>1 DEF Ordered
            <4>2. QueueOrdered(writerQueue, x.data, alarm[a], x.id) /\ Older(x.data, alarm[a])
                BY <1>2, <1>5, <1>6, <4>1, OrderedWrite
            <4> QED BY <1>3, <3>1, <4>2
        <3>2. CASE w = row[a]
            BY <2>1, <3>2 DEF Ordered
        <3> QED BY <1>4, <3>1, <3>2 DEF Written
    <2>6. QueueOrdered(writerQueue, row'[a], alarm[a], a) /\ (row'[a] # None => Older(row'[a], alarm[a]))
        BY <2>1, <2>4, <2>5 DEF Ordered
    <2>7. QueueOrdered(writerQueue', row'[a], alarm[a], a)
        BY <1>5, <1>13, <2>6
    <2>8. Ordered(a)'
        BY <1>5, <2>1, <2>6, <2>7 DEF Ordered
    <2>9. Final(a)' = Final(a)
        <3>1. /\ FinalOf(Tail(writerQueue), Written(x, row[a]), x.id) = FinalOf(writerQueue, row[a], x.id)
              /\ FinalOf(writerQueue, Written(x, row[a]), x.id) = FinalOf(writerQueue, row[a], x.id)
            BY <1>2, <1>5, <1>6, FinalWrite
        <3>2. /\ FinalOf(Tail(writerQueue), w, a) = FinalOf(writerQueue, row[a], a)
              /\ FinalOf(writerQueue, w, a) = FinalOf(writerQueue, row[a], a)
            BY <1>3, <1>4, <3>1
        <3>3. \/ UNCHANGED <<writerQueue, row>>
              \/ /\ writerQueue' = Tail(writerQueue) \/ writerQueue' = writerQueue
                 /\ row'[a] = w
            BY <1>1, <1>5 DEF TypeOK
        <3>4. FinalOf(writerQueue', row'[a], a) = FinalOf(writerQueue, row[a], a)
            BY <3>2, <3>3
        <3> QED BY <3>4, FinalNow
    <2>10. a \notin overtaken => Promised(a)'
        BY <1>5, <1>13, <2>1, <2>9 DEF Promised, Cleaning, Creating
    <2> QED BY <1>5, <2>3, <2>8, <2>10 DEF Fits
<1> QED BY <1>9, <1>11, <1>12, <1>14, <1>15 DEF IInv

\* The alarm writer finds its end-of-job indicator.
LEMMA AlarmWriterStopIInv ==
    ASSUME IInv, AlarmWriterStop
    PROVE  IInv'
<1>1. TypeOK
    BY DEF IInv
<1>2. /\ phase = "closing" /\ writerQueue # <<>> /\ Head(writerQueue) = Stop
      /\ writerQueue' = <<>> /\ phase' = "flushing"
      /\ UNCHANGED <<list, alarm, event, creator, snapshot, deleting, cleanup, sqlQueue, row, rowEvent, bounds, overtaken>>
    BY DEF AlarmWriterStop, table
<1>3. TypeOK'
    <2>1. writerQueue' \in Seq(WriteRequest \cup {Stop})
        BY <1>2
    <2> QED BY <1>1, <1>2, <2>1 DEF TypeOK, bounds
<1>4. Up /\ Up'
    BY <1>2 DEF Up
<1>5. \A a : Requests(a) = {} /\ Requests(a)' = {}
    <2>1. writerQueue[1] = Stop /\ Len(writerQueue) \in Nat
        BY <1>1, <1>2, Shorter DEF TypeOK
    <2>2. \A i \in 1..Len(writerQueue) : 1 \in 1..i
        BY <2>1
    <2>3. \A a : Requests(a) = {}
        BY <2>1, <2>2 DEF Requests
    <2> QED BY <1>2, <2>3, FinalEmpty, FinalNow
<1>6. PhaseFits'
    BY <1>2, <1>4 DEF IInv, PhaseFits, Creating
<1>7. WrittenOut'
    BY <1>2, <1>5 DEF IInv, WrittenOut
<1>8. ASSUME NEW a \in Alarm PROVE Fits(a)'
    <2>1. Untouched(a)
        BY <1>2 DEF Untouched
    <2>2. Dying(a)' <=> Dying(a)
        BY <1>2 DEF Dying
    <2>3. ~Pending(writerQueue', a) /\ QueueOrdered(writerQueue', row[a], alarm[a], a)
        BY <1>2, OrderedEmpty DEF Pending
    <2>4. Final(a)' = Final(a)
        <3>1. FinalOf(writerQueue, row[a], a) = row[a]
            BY <1>1, <1>5, AlarmTyped, FinalCases, FinalNow
        <3> QED BY <1>2, <3>1, FinalEmpty, FinalNow
    <2>5. changes <= changes'
        BY <1>1, <1>2, AlarmTyped DEF bounds
    <2> QED BY <1>2, <1>3, <1>4, <2>1, <2>2, <2>3, <2>4, <2>5, FitsKept
<1> QED BY <1>3, <1>6, <1>7, <1>8 DEF IInv

\* DBWriteThread executes a DELETE, or fails.
LEMMA DBWriteIInv ==
    ASSUME IInv, DBWriteThread
    PROVE  IInv'
<1>1. TypeOK
    BY DEF IInv
<1>2. PICK a : a = Head(sqlQueue).id
    OBVIOUS
<1>3. PICK q : q = sqlQueue'
    OBVIOUS
<1>4. /\ phase \in {"running", "closing", "flushing", "ending"} /\ sqlQueue # <<>>
      /\ Head(sqlQueue) # Stop /\ q = Tail(sqlQueue)
      /\ \/ /\ row' = [row EXCEPT ![a] = None] /\ UNCHANGED failures
            /\ overtaken' = IF a \in InsertToCome THEN overtaken \cup {a} ELSE overtaken
         \/ /\ failures < MaxFailures /\ failures' = failures + 1
            /\ overtaken' = overtaken \cup {a} /\ UNCHANGED row
      /\ UNCHANGED <<phase, list, alarm, event, creator, snapshot, deleting, cleanup, writerQueue, rowEvent, changes,
                     crashes>>
    BY <1>2, <1>3 DEF DBWriteThread
<1>5. /\ sqlQueue \in Seq(Statement \cup {Stop}) /\ q \in Seq(Statement \cup {Stop})
      /\ Len(sqlQueue) \in Nat \ {0} /\ Len(q) = Len(sqlQueue) - 1 /\ Head(sqlQueue) \in Statement \cup {Stop}
      /\ \A i \in 1..Len(q) : q[i] = sqlQueue[i + 1]
    <2>1. sqlQueue \in Seq(Statement \cup {Stop})
        BY <1>1 DEF TypeOK, Statement
    <2> QED BY <1>4, <2>1, Shorter
<1>6. a \in Alarm
    BY <1>2, <1>4, <1>5 DEF Statement
<1>7. /\ row' \in [Alarm -> Data \cup {None}] /\ failures' \in 0..MaxFailures
      /\ overtaken \subseteq overtaken' /\ overtaken' \subseteq Alarm
      /\ \A b \in Alarm : b # a => row'[b] = row[b]
      /\ row'[a] = None \/ (row'[a] = row[a] /\ a \in overtaken')
      /\ a \notin overtaken' => row'[a] = None /\ a \notin InsertToCome
    <2>1. CASE /\ row' = [row EXCEPT ![a] = None] /\ UNCHANGED failures
               /\ overtaken' = IF a \in InsertToCome THEN overtaken \cup {a} ELSE overtaken
        BY <1>1, <1>6, <2>1 DEF TypeOK
    <2>2. CASE /\ failures < MaxFailures /\ failures' = failures + 1
               /\ overtaken' = overtaken \cup {a} /\ UNCHANGED row
        <3>1. failures' \in 0..MaxFailures
            BY <1>1, <2>2, BoundAssumption DEF TypeOK
        <3> QED BY <1>1, <1>6, <2>2, <3>1 DEF TypeOK
    <2> QED BY <1>4, <2>1, <2>2
<1>8. TypeOK'
    BY <1>1, <1>3, <1>4, <1>5, <1>7 DEF TypeOK, Statement
<1>9. Up /\ Up'
    BY <1>4 DEF Up
<1>10. PhaseFits'
    BY <1>4, <1>9 DEF IInv, PhaseFits, Creating
<1>11. WrittenOut'
    <2>1. \A i \in 1..Len(q) : i + 1 \in 1..Len(sqlQueue)
        BY <1>5
    <2>2. \A i, j \in 1..Len(q) : i < j => i + 1 < j + 1
        BY <1>5
    <2>3. \A i, j \in 1..Len(q) : i < j /\ q[i] = Stop => q[j] # Stop /\ q[j].id \in overtaken'
        <3> SUFFICES ASSUME NEW i \in 1..Len(q), NEW j \in 1..Len(q), i < j, q[i] = Stop
                     PROVE  q[j] # Stop /\ q[j].id \in overtaken'
            OBVIOUS
        <3>1. sqlQueue[i + 1] = Stop /\ q[j] = sqlQueue[j + 1] /\ i + 1 < j + 1
            BY <1>5, <2>2
        <3>2. i + 1 \in 1..Len(sqlQueue) /\ j + 1 \in 1..Len(sqlQueue)
            BY <2>1
        <3>3. sqlQueue[j + 1] # Stop /\ sqlQueue[j + 1].id \in overtaken
            BY <3>1, <3>2 DEF IInv, WrittenOut
        <3> QED BY <1>7, <3>1, <3>3
    <2>4. phase # "ending" => \A i \in 1..Len(q) : q[i] # Stop
        BY <1>5, <2>1 DEF IInv, WrittenOut
    <2>5. phase \in {"flushing", "ending"} => \A b \in Alarm \ overtaken' : Requests(b)' = {}
        BY <1>4, <1>7, FinalNow DEF IInv, WrittenOut
    <2> QED BY <1>3, <1>4, <2>3, <2>4, <2>5 DEF WrittenOut
<1>12. Pending(sqlQueue, a) /\ \A b : b # a => (Pending(sqlQueue', b) <=> Pending(sqlQueue, b))
    BY <1>2, <1>3, <1>4, <1>5, PendingTail
<1>13. ASSUME NEW b \in Alarm, b # a PROVE Fits(b)'
    <2>1. Untouched(b)
        BY <1>4, <1>7, <1>13 DEF Untouched
    <2>2. Dying(b)' <=> Dying(b)
        BY <1>4, <1>12, <1>13 DEF Dying
    <2> QED BY <1>4, <1>7, <1>8, <1>9, <2>1, <2>2, FitsQuiet
<1>14. Fits(a)'
    <2>1. LifeCycle(a) /\ Ordered(a)
        BY <1>6 DEF IInv, Fits
    <2>2. Dying(a)
        BY <1>12 DEF Dying
    <2>3. creator[a] # "none" /\ a \notin list
        BY <2>1, <2>2 DEF LifeCycle
    <2>4. LifeCycle(a)'
        BY <1>4, <2>1, <2>3 DEF LifeCycle
    <2>5. Ordered(a)'
        BY <1>4, <1>7, <2>1, OrderedDelete DEF Ordered
    <2>6. ASSUME a \notin overtaken' PROVE Promised(a)'
        <3>1. row'[a] = None /\ a \notin InsertToCome
            BY <1>7, <2>6
        <3>2. ~Creating(a)
            BY <1>6, <3>1 DEF InsertToCome
        <3>3. \A i \in 1..Len(writerQueue) :
                  ~(writerQueue[i] # Stop /\ writerQueue[i].type = "insert" /\ writerQueue[i].id = a)
            BY <1>6, <3>1 DEF InsertToCome
        <3>4. writerQueue \in Seq(Entry)
            BY <1>1, <1>6, AlarmTyped
        <3>5. Final(a)' = None
            BY <1>4, <3>1, <3>3, <3>4, FinalDeleted, FinalNow
        <3> QED BY <1>4, <2>3, <3>2, <3>5 DEF Promised, Creating
    <2> QED BY <2>4, <2>5, <2>6 DEF Fits
<1> QED BY <1>8, <1>10, <1>11, <1>13, <1>14 DEF IInv

-----------------------------------------------------------------------------
(* Shutdown, crash and restart *)

\* ShutdownAlarmManager.
LEMMA ShutdownIInv ==
    ASSUME IInv, ShutdownAlarmManager
    PROVE  IInv'
<1>1. TypeOK
    BY DEF IInv
<1>2. /\ phase = "running" /\ cleanup = None /\ (\A a \in Alarm : ~Creating(a))
      /\ writerQueue' = Append(writerQueue, Stop) /\ phase' = "closing"
      /\ UNCHANGED <<list, alarm, event, creator, snapshot, deleting, cleanup, sqlQueue, row, rowEvent, bounds, overtaken>>
    BY DEF ShutdownAlarmManager, table
<1>3. TypeOK'
    <2>1. writerQueue' \in Seq(WriteRequest \cup {Stop})
        BY <1>1, <1>2, Longer DEF TypeOK
    <2> QED BY <1>1, <1>2, <2>1 DEF TypeOK, bounds
<1>4. Up /\ Up'
    BY <1>2 DEF Up
<1>5. PhaseFits'
    BY <1>2, <1>4 DEF PhaseFits, Creating
<1>6. WrittenOut'
    BY <1>2 DEF IInv, WrittenOut
<1>7. ASSUME NEW a \in Alarm PROVE Fits(a)'
    <2>1. Untouched(a)
        BY <1>2 DEF Untouched
    <2>2. changes <= changes'
        BY <1>1, <1>2, AlarmTyped DEF bounds
    <2> QED BY <1>2, <1>3, <1>4, <2>1, <2>2, FitsOther DEF Entry
<1> QED BY <1>3, <1>5, <1>6, <1>7 DEF IInv

\* StopDBWriter.
LEMMA StopDBWriterIInv ==
    ASSUME IInv, StopDBWriter
    PROVE  IInv'
<1>1. TypeOK
    BY DEF IInv
<1>2. PICK q : q = sqlQueue'
    OBVIOUS
<1>3. /\ phase = "flushing" /\ q = Append(sqlQueue, Stop) /\ phase' = "ending"
      /\ UNCHANGED <<list, alarm, event, creator, snapshot, deleting, cleanup, writerQueue, row, rowEvent, bounds, overtaken>>
    BY <1>2 DEF StopDBWriter, table
<1>4. /\ sqlQueue \in Seq(Statement \cup {Stop}) /\ q \in Seq(Statement \cup {Stop})
      /\ Len(sqlQueue) \in Nat /\ Len(q) = Len(sqlQueue) + 1
      /\ \A i \in 1..Len(sqlQueue) : q[i] = sqlQueue[i]
    <2>1. sqlQueue \in Seq(Statement \cup {Stop})
        BY <1>1 DEF TypeOK, Statement
    <2> QED BY <1>3, <2>1, Longer
<1>5. TypeOK'
    BY <1>1, <1>2, <1>3, <1>4 DEF TypeOK, bounds, Statement
<1>6. Up /\ Up'
    BY <1>3 DEF Up
<1>7. PhaseFits'
    BY <1>3, <1>6 DEF IInv, PhaseFits, Creating
<1>8. ASSUME NEW a \in Alarm PROVE Fits(a)' /\ Requests(a)' = Requests(a)
    <2>1. Untouched(a)
        BY <1>3 DEF Untouched
    <2>2. Pending(sqlQueue', a) <=> Pending(sqlQueue, a)
        BY <1>2, <1>3, <1>4, PendingAppend
    <2>3. Dying(a)' <=> Dying(a)
        BY <1>3, <2>2 DEF Dying
    <2> QED BY <1>3, <1>5, <1>6, <2>1, <2>3, FitsQuiet DEF bounds
<1>9. WrittenOut'
    <2>1. \A i \in 1..Len(sqlQueue) : sqlQueue[i] # Stop
        BY <1>3 DEF IInv, WrittenOut
    <2>2. \A i, j \in 1..Len(q) : i < j => i \in 1..Len(sqlQueue)
        BY <1>4
    <2>3. \A i, j \in 1..Len(q) : ~(i < j /\ q[i] = Stop)
        BY <1>4, <2>1, <2>2
    <2>4. \A a \in Alarm \ overtaken' : Requests(a)' = {}
        BY <1>3, <1>8 DEF IInv, WrittenOut
    <2> QED BY <1>2, <1>3, <2>3, <2>4 DEF WrittenOut
<1> QED BY <1>5, <1>7, <1>8, <1>9 DEF IInv

\* The end of the process, orderly or not.
LEMMA EndIInv ==
    ASSUME IInv, Exit \/ Crash
    PROVE  IInv'
<1>1. TypeOK
    BY DEF IInv
<1>2. /\ writerQueue' = <<>> /\ sqlQueue' = <<>> /\ deleting' = {} /\ cleanup' = None
      /\ creator' = [a \in Alarm |-> IF Creating(a) THEN "done" ELSE creator[a]]
      /\ snapshot' = [a \in Alarm |-> None]
      /\ UNCHANGED <<list, alarm, event, row, rowEvent, changes, failures>>
      /\ \/ phase = "ending" /\ sqlQueue # <<>> /\ Head(sqlQueue) = Stop /\ phase' = "stopped"
            /\ overtaken' = overtaken \cup deleting /\ UNCHANGED crashes
         \/ phase' = "crashed" /\ UNCHANGED overtaken /\ crashes < MaxCrashes /\ crashes' = crashes + 1
    BY DEF Exit, Crash, End, table
<1>3. \A a \in Alarm : creator'[a] \in {"none", "done"} /\ (creator'[a] = "none" => creator[a] = "none")
    BY <1>1, <1>2 DEF TypeOK, Creating
<1>4. TypeOK'
    <2>1. /\ writerQueue' \in Seq(WriteRequest \cup {Stop})
          /\ sqlQueue' \in Seq([type : {"delete"}, id : Alarm] \cup {Stop})
        BY <1>2
    <2>2. /\ creator' \in [Alarm -> {"none", "added", "copied", "done"}]
          /\ snapshot' \in [Alarm -> WriteRequest \cup {None}]
        BY <1>2, <1>3
    <2>3. crashes' \in 0..MaxCrashes
        BY <1>1, <1>2, BoundAssumption DEF TypeOK
    <2>4. /\ overtaken' \subseteq Alarm
          /\ phase' \in {"running", "closing", "flushing", "ending", "stopped", "crashed"}
        BY <1>1, <1>2 DEF TypeOK
    <2> QED BY <1>1, <1>2, <2>1, <2>2, <2>3, <2>4 DEF TypeOK
<1>5. ~Up'
    BY <1>2 DEF Up
<1>6. PhaseFits'
    BY <1>2, <1>3 DEF PhaseFits, Creating
<1>7. ASSUME NEW a \in Alarm PROVE Fits(a)'
    <2>1. LifeCycle(a) /\ Ordered(a)
        BY DEF IInv, Fits
    <2>2. ~Dying(a)' /\ ~Pending(writerQueue', a)
        BY <1>2 DEF Dying, Pending
    <2>3. LifeCycle(a)'
        BY <1>2, <1>3, <2>1, <2>2 DEF LifeCycle
    <2>4. Ordered(a)'
        BY <1>2, <1>3, <2>1, OrderedEmpty DEF Ordered
    <2> QED BY <1>5, <2>3, <2>4 DEF Fits
<1>8. WrittenOut'
    <2> SUFFICES ASSUME phase' = "stopped", NEW a \in Alarm, a \notin overtaken'
                 PROVE  IF a \in list THEN row[a] = alarm[a] ELSE row[a] = None \/ row[a].terminated
        BY <1>2 DEF WrittenOut
    <2>1. /\ phase = "ending" /\ sqlQueue # <<>> /\ Head(sqlQueue) = Stop
          /\ a \notin overtaken /\ a \notin deleting
        BY <1>2
    <2>2. Up /\ cleanup = None /\ ~Creating(a)
        BY <2>1 DEF Up, IInv, PhaseFits
    <2>3. LifeCycle(a) /\ Promised(a)
        BY <2>1, <2>2 DEF IInv, Fits
    <2>4. ~Dying(a)
        <3>1. sqlQueue[1] = Stop /\ Len(sqlQueue) \in Nat \ {0}
            BY <1>1, <2>1, Shorter DEF TypeOK
        <3>2. \A j \in 1..Len(sqlQueue) : j = 1 \/ (1 < j /\ 1 \in 1..Len(sqlQueue))
            BY <3>1
        <3>3. \A j \in 1..Len(sqlQueue) : sqlQueue[j] = Stop \/ sqlQueue[j].id \in overtaken
            BY <3>1, <3>2 DEF IInv, WrittenOut
        <3> QED BY <2>1, <3>3 DEF Dying, Pending
    <2>5. Final(a) = row[a]
        <3>1. RequestsIn(writerQueue, a) = {}
            BY <2>1, FinalNow DEF IInv, WrittenOut
        <3>2. writerQueue \in Seq(Entry)
            BY <1>1, AlarmTyped
        <3>3. FinalOf(writerQueue, row[a], a) = row[a]
            BY <3>1, <3>2, FinalCases
        <3> QED BY <3>3, FinalNow
    <2>6. CASE creator[a] = "none"
        BY <2>3, <2>6 DEF LifeCycle
    <2>7. CASE creator[a] = "done"
        <3>1. ~Cleaning(a)
            BY <1>1, <2>2, AlarmTyped, NoneAssumption DEF Cleaning, Data
        <3> QED BY <2>2, <2>3, <2>4, <2>5, <2>7, <3>1 DEF Promised
    <2> QED BY <1>1, <2>2, <2>6, <2>7 DEF TypeOK, Creating
<1> QED BY <1>4, <1>6, <1>7, <1>8 DEF IInv

\* A restart loads what the table holds.
LEMMA RestartIInv ==
    ASSUME IInv, InitAlarmManager
    PROVE  IInv'
<1>1. TypeOK
    BY DEF IInv
<1>2. /\ ~Up /\ list' = Loaded /\ phase' = "running" /\ overtaken' = {}
      /\ alarm' = [a \in Alarm |-> IF a \in Loaded THEN row[a] ELSE alarm[a]]
      /\ event' = [a \in Alarm |-> IF a \in Loaded THEN rowEvent[a] ELSE event[a]]
      /\ UNCHANGED <<creator, snapshot, deleting, cleanup, writerQueue, sqlQueue, row, rowEvent, bounds>>
    BY DEF InitAlarmManager, table
<1>3. /\ writerQueue = <<>> /\ sqlQueue = <<>> /\ deleting = {} /\ cleanup = None
      /\ \A a \in Alarm : ~Creating(a)
    BY <1>2 DEF IInv, PhaseFits, Up
<1>4. /\ \A a \in Alarm : a \in Loaded <=> row[a] # None /\ ~row[a].terminated
      /\ Loaded \subseteq Alarm
    BY DEF Loaded
<1>5. /\ alarm' \in [Alarm -> Data] /\ event' \in [Alarm -> EventId]
      /\ \A a \in Alarm : alarm'[a] = IF a \in Loaded THEN row[a] ELSE alarm[a]
    BY <1>1, <1>2, <1>4 DEF TypeOK
<1>6. TypeOK'
    BY <1>1, <1>2, <1>4, <1>5 DEF TypeOK, bounds
<1>7. Up'
    BY <1>2 DEF Up
<1>8. PhaseFits'
    BY <1>2, <1>3, <1>7 DEF PhaseFits, Creating
<1>9. WrittenOut'
    BY <1>2, <1>3 DEF WrittenOut
<1>10. ASSUME NEW a \in Alarm PROVE Fits(a)'
    <2>1. LifeCycle(a) /\ Ordered(a)
        BY DEF IInv, Fits
    <2>2. ~Dying(a) /\ ~Dying(a)' /\ ~Pending(writerQueue', a)
        BY <1>2, <1>3 DEF Dying, Pending
    <2>3. creator[a] \in {"none", "done"}
        BY <1>1, <1>3 DEF TypeOK, Creating
    <2>4. LifeCycle(a)'
        <3>1. CASE a \in Loaded
            BY <1>2, <1>4, <1>5, <2>1, <2>2, <2>3, <3>1 DEF LifeCycle
        <3>2. CASE a \notin Loaded
            BY <1>2, <1>4, <1>5, <2>1, <2>2, <2>3, <3>2 DEF LifeCycle
        <3> QED BY <3>1, <3>2
    <2>5. QueueOrdered(writerQueue', row'[a], alarm'[a], a)
        BY <1>2, <1>3, OrderedEmpty
    <2>6. Ordered(a)'
        <3>1. CASE a \in Loaded
            <4>1. alarm'[a] = row[a] /\ row[a] \in Data /\ row[a] # None
                BY <1>1, <1>4, <1>5, <3>1 DEF TypeOK
            <4>2. Older(row[a], row[a]) /\ Older(row[a], alarm[a])
                BY <2>1, <4>1, OlderOrder DEF Ordered
            <4>3. row[a].version <= changes
                <5>1. row[a].version \in Int /\ alarm[a].version \in Int /\ changes \in Int
                    BY <1>1, <4>1, AlarmTyped, BoundAssumption DEF Data
                <5>2. row[a].version <= alarm[a].version /\ alarm[a].version <= changes
                    BY <2>1, <4>2 DEF Ordered, Older
                <5> QED BY <5>1, <5>2
            <4> QED BY <1>2, <2>3, <2>5, <4>1, <4>2, <4>3 DEF Ordered, bounds
        <3>2. CASE a \notin Loaded
            BY <1>2, <1>5, <2>1, <2>3, <2>5, <3>2 DEF Ordered, bounds
        <3> QED BY <3>1, <3>2
    <2>7. Final(a)' = row[a]
        BY <1>2, <1>3, FinalEmpty, FinalNow
    <2>8. Promised(a)'
        <3>1. CASE a \in Loaded
            BY <1>2, <1>5, <2>3, <2>7, <3>1 DEF Promised, Creating
        <3>2. CASE a \notin Loaded
            BY <1>2, <1>4, <2>3, <2>7, <3>2 DEF Promised, Creating
        <3> QED BY <3>1, <3>2
    <2> QED BY <2>4, <2>6, <2>8 DEF Fits
<1> QED BY <1>6, <1>8, <1>9, <1>10 DEF IInv

-----------------------------------------------------------------------------
(* The theorems *)

\* Every step preserves the invariant.
LEMMA NextIInv == IInv /\ [Next]_vars => IInv'
<1> SUFFICES ASSUME IInv, [Next]_vars PROVE IInv'
    OBVIOUS
<1>1. ASSUME NEW a \in Alarm, NEW hd \in BOOLEAN, CreateNewAlarm(a, hd) PROVE IInv'
    BY <1>1, CreateNewAlarmIInv
<1>2. ASSUME NEW a \in Alarm, CreateSnapshot(a) \/ CreatePut(a) PROVE IInv'
    BY <1>2, CreateSnapshotIInv, CreatePutIInv
<1>3. ASSUME NEW a \in Alarm, Update(a) \/ (\E o \in Object : UpdateFromEvent(a, o)) \/ Terminate(a) PROVE IInv'
    BY <1>3, UpdateIInv
<1>4. ASSUME NEW a \in Alarm, DeleteAlarm(a) \/ DeleteAlarmQueue(a) PROVE IInv'
    BY <1>4, DeleteAlarmIInv, DeleteAlarmQueueIInv
<1>5. CASE (\E o \in Object : DeleteObjectAlarms(o)) \/ DeleteObjectRows
    BY <1>5, DeleteObjectAlarmsIInv, DeleteObjectRowsIInv
<1>6. CASE AlarmDbWriterThread \/ AlarmWriterStop \/ DBWriteThread
    BY <1>6, AlarmDbWriterIInv, AlarmWriterStopIInv, DBWriteIInv
<1>7. CASE ShutdownAlarmManager \/ StopDBWriter \/ Exit \/ Crash \/ InitAlarmManager
    BY <1>7, ShutdownIInv, StopDBWriterIInv, EndIInv, RestartIInv
<1>8. CASE UNCHANGED vars
    <2>1. /\ TypeOK' /\ PhaseFits' /\ WrittenOut'
        BY <1>8 DEF IInv, vars, TypeOK, PhaseFits, WrittenOut, Up, Creating, Requests
    <2>2. ASSUME NEW a \in Alarm PROVE Fits(a)'
        <3>1. Dying(a)' <=> Dying(a)
            BY <1>8 DEF vars, Dying
        <3>2. Final(a)' = Final(a)
            BY <1>8, FinalNow DEF vars
        <3> QED BY <1>8, <3>1, <3>2 DEF IInv, Fits, LifeCycle, Ordered, Promised, Cleaning, Up, Creating, vars
    <2> QED BY <2>1, <2>2 DEF IInv
<1> QED BY <1>1, <1>2, <1>3, <1>4, <1>5, <1>6, <1>7, <1>8 DEF Next

\* The invariant holds in every reachable state.
LEMMA Invariance == Spec => []IInv
BY InitIInv, NextIInv, PTL DEF Spec

\* Every behaviour of the persistence of alarms keeps the types: the queues hold only
\* complete requests.
THEOREM TypeCorrect == Spec => []TypeOK
<1>1. IInv => TypeOK
    BY DEF IInv
<1> QED BY <1>1, Invariance, PTL

\* The table together with the queue of the alarm writer describes the alarms in memory at
\* every moment, whatever fails or crashes, for the alarms whose writes did not overtake
\* each other.
THEOREM TableCompleted == Spec => []QueueCompletesTable
<1>1. IInv => QueueCompletesTable
    <2> SUFFICES ASSUME IInv, Up, NEW a \in Alarm, Settled(a)
                 PROVE  IF a \in list THEN Final(a) = alarm[a]
                        ELSE Final(a) = None \/ Final(a).terminated \/ alarm[a].source = cleanup
        BY DEF QueueCompletesTable
    <2>1. a \notin overtaken /\ ~Creating(a) /\ ~Dying(a)
        BY DEF Settled, Dying, Pending
    <2>2. LifeCycle(a) /\ Promised(a) /\ TypeOK
        BY <2>1 DEF IInv, Fits
    <2>3. CASE creator[a] = "none"
        <3>1. a \notin list /\ row[a] = None /\ ~Pending(writerQueue, a)
            BY <2>2, <2>3 DEF LifeCycle
        <3>2. writerQueue \in Seq(Entry)
            BY <2>2, AlarmTyped
        <3>3. \A i \in 1..Len(writerQueue) : ~(writerQueue[i] # Stop /\ writerQueue[i].id = a)
            BY <3>1 DEF Pending
        <3>4. Final(a) = None
            BY <3>1, <3>2, <3>3, FinalDeleted, FinalNow
        <3> QED BY <3>1, <3>4
    <2>4. CASE creator[a] = "done"
        BY <2>1, <2>2, <2>4 DEF Promised, Cleaning
    <2> QED BY <2>1, <2>2, <2>3, <2>4 DEF TypeOK, Creating
<1> QED BY <1>1, Invariance, PTL

\* The row of an alarm never goes back to older contents: requests are executed in the
\* order of the changes, repeated ones and the INSERT that comes late included.
THEOREM RowsOnlyAdvance == Spec => RowNeverGoesBack
<1> DEFINE Advances == \A a \in Alarm : row[a] # None /\ row'[a] # None =>
                           row'[a].version >= row[a].version /\ (row[a].terminated => row'[a].terminated)
<1>1. IInv /\ [Next]_vars => [Advances]_vars
    <2> SUFFICES ASSUME IInv, [Next]_vars, NEW a \in Alarm, row[a] # None, row'[a] # None
                 PROVE  row'[a].version >= row[a].version /\ (row[a].terminated => row'[a].terminated)
        OBVIOUS
    <2>1. TypeOK /\ row[a] \in Data
        BY DEF IInv, TypeOK
    <2>2. row'[a] = row[a] \/ Older(row[a], row'[a])
        <3>1. CASE AlarmDbWriterThread
            <4>1. PICK x : x = Head(writerQueue)
                OBVIOUS
            <4>2. /\ writerQueue # <<>> /\ x # Stop /\ x \in WriteRequest
                  /\ \/ UNCHANGED row
                     \/ /\ x.type = "insert" => row[x.id] = None
                        /\ row' = [row EXCEPT ![x.id] = Written(x, row[x.id])]
                BY <3>1, <4>1, WriteCases
            <4>3. CASE x.id = a /\ row' = [row EXCEPT ![a] = x.data] /\ x.type = "update"
                <5>1. Ordered(a)
                    BY DEF IInv, Fits
                <5>2. x = writerQueue[1] /\ 1 \in 1..Len(writerQueue)
                    BY <2>1, <4>1, <4>2, Shorter DEF TypeOK
                <5>3. Older(row[a], x.data)
                    BY <4>2, <4>3, <5>1, <5>2 DEF Ordered, QueueOrdered
                <5> QED BY <2>1, <4>3, <5>3 DEF TypeOK
            <4>4. CASE x.id # a
                BY <2>1, <4>2, <4>4 DEF TypeOK
            <4>5. CASE x.id = a /\ ~UNCHANGED row
                <5>1. x.type = "update"
                    BY <4>2, <4>5 DEF WriteRequest
                <5>2. row' = [row EXCEPT ![a] = x.data]
                    BY <4>2, <4>5 DEF Written
                <5> QED BY <4>3, <4>5, <5>1, <5>2
            <4> QED BY <4>4, <4>5
        <3>2. CASE DBWriteThread
            <4>1. row' = row \/ \E b : row' = [row EXCEPT ![b] = None]
                BY <3>2 DEF DBWriteThread
            <4> QED BY <2>1, <4>1 DEF TypeOK
        <3>3. CASE DeleteObjectRows
            <4>1. row'[a] = row[a] \/ row'[a] = None
                BY <3>3 DEF DeleteObjectRows
            <4>2. row'[a] # None
                OBVIOUS
            <4> QED BY <2>1, <4>1, <4>2, OlderOrder
        <3>4. CASE UNCHANGED row
            BY <3>4
        <3>5. AlarmDbWriterThread \/ DBWriteThread \/ DeleteObjectRows \/ UNCHANGED row
            BY DEF Next, vars, CreateNewAlarm, CreateSnapshot, CreatePut, Update, UpdateFromEvent, Terminate, Change,
                   DeleteAlarm, table, DeleteAlarmQueue, DeleteObjectAlarms, AlarmWriterStop, ShutdownAlarmManager, StopDBWriter,
                   Exit, Crash, End, InitAlarmManager
        <3> QED BY <3>1, <3>2, <3>3, <3>4, <3>5
    <2>3. row'[a] \in Data
        <3>1. TypeOK'
            BY NextIInv DEF IInv
        <3> QED BY <3>1 DEF TypeOK
    <2>4. row[a].version \in Int /\ row'[a].version \in Int
        BY <2>1, <2>3, BoundAssumption DEF Data
    <2> QED BY <2>2, <2>4 DEF Older
<1>2. Spec => [][Advances]_vars
    BY <1>1, Invariance, PTL DEF Spec
<1> QED BY <1>2 DEF RowNeverGoesBack

\* After an orderly shutdown what is loaded is what was in memory, save the event columns and
\* the alarms whose writes overtook each other.
THEOREM RestartOrderly == Spec => OrderlyRestart
<1> DEFINE Same == phase = "stopped" /\ phase' = "running" =>
                       \A a \in Alarm \ overtaken :
                           (a \in list' <=> a \in list) /\ (a \in list => alarm'[a] = alarm[a])
<1>1. IInv /\ [Next]_vars => [Same]_vars
    <2> SUFFICES ASSUME IInv, [Next]_vars, phase = "stopped", phase' = "running", NEW a \in Alarm \ overtaken
                 PROVE  (a \in list' <=> a \in list) /\ (a \in list => alarm'[a] = alarm[a])
        OBVIOUS
    <2>1. InitAlarmManager
        BY DEF Next, vars, CreateNewAlarm, CreateSnapshot, CreatePut, Update, UpdateFromEvent, Terminate, Change,
               DeleteAlarm, table, DeleteAlarmQueue, DeleteObjectAlarms, DeleteObjectRows, AlarmDbWriterThread, AlarmWriterStop,
               DBWriteThread, ShutdownAlarmManager, StopDBWriter, Exit, Crash, Up
    <2>2. list' = Loaded /\ alarm' = [b \in Alarm |-> IF b \in Loaded THEN row[b] ELSE alarm[b]]
        BY <2>1 DEF InitAlarmManager, table
    <2>3. IF a \in list THEN row[a] = alarm[a] ELSE row[a] = None \/ row[a].terminated
        BY DEF IInv, WrittenOut
    <2>4. a \in list => ~alarm[a].terminated /\ alarm[a] # None
        <3>1. LifeCycle(a) /\ alarm[a] \in Data
            BY DEF IInv, Fits, TypeOK
        <3> QED BY <3>1, NoneAssumption DEF LifeCycle
    <2>5. a \in Loaded <=> row[a] # None /\ ~row[a].terminated
        BY DEF Loaded
    <2> QED BY <2>2, <2>3, <2>4, <2>5
<1>2. Spec => [][Same]_vars
    BY <1>1, Invariance, PTL DEF Spec
<1> QED BY <1>2 DEF OrderlyRestart

=============================================================================
