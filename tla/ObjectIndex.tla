---------------------------- MODULE ObjectIndex ----------------------------
(***************************************************************************)
(* The object index (src/server/core/index.cpp), by which every thread of  *)
(* the server finds network objects.  It keeps two copies of a sorted      *)
(* array.  Readers take no lock: they count themselves in at the primary   *)
(* copy.  A writer changes the secondary copy, swaps the two, waits until  *)
(* the readers have left the former primary, and repeats the change there. *)
(* Writers exclude each other by m_writerLock, so wr is the only writer.   *)
(***************************************************************************)
EXTENDS Integers, SequencesExt

CONSTANTS Key,          \* keys: object identifiers, zone UINs (0 for the default zone)
          Object,       \* objects
          Reader,       \* threads that read the index
          MaxSize       \* bound: elements up to which startup mode adds

ASSUME KeyAssumption == Key \subseteq Nat
ASSUME SizeAssumption == MaxSize \in Nat
ASSUME ReaderAssumption == IsFiniteSet(Reader)

VARIABLES
    copy,       \* the two INDEX_HEADs: elements and maxKey
    primary,    \* the copy m_primary points to; m_secondary points to the other
    readers,    \* counter of readers of every copy
    writers,    \* counter of writers of every copy
    startup,    \* m_startupMode
    dirty,      \* m_dirty
    wr,         \* the writer that holds m_writerLock
    rd,         \* every reader: where it is, and the copy it has picked
    repeated    \* history: startup mode has put a key that was there already

vars == <<copy, primary, readers, writers, startup, dirty, wr, rd, repeated>>

Copy == {1, 2}
secondary == 3 - primary
Element == [key : Key, object : Object]
EmptyHead == [elements |-> <<>>, maxKey |-> 0]
NoWriter == [pc |-> "idle"]
\* A write under way: what it does, and the position where the key was found (0 if nowhere)
Write == [pc : {"modify", "swap", "mark", "wait", "redo", "unmark"},
          what : {"put", "remove"}, key : Key, object : Object, pos : Nat]
         \cup [pc : {"modify", "swap", "mark", "wait", "redo", "unmark"}, what : {"clear"}]

-----------------------------------------------------------------------------
(* Operations on one array *)

LastKey(E) == IF E = <<>> THEN 0 ELSE E[Len(E)].key

\* qsort by key: the elements in an order in which the keys do not decrease
Sort(E) ==
    LET order == CHOOSE p \in [1..Len(E) -> 1..Len(E)] :
                    \A i, j \in 1..Len(E) : i < j => p[i] # p[j] /\ E[p[i]].key <= E[p[j]].key
    IN [i \in 1..Len(E) |-> E[order[i]]]

\* Mutant: the element at the middle is left out of the lower half twice
BugFindElement(E, key) ==
    LET search[range \in (0..Len(E)) \X (-2..Len(E))] ==
            LET first == range[1]
                last == range[2]
                mid == (first + last) \div 2
            IN IF first >= last THEN IF last >= 0 /\ key = E[last + 1].key THEN last ELSE -1
               ELSE IF key = E[mid + 1].key THEN mid
               ELSE IF key < E[mid + 1].key THEN search[<<first, mid - 2>>]
               ELSE search[<<mid + 1, last>>]
    IN IF E = <<>> \/ key < E[1].key \/ key > E[Len(E)].key THEN 0
       ELSE search[<<0, Len(E) - 1>>] + 1

\* Binary search; positions count from 0 in the search and from 1 in the result, 0 if
\* there is no such key
findElement(E, key) ==
    LET search[range \in (0..Len(E)) \X (-1..Len(E))] ==
            LET first == range[1]
                last == range[2]
                mid == (first + last) \div 2
            IN IF first >= last THEN IF key = E[last + 1].key THEN last ELSE -1
               ELSE IF key = E[mid + 1].key THEN mid
               ELSE IF key < E[mid + 1].key THEN search[<<first, mid - 1>>]
               ELSE search[<<mid + 1, last>>]
    IN IF E = <<>> \/ key < E[1].key \/ key > E[Len(E)].key THEN 0
       ELSE search[<<0, Len(E) - 1>>] + 1

\* put and remove on the secondary copy H, before the swap
PutNew(H, key, object) ==
    LET E == Append(H.elements, [key |-> key, object |-> object]) IN
    IF key < H.maxKey THEN [H EXCEPT !.elements = Sort(E)]
    ELSE [elements |-> E, maxKey |-> key]
Replace(H, i, object) == [H EXCEPT !.elements[i].object = object]
RemoveKey(H, i, key) ==
    LET E == RemoveAt(H.elements, i) IN
    [elements |-> E, maxKey |-> IF H.maxKey = key THEN LastKey(E) ELSE H.maxKey]

\* Mutant: the new element is put at the end in any case
BugCatchUp(H, new, key, object) ==
    [elements |-> Append(H.elements, [key |-> key, object |-> object]), maxKey |-> key]

\* put after the swap: copy the array, or only the new last element, from the primary
CatchUp(H, new, key, object) ==
    IF key < H.maxKey THEN [H EXCEPT !.elements = new.elements]
    ELSE [elements |-> Append(H.elements, [key |-> key, object |-> object]), maxKey |-> key]

-----------------------------------------------------------------------------
Init ==
    /\ copy = [c \in Copy |-> EmptyHead]
    /\ primary = 1
    /\ readers = [c \in Copy |-> 0] /\ writers = [c \in Copy |-> 0]
    /\ startup = FALSE /\ dirty = FALSE
    /\ wr = NoWriter
    /\ rd = [r \in Reader |-> [pc |-> "idle", h |-> 0]]
    /\ repeated = FALSE

-----------------------------------------------------------------------------
(* Startup mode: one thread loads the objects and uses the index alone.  The   *)
(* index need not be empty: the built-in objects are in it.                    *)

\* setStartupMode(true)
BeginStartup ==
    /\ ~startup /\ wr = NoWriter /\ \A r \in Reader : rd[r].pc = "idle"
    /\ startup' = TRUE /\ dirty' = FALSE
    /\ UNCHANGED <<copy, primary, readers, writers, wr, rd, repeated>>

\* put appends in any case
StartupPut(key, object) ==
    LET E == copy[primary].elements IN
    /\ startup /\ Len(E) < MaxSize
    /\ copy' = [copy EXCEPT ![primary].elements = Append(E, [key |-> key, object |-> object])]
    /\ dirty' = TRUE
    /\ repeated' = (repeated \/ \E i \in 1..Len(E) : E[i].key = key)
    /\ UNCHANGED <<primary, readers, writers, startup, wr, rd>>

\* get and remove sort the array first
Sorted(H) == [elements |-> Sort(H.elements), maxKey |-> LastKey(Sort(H.elements))]

StartupGet ==
    /\ startup /\ dirty
    /\ copy' = [copy EXCEPT ![primary] = Sorted(@)]
    /\ dirty' = FALSE
    /\ UNCHANGED <<primary, readers, writers, startup, wr, rd, repeated>>

StartupRemove(key) ==
    /\ startup
    /\ LET H == IF dirty THEN Sorted(copy[primary]) ELSE copy[primary]
           i == findElement(H.elements, key)
       IN copy' = [copy EXCEPT ![primary] =
                     IF i = 0 THEN H ELSE [H EXCEPT !.elements = RemoveAt(@, i)]]
    /\ dirty' = FALSE
    /\ UNCHANGED <<primary, readers, writers, startup, wr, rd, repeated>>

\* setStartupMode(false)
EndStartup ==
    /\ startup
    /\ startup' = FALSE /\ dirty' = FALSE
    /\ copy' = [c \in Copy |-> Sorted(copy[primary])]
    /\ UNCHANGED <<primary, readers, writers, wr, rd, repeated>>

-----------------------------------------------------------------------------
(* Writer *)

BeginPut(key, object) ==
    /\ ~startup /\ wr = NoWriter
    /\ wr' = [pc |-> "modify", what |-> "put", key |-> key, object |-> object,
              pos |-> findElement(copy[secondary].elements, key)]
    /\ UNCHANGED <<copy, primary, readers, writers, startup, dirty, rd, repeated>>

\* Nothing happens if the key is not there
BeginRemove(key) ==
    /\ ~startup /\ wr = NoWriter
    /\ LET i == findElement(copy[secondary].elements, key) IN
       /\ i # 0
       /\ wr' = [pc |-> "modify", what |-> "remove", key |-> key,
                 object |-> copy[secondary].elements[i].object, pos |-> i]
    /\ UNCHANGED <<copy, primary, readers, writers, startup, dirty, rd, repeated>>

BeginClear ==
    /\ ~startup /\ wr = NoWriter
    /\ wr' = [pc |-> "modify", what |-> "clear"]
    /\ UNCHANGED <<copy, primary, readers, writers, startup, dirty, rd, repeated>>

\* The secondary copy is being changed up to this step
Modify ==
    /\ wr.pc = "modify"
    /\ LET H == copy[secondary] IN
       copy' = [copy EXCEPT ![secondary] =
                  CASE wr.what = "put" /\ wr.pos = 0 -> PutNew(H, wr.key, wr.object)
                    [] wr.what = "put" /\ wr.pos # 0 -> Replace(H, wr.pos, wr.object)
                    [] wr.what = "remove" -> RemoveKey(H, wr.pos, wr.key)
                    [] wr.what = "clear" -> EmptyHead]
    /\ wr' = [wr EXCEPT !.pc = "swap"]
    /\ UNCHANGED <<primary, readers, writers, startup, dirty, rd, repeated>>

\* swapAndWait, in three steps
Swap ==
    /\ wr.pc = "swap"
    /\ primary' = secondary
    /\ wr' = [wr EXCEPT !.pc = "mark"]
    /\ UNCHANGED <<copy, readers, writers, startup, dirty, rd, repeated>>

Mark ==
    /\ wr.pc = "mark"
    /\ writers' = [writers EXCEPT ![secondary] = @ + 1]
    /\ wr' = [wr EXCEPT !.pc = "wait"]
    /\ UNCHANGED <<copy, primary, readers, startup, dirty, rd, repeated>>

Wait ==
    /\ wr.pc = "wait" /\ readers[secondary] = 0
    /\ wr' = [wr EXCEPT !.pc = "redo"]
    /\ UNCHANGED <<copy, primary, readers, writers, startup, dirty, rd, repeated>>

\* Mutant: a removal is not repeated
BugRedo ==
    /\ wr.pc = "redo"
    /\ LET H == copy[secondary] IN
       copy' = [copy EXCEPT ![secondary] =
                  CASE wr.what = "put" /\ wr.pos = 0 ->
                         CatchUp(H, copy[primary], wr.key, wr.object)
                    [] wr.what = "put" /\ wr.pos # 0 -> Replace(H, wr.pos, wr.object)
                    [] wr.what = "remove" -> H
                    [] wr.what = "clear" -> EmptyHead]
    /\ wr' = [wr EXCEPT !.pc = "unmark"]
    /\ UNCHANGED <<primary, readers, writers, startup, dirty, rd, repeated>>

\* The former primary is being changed up to this step
Redo ==
    /\ wr.pc = "redo"
    /\ LET H == copy[secondary] IN
       copy' = [copy EXCEPT ![secondary] =
                  CASE wr.what = "put" /\ wr.pos = 0 ->
                         CatchUp(H, copy[primary], wr.key, wr.object)
                    [] wr.what = "put" /\ wr.pos # 0 -> Replace(H, wr.pos, wr.object)
                    [] wr.what = "remove" -> RemoveKey(H, wr.pos, wr.key)
                    [] wr.what = "clear" -> EmptyHead]
    /\ wr' = [wr EXCEPT !.pc = "unmark"]
    /\ UNCHANGED <<primary, readers, writers, startup, dirty, rd, repeated>>

\* Mutant: the copy stays closed to readers
BugUnmark ==
    /\ wr.pc = "unmark"
    /\ wr' = NoWriter
    /\ UNCHANGED <<copy, primary, readers, writers, startup, dirty, rd, repeated>>

Unmark ==
    /\ wr.pc = "unmark"
    /\ writers' = [writers EXCEPT ![secondary] = @ - 1]
    /\ wr' = NoWriter
    /\ UNCHANGED <<copy, primary, readers, startup, dirty, rd, repeated>>

-----------------------------------------------------------------------------
(* Reader: acquireIndex, any of the lookups, ReleaseIndex *)

PickCopy(r) ==
    /\ ~startup /\ rd[r].pc = "idle"
    /\ rd' = [rd EXCEPT ![r] = [pc |-> "enter", h |-> primary]]
    /\ UNCHANGED <<copy, primary, readers, writers, startup, dirty, wr, repeated>>

Enter(r) ==
    /\ rd[r].pc = "enter"
    /\ readers' = [readers EXCEPT ![rd[r].h] = @ + 1]
    /\ rd' = [rd EXCEPT ![r].pc = "check"]
    /\ UNCHANGED <<copy, primary, writers, startup, dirty, wr, repeated>>

\* Mutant: the reader does not look whether the copy is closed
BugCheck(r) ==
    /\ rd[r].pc = "check"
    /\ rd' = [rd EXCEPT ![r].pc = "read"]
    /\ UNCHANGED <<copy, primary, readers, writers, startup, dirty, wr, repeated>>

Check(r) ==
    /\ rd[r].pc = "check"
    /\ rd' = [rd EXCEPT ![r].pc = IF writers[rd[r].h] = 0 THEN "read" ELSE "leave"]
    /\ UNCHANGED <<copy, primary, readers, writers, startup, dirty, wr, repeated>>

\* Mutant: a reader that was refused does not count itself out
BugLeave(r) ==
    /\ rd[r].pc \in {"read", "leave"}
    /\ readers' = IF rd[r].pc = "leave" THEN readers ELSE [readers EXCEPT ![rd[r].h] = @ - 1]
    /\ rd' = [rd EXCEPT ![r] = [pc |-> "idle", h |-> 0]]
    /\ UNCHANGED <<copy, primary, writers, startup, dirty, wr, repeated>>

\* The lookup is over, or the reader tries again
Leave(r) ==
    /\ rd[r].pc \in {"read", "leave"}
    /\ readers' = [readers EXCEPT ![rd[r].h] = @ - 1]
    /\ rd' = [rd EXCEPT ![r] = [pc |-> "idle", h |-> 0]]
    /\ UNCHANGED <<copy, primary, writers, startup, dirty, wr, repeated>>

-----------------------------------------------------------------------------
WriterStep == Modify \/ Swap \/ Mark \/ Wait \/ Redo \/ Unmark
ReaderStep(r) == Enter(r) \/ Check(r) \/ Leave(r)

Next ==
    \/ \E k \in Key, o \in Object : StartupPut(k, o) \/ BeginPut(k, o)
    \/ \E k \in Key : StartupRemove(k) \/ BeginRemove(k)
    \/ BeginStartup \/ StartupGet \/ EndStartup
    \/ BeginClear \/ WriterStep
    \/ \E r \in Reader : PickCopy(r) \/ ReaderStep(r)

Spec == Init /\ [][Next]_vars

\* Threads that have begun go on; nobody need begin
FairSpec == Spec /\ WF_vars(WriterStep) /\ \A r \in Reader : WF_vars(ReaderStep(r))

-----------------------------------------------------------------------------
\* Every variable has its type.
TypeOK ==
    /\ DOMAIN copy = Copy
    /\ \A c \in Copy : /\ copy[c].maxKey \in Key \cup {0}
                       /\ \A i \in 1..Len(copy[c].elements) : copy[c].elements[i] \in Element
    /\ primary \in Copy
    /\ readers \in [Copy -> Nat] /\ writers \in [Copy -> 0..1]
    /\ startup \in BOOLEAN /\ dirty \in BOOLEAN /\ repeated \in BOOLEAN
    /\ wr \in {NoWriter} \cup Write
    /\ rd \in [Reader -> [pc : {"idle", "enter", "check", "read", "leave"}, h : Copy \cup {0}]]

\* Outside startup mode the binary search finds every key that is in a copy, where it is,
\* and no other, whatever sequence of operations has built the array.
LookupExact ==
    ~startup => \A c \in Copy, k \in Key :
        LET E == copy[c].elements
            i == findElement(E, k)
        IN IF i = 0 THEN \A j \in 1..Len(E) : E[j].key # k ELSE i <= Len(E) /\ E[i].key = k

\* When no write is under way the two copies are the same, although every write changes
\* them separately, and takes the position found in one for the other.
CopiesAgree == ~startup /\ wr = NoWriter => copy[1] = copy[2]

\* While a writer repeats its change on the former primary copy, nobody reads that copy.
RedoExcludesReaders ==
    wr.pc = "redo" => \A r \in Reader : ~(rd[r].pc = "read" /\ rd[r].h = secondary)

\* While a writer changes the secondary copy before the swap, nobody reads that copy.
ModifyExcludesReaders ==
    wr.pc = "modify" => \A r \in Reader : ~(rd[r].pc = "read" /\ rd[r].h = secondary)

\* What the readers of the primary copy see
Content ==
    LET E == copy[primary].elements
        at(k) == CHOOSE i \in 1..Len(E) : E[i].key = k
    IN [k \in {E[i].key : i \in 1..Len(E)} |-> E[at(k)].object]

Map == INSTANCE IndexMap WITH content <- Content

\* The primary copy behaves as a map that put, remove and clear change in one step, until
\* startup mode has put a key that was there already.
ImplementsIndexMap == Map!Init /\ [][Map!Next \/ repeated']_Content

\* Every write ends: readers that come and go do not hold up a writer for ever.
WriteCompletes == wr # NoWriter ~> wr = NoWriter

=============================================================================
