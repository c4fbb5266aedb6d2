-------------------------- MODULE ObjectIndexProofs --------------------------
(***************************************************************************)
(* Proofs about the object index for any keys, objects and readers.        *)
(* RedoExcludesReaders: the writer only looks at a counter; the inductive  *)
(* invariant says what the counter counts, and that a copy stays marked    *)
(* while its writer waits for the readers and works on it.  CopiesAgree:   *)
(* the invariant says how far one copy is ahead of the other at each step. *)
(* TypeOK, LookupExact and the refinement of IndexMap: the binary search   *)
(* is exact on arrays in ascending order, sorting makes such arrays of the *)
(* same elements, every operation keeps a copy in order, and only the swap *)
(* changes what the readers see.                                           *)
(***************************************************************************)
EXTENDS ObjectIndex, SequenceLemmas

\* The readers that have counted themselves in at copy c
Inside(c) == {r \in Reader : rd[r].h = c /\ rd[r].pc \in {"check", "read", "leave"}}

\* The part of TypeOK that the argument needs
Shape ==
    /\ primary \in Copy
    /\ readers \in [Copy -> Nat] /\ writers \in [Copy -> Nat]
    /\ rd \in [Reader -> [pc : {"idle", "enter", "check", "read", "leave"}, h : Copy \cup {0}]]
    /\ \A r \in Reader : rd[r].pc # "idle" => rd[r].h \in Copy
    /\ "pc" \in DOMAIN wr

\* The reader counter of a copy is the number of readers inside it
Counted == \A c \in Copy : readers[c] = Cardinality(Inside(c))

\* A copy is closed from the moment its writer begins to wait until it has repeated the change
Marked == wr.pc \in {"wait", "redo", "unmark"} => writers[secondary] # 0

\* The inductive invariant
IInv == Shape /\ Counted /\ Marked /\ RedoExcludesReaders

\* The readers inside a copy are finitely many.
LEMMA InsideFinite == \A c : IsFiniteSet(Inside(c))
BY ReaderAssumption, FS_Subset DEF Inside

\* The invariant holds when the index is created.
LEMMA InitIInv == Init => IInv
<1> SUFFICES ASSUME Init PROVE IInv
  OBVIOUS
<1>1. \A c : Inside(c) = {}
  BY DEF Init, Inside
<1>2. Counted
  BY <1>1, FS_EmptySet DEF Init, Counted
<1>3. Shape
  BY DEF Init, Shape, Copy, NoWriter
<1>4. Marked /\ RedoExcludesReaders
  BY DEF Init, NoWriter, Marked, RedoExcludesReaders
<1> QED BY <1>2, <1>3, <1>4 DEF IInv

\* Steps of the writer, and of the startup, move no reader.
LEMMA WriterIInv ==
    ASSUME IInv, UNCHANGED <<readers, rd>>,
           \/ \E k \in Key, o \in Object : StartupPut(k, o) \/ BeginPut(k, o)
           \/ \E k \in Key : StartupRemove(k) \/ BeginRemove(k)
           \/ BeginStartup \/ StartupGet \/ EndStartup \/ BeginClear \/ WriterStep \/ UNCHANGED vars
    PROVE  IInv'
<1>1. Counted'
  BY DEF IInv, Counted, Inside
<1>2. secondary \in Copy /\ (UNCHANGED primary => UNCHANGED secondary)
  BY DEF IInv, Shape, Copy, secondary
<1>3. CASE UNCHANGED <<primary, writers, wr>>
  BY <1>1, <1>2, <1>3 DEF IInv, Shape, Marked, RedoExcludesReaders
<1>4. CASE /\ UNCHANGED <<primary, writers>>
           /\ wr'.pc = "modify" /\ "pc" \in DOMAIN wr'
  BY <1>1, <1>2, <1>4 DEF IInv, Shape, Marked, RedoExcludesReaders
<1>5. CASE Modify \/ Swap
  <2>1. "pc" \in DOMAIN wr' /\ wr'.pc \in {"swap", "mark"} /\ UNCHANGED writers /\ primary' \in Copy
    BY <1>2, <1>5 DEF Modify, Swap, IInv, Shape
  <2> QED BY <1>1, <2>1 DEF IInv, Shape, Marked, RedoExcludesReaders
<1>6. CASE Mark
  <2>1. /\ "pc" \in DOMAIN wr' /\ wr'.pc = "wait" /\ UNCHANGED primary
        /\ writers' = [writers EXCEPT ![secondary] = @ + 1]
    BY <1>6 DEF Mark, IInv, Shape
  <2>2. writers' \in [Copy -> Nat] /\ writers'[secondary] # 0
    <3>1. writers \in [Copy -> Nat]
      BY DEF IInv, Shape
    <3>2. writers[secondary] + 1 \in Nat \ {0}
      BY <1>2, <3>1
    <3> QED BY <1>2, <2>1, <3>1, <3>2
  <2> QED BY <1>1, <1>2, <2>1, <2>2 DEF IInv, Shape, Marked, RedoExcludesReaders
<1>7. CASE Wait
  <2>1. /\ "pc" \in DOMAIN wr' /\ wr'.pc = "redo" /\ wr.pc = "wait"
        /\ UNCHANGED <<primary, writers>> /\ readers[secondary] = 0
    BY <1>7 DEF Wait, IInv, Shape
  <2>2. Inside(secondary) = {}
    BY <1>2, <2>1, InsideFinite, FS_EmptySet DEF IInv, Counted
  <2>3. RedoExcludesReaders'
    BY <1>2, <2>1, <2>2 DEF RedoExcludesReaders, Inside
  <2> QED BY <1>1, <1>2, <2>1, <2>3 DEF IInv, Shape, Marked
<1>8. CASE Redo
  <2>1. /\ "pc" \in DOMAIN wr' /\ wr'.pc = "unmark" /\ wr.pc = "redo"
        /\ UNCHANGED <<primary, writers>>
    BY <1>8 DEF Redo, IInv, Shape
  <2> QED BY <1>1, <1>2, <2>1 DEF IInv, Shape, Marked, RedoExcludesReaders
<1>9. CASE Unmark
  <2>1. /\ wr' = NoWriter /\ wr.pc = "unmark" /\ UNCHANGED primary
        /\ writers' = [writers EXCEPT ![secondary] = @ - 1]
    BY <1>9 DEF Unmark
  <2>2. writers' \in [Copy -> Nat]
    <3>1. writers \in [Copy -> Nat] /\ writers[secondary] # 0
      BY <2>1 DEF IInv, Shape, Marked
    <3>2. writers[secondary] - 1 \in Nat
      BY <1>2, <3>1
    <3> QED BY <1>2, <2>1, <3>1, <3>2
  <2>3. "pc" \in DOMAIN wr' /\ wr'.pc = "idle"
    BY <2>1 DEF NoWriter
  <2> QED BY <1>1, <1>2, <2>1, <2>2, <2>3 DEF IInv, Shape, Marked, RedoExcludesReaders
<1>10. ASSUME \/ \E k \in Key, o \in Object : StartupPut(k, o)
              \/ \E k \in Key : StartupRemove(k)
              \/ BeginStartup \/ StartupGet \/ EndStartup \/ UNCHANGED vars
       PROVE  UNCHANGED <<primary, writers, wr>>
  BY <1>10 DEF StartupPut, StartupRemove, BeginStartup, StartupGet, EndStartup, vars
<1>11. ASSUME \/ \E k \in Key, o \in Object : BeginPut(k, o)
              \/ \E k \in Key : BeginRemove(k)
              \/ BeginClear
       PROVE  UNCHANGED <<primary, writers>> /\ wr'.pc = "modify" /\ "pc" \in DOMAIN wr'
  BY <1>11 DEF BeginPut, BeginRemove, BeginClear
<1> QED BY <1>3, <1>4, <1>5, <1>6, <1>7, <1>8, <1>9, <1>10, <1>11 DEF WriterStep

\* Steps of a reader: the counter keeps pace with the readers, and none passes the check
\* on a copy that is closed.
LEMMA ReaderIInv ==
    ASSUME IInv, NEW r \in Reader, PickCopy(r) \/ ReaderStep(r)
    PROVE  IInv'
<1>1. UNCHANGED <<primary, writers, wr, secondary>>
  BY DEF PickCopy, ReaderStep, Enter, Check, Leave, secondary
<1>2. Marked'
  BY <1>1 DEF IInv, Marked
<1>3. /\ rd[r] \in [pc : {"idle", "enter", "check", "read", "leave"}, h : Copy \cup {0}]
      /\ rd[r].pc # "idle" => rd[r].h \in Copy
      /\ secondary \in Copy
  BY DEF IInv, Shape, Copy, secondary
<1>4. CASE PickCopy(r)
  <2>1. \A c : Inside(c)' = Inside(c)
    BY <1>4 DEF PickCopy, Inside, IInv, Shape
  <2>2. Counted' /\ Shape'
    BY <1>4, <2>1 DEF PickCopy, Counted, Shape, IInv
  <2>3. RedoExcludesReaders'
    BY <1>1, <1>4 DEF PickCopy, RedoExcludesReaders, Shape, IInv
  <2> QED BY <1>2, <2>2, <2>3 DEF IInv
<1>5. CASE Enter(r)
  <2>0. PICK c \in Copy : c = rd[r].h
    BY <1>3, <1>5 DEF Enter
  <2>1. r \notin Inside(c)
    BY <2>0, <1>3, <1>5 DEF Enter, Inside
  <2>2. Inside(c)' = Inside(c) \cup {r}
    BY <1>5, <2>0, <2>1 DEF Enter, Inside, IInv, Shape
  <2>3. \A d \in Copy \ {c} : Inside(d)' = Inside(d)
    BY <1>5, <2>0 DEF Enter, Inside, IInv, Shape
  <2>4. Cardinality(Inside(c)') = Cardinality(Inside(c)) + 1
    BY <2>0, <2>1, <2>2, InsideFinite, FS_AddElement
  <2>5. Counted'
    BY <1>5, <2>0, <2>1, <2>3, <2>4 DEF Enter, Counted, IInv, Shape
  <2>6. Shape'
    BY <1>5, <2>0, <2>1 DEF Enter, Shape, IInv
  <2>7. RedoExcludesReaders'
    BY <1>1, <1>5 DEF Enter, RedoExcludesReaders, Shape, IInv
  <2> QED BY <1>2, <2>5, <2>6, <2>7 DEF IInv
<1>6. CASE Check(r)
  <2>1. \A d : Inside(d)' = Inside(d)
    BY <1>6 DEF Check, Inside, IInv, Shape
  <2>2. Counted'
    BY <1>6, <2>1 DEF Check, Counted, IInv
  <2>3. Shape'
    BY <1>3, <1>6 DEF Check, Shape, IInv
  <2>4. RedoExcludesReaders'
    BY <1>1, <1>3, <1>6 DEF Check, RedoExcludesReaders, Marked, Shape, IInv
  <2> QED BY <1>2, <2>2, <2>3, <2>4 DEF IInv
<1>7. CASE Leave(r)
  <2>0. PICK c \in Copy : c = rd[r].h
    BY <1>3, <1>7 DEF Leave
  <2>1. r \in Inside(c)
    BY <2>0, <1>3, <1>7 DEF Leave, Inside
  <2>2. Inside(c)' = Inside(c) \ {r}
    BY <1>7, <2>0, <2>1 DEF Leave, Inside, IInv, Shape
  <2>3. \A d \in Copy \ {c} : Inside(d)' = Inside(d)
    BY <1>7, <2>0 DEF Leave, Inside, IInv, Shape
  <2>4. Cardinality(Inside(c)') = Cardinality(Inside(c)) - 1
    BY <2>0, <2>1, <2>2, InsideFinite, FS_RemoveElement
  <2>5. Cardinality(Inside(c)') \in Nat
    BY <2>0, <2>2, InsideFinite, FS_RemoveElement, FS_CardinalityType
  <2>6. Counted'
    BY <1>7, <2>0, <2>1, <2>3, <2>4 DEF Leave, Counted, IInv, Shape
  <2>7. Shape'
    BY <1>7, <2>0, <2>1, <2>4, <2>5 DEF Leave, Counted, Shape, IInv
  <2>8. RedoExcludesReaders'
    BY <1>1, <1>7 DEF Leave, RedoExcludesReaders, Shape, IInv
  <2> QED BY <1>2, <2>6, <2>7, <2>8 DEF IInv
<1> QED BY <1>4, <1>5, <1>6, <1>7 DEF ReaderStep

\* Every step preserves the invariant.
LEMMA NextIInv == IInv /\ [Next]_vars => IInv'
<1> SUFFICES ASSUME IInv, [Next]_vars PROVE IInv'
  OBVIOUS
<1>1. CASE \E r \in Reader : PickCopy(r) \/ ReaderStep(r)
  BY <1>1, ReaderIInv
<1>2. CASE \/ \E k \in Key, o \in Object : StartupPut(k, o) \/ BeginPut(k, o)
           \/ \E k \in Key : StartupRemove(k) \/ BeginRemove(k)
           \/ BeginStartup \/ StartupGet \/ EndStartup \/ BeginClear \/ WriterStep \/ UNCHANGED vars
  <2>1. UNCHANGED <<readers, rd>>
    BY <1>2 DEF StartupPut, BeginPut, StartupRemove, BeginRemove, BeginStartup, StartupGet, EndStartup,
                BeginClear, WriterStep, Modify, Swap, Mark, Wait, Redo, Unmark, vars
  <2> QED BY <1>2, <2>1, WriterIInv
<1> QED BY <1>1, <1>2 DEF Next

\* While put, remove or clear repeats its change on the former primary copy (after
\* swapAndWait), no thread between acquireIndex and ReleaseIndex reads that copy, whatever
\* the number of readers and however their increments and the writer's marks interleave.
THEOREM RedoExclusive == Spec => []RedoExcludesReaders
<1>1. IInv => RedoExcludesReaders
  BY DEF IInv
<1> QED BY <1>1, InitIInv, NextIInv, PTL DEF Spec

-----------------------------------------------------------------------------
(* The two copies.  The writer changes them one after the other, from the same position *)
(* that was found in one of them; the invariant says at each of its steps in which      *)
(* relation they are.                                                                   *)

\* What Modify makes of a copy
Changed(H) ==
    CASE wr.what = "put" /\ wr.pos = 0 -> PutNew(H, wr.key, wr.object)
      [] wr.what = "put" /\ wr.pos # 0 -> Replace(H, wr.pos, wr.object)
      [] wr.what = "remove" -> RemoveKey(H, wr.pos, wr.key)
      [] wr.what = "clear" -> EmptyHead

\* The fields of a copy, and those of a write
HeadFields == \A c \in Copy : DOMAIN copy[c] = {"elements", "maxKey"}
WriteFields ==
    \/ wr = NoWriter
    \/ DOMAIN wr = {"pc", "what"} /\ wr.what = "clear"
    \/ DOMAIN wr = {"pc", "what", "key", "object", "pos"} /\ wr.what \in {"put", "remove"}

\* One copy is ahead of the other by the write under way from Modify to Redo, and by
\* nothing otherwise
InStep ==
    ~startup =>
        /\ wr.pc \in {"idle", "modify", "unmark"} => copy[primary] = copy[secondary]
        /\ wr.pc = "swap" => copy[secondary] = Changed(copy[primary])
        /\ wr.pc \in {"mark", "wait", "redo"} => copy[primary] = Changed(copy[secondary])

\* The inductive invariant
AInv ==
    /\ primary \in Copy /\ DOMAIN copy = Copy /\ copy = [c \in Copy |-> copy[c]]
    /\ HeadFields /\ WriteFields /\ (startup => wr = NoWriter)
    /\ InStep

\* All the changes of a copy leave it its fields.
LEMMA ChangeFields ==
    ASSUME NEW H, DOMAIN H = {"elements", "maxKey"}, NEW k, NEW o, NEW i
    PROVE  /\ DOMAIN PutNew(H, k, o) = {"elements", "maxKey"}
           /\ DOMAIN Replace(H, i, o) = {"elements", "maxKey"}
           /\ DOMAIN RemoveKey(H, i, k) = {"elements", "maxKey"}
           /\ DOMAIN EmptyHead = {"elements", "maxKey"}
           /\ DOMAIN Sorted(H) = {"elements", "maxKey"}
           /\ \A new : DOMAIN CatchUp(H, new, k, o) = {"elements", "maxKey"}
BY DEF PutNew, Replace, RemoveKey, EmptyHead, Sorted, CatchUp

\* The change after the swap, which takes the array from the other copy, makes the same as
\* the one before it.
LEMMA CatchUpSame ==
    ASSUME NEW H, DOMAIN H = {"elements", "maxKey"}, NEW k, NEW o
    PROVE  CatchUp(H, PutNew(H, k, o), k, o) = PutNew(H, k, o)
<1>1. CASE k < H.maxKey
  BY <1>1 DEF CatchUp, PutNew
<1>2. CASE ~(k < H.maxKey)
  BY <1>2 DEF CatchUp, PutNew
<1> QED BY <1>1, <1>2

\* The invariant holds when the index is created.
LEMMA InitAInv == Init => AInv
<1> SUFFICES ASSUME Init PROVE AInv
  OBVIOUS
<1>1. /\ primary = 1 /\ secondary = 2 /\ copy = [c \in Copy |-> EmptyHead] /\ 1 \in Copy /\ 2 \in Copy
      /\ wr = NoWriter /\ wr.pc = "idle" /\ ~startup
  BY DEF Init, Copy, secondary, NoWriter
<1>2. copy[1] = EmptyHead /\ copy[2] = EmptyHead
  BY <1>1
<1>3. InStep
  BY <1>1, <1>2 DEF InStep
<1>4. HeadFields
  BY <1>1 DEF HeadFields, EmptyHead
<1> QED BY <1>1, <1>3, <1>4 DEF AInv, WriteFields

\* The steps of the startup, of a reader and of a writer that begins.
LEMMA OutsideAInv ==
    ASSUME AInv,
           \/ \E k \in Key, o \in Object : StartupPut(k, o) \/ BeginPut(k, o)
           \/ \E k \in Key : StartupRemove(k) \/ BeginRemove(k)
           \/ BeginStartup \/ StartupGet \/ EndStartup \/ BeginClear
           \/ \E r \in Reader : PickCopy(r) \/ ReaderStep(r)
           \/ UNCHANGED vars
    PROVE  AInv'
<1>1. secondary \in Copy /\ secondary # primary
  BY DEF AInv, Copy, secondary
<1>2. CASE UNCHANGED <<copy, primary, startup, wr>>
  <2>1. UNCHANGED secondary /\ \A H : Changed(H)' = Changed(H)
    BY <1>2 DEF secondary, Changed
  <2> QED BY <1>2, <2>1 DEF AInv, HeadFields, WriteFields, InStep, Changed, secondary
<1>3. CASE startup /\ UNCHANGED <<primary, startup, wr>>
           /\ \E H : DOMAIN H = {"elements", "maxKey"} /\ copy' = [copy EXCEPT ![primary] = H]
  BY <1>3 DEF AInv, HeadFields, WriteFields, InStep
<1>4. CASE ~startup /\ wr = NoWriter /\ UNCHANGED <<copy, primary, startup>>
           /\ wr'.pc = "modify" /\ WriteFields'
  <2>1. UNCHANGED secondary
    BY <1>4 DEF secondary
  <2> QED BY <1>4, <2>1 DEF AInv, HeadFields, InStep, NoWriter
<1>5. CASE EndStartup
  <2>1. DOMAIN Sorted(copy[primary]) = {"elements", "maxKey"}
    BY ChangeFields DEF AInv, HeadFields
  <2>2. /\ copy' = [c \in Copy |-> Sorted(copy[primary])] /\ UNCHANGED <<primary, wr>>
        /\ wr = NoWriter /\ secondary' = secondary
    BY <1>5 DEF EndStartup, AInv, secondary
  <2>3. InStep'
    BY <1>1, <2>2 DEF InStep, NoWriter, AInv
  <2> QED BY <2>1, <2>2, <2>3 DEF AInv, HeadFields, WriteFields
<1>6. ASSUME NEW k \in Key, NEW o \in Object, StartupPut(k, o) PROVE AInv'
  <2>1. PICK e : copy' = [copy EXCEPT ![primary].elements = e]
    BY <1>6 DEF StartupPut
  <2>2. copy' = [copy EXCEPT ![primary] = [@ EXCEPT !.elements = e]]
    BY <2>1
  <2> QED BY <1>3, <1>6, <2>2 DEF StartupPut, AInv, HeadFields
<1>7. ASSUME NEW k \in Key, StartupRemove(k) PROVE AInv'
  <2>1. PICK H : /\ H = IF dirty THEN Sorted(copy[primary]) ELSE copy[primary]
                 /\ copy' = [copy EXCEPT ![primary] =
                               IF findElement(H.elements, k) = 0 THEN H
                               ELSE [H EXCEPT !.elements = RemoveAt(@, findElement(H.elements, k))]]
    BY <1>7 DEF StartupRemove
  <2>2. DOMAIN H = {"elements", "maxKey"}
    BY <2>1, ChangeFields DEF AInv, HeadFields
  <2>3. \E G : DOMAIN G = {"elements", "maxKey"} /\ copy' = [copy EXCEPT ![primary] = G]
    BY <2>1, <2>2
  <2> QED BY <1>3, <1>7, <2>3 DEF StartupRemove
<1>8. CASE StartupGet
  <2>1. DOMAIN Sorted(copy[primary]) = {"elements", "maxKey"}
    BY ChangeFields DEF AInv, HeadFields
  <2> QED BY <1>3, <1>8, <2>1 DEF StartupGet
<1>9. CASE BeginStartup
  <2>1. startup' /\ wr = NoWriter /\ UNCHANGED <<copy, primary, wr>>
    BY <1>9 DEF BeginStartup
  <2> QED BY <2>1 DEF AInv, HeadFields, WriteFields, InStep
<1>10. ASSUME \/ \E k \in Key, o \in Object : BeginPut(k, o)
              \/ \E k \in Key : BeginRemove(k)
              \/ BeginClear
       PROVE  AInv'
  BY <1>4, <1>10 DEF BeginPut, BeginRemove, BeginClear, WriteFields
<1>11. CASE \/ \E r \in Reader : PickCopy(r) \/ ReaderStep(r)
            \/ UNCHANGED vars
  BY <1>2, <1>11 DEF PickCopy, ReaderStep, Enter, Check, Leave, vars
<1>12. CASE \E k \in Key, o \in Object : StartupPut(k, o) \/ BeginPut(k, o)
  BY <1>6, <1>10, <1>12
<1>13. CASE \E k \in Key : StartupRemove(k) \/ BeginRemove(k)
  BY <1>7, <1>10, <1>13
<1>14. CASE BeginClear
  BY <1>10, <1>14
<1> QED BY <1>5, <1>8, <1>9, <1>11, <1>12, <1>13, <1>14, Zenon

\* The steps of a write.
LEMMA WriteAInv ==
    ASSUME AInv, WriterStep
    PROVE  AInv'
<1>1. /\ secondary \in Copy /\ secondary # primary /\ primary \in Copy
      /\ \A c \in Copy : c = primary \/ c = secondary
  BY DEF AInv, Copy, secondary
<1>2. wr.pc # "idle" /\ wr # NoWriter /\ ~startup /\ WriteFields
  BY DEF WriterStep, Modify, Swap, Mark, Wait, Redo, Unmark, NoWriter, AInv
<1>3. ASSUME NEW p, wr' = [wr EXCEPT !.pc = p]
      PROVE  WriteFields' /\ wr'.pc = p /\ \A H : Changed(H)' = Changed(H)
  <2>1. /\ DOMAIN wr' = DOMAIN wr /\ "pc" \in DOMAIN wr
        /\ \A x \in DOMAIN wr : x # "pc" => wr'[x] = wr[x]
    BY <1>2, <1>3 DEF WriteFields
  <2>2. WriteFields' /\ wr'.pc = p
    BY <1>2, <1>3, <2>1 DEF WriteFields
  <2>3. CASE wr.what = "clear"
    <3>1. wr'.what = "clear"
      BY <1>2, <2>1, <2>3 DEF WriteFields
    <3> QED BY <2>2, <2>3, <3>1 DEF Changed
  <2>4. CASE wr.what \in {"put", "remove"}
    <3>1. wr'.what = wr.what /\ wr'.pos = wr.pos /\ wr'.key = wr.key /\ wr'.object = wr.object
      BY <1>2, <2>1, <2>4 DEF WriteFields
    <3> QED BY <2>2, <3>1 DEF Changed
  <2> QED BY <1>2, <2>2, <2>3, <2>4 DEF WriteFields
<1>4. ASSUME NEW H, DOMAIN H = {"elements", "maxKey"} PROVE DOMAIN Changed(H) = {"elements", "maxKey"}
  <2>1. CASE wr.what = "put" /\ wr.pos = 0
    BY <1>4, <2>1, ChangeFields DEF Changed
  <2>2. CASE wr.what = "put" /\ wr.pos # 0
    BY <1>4, <2>2, ChangeFields DEF Changed
  <2>3. CASE wr.what = "remove"
    BY <1>4, <2>3, ChangeFields DEF Changed
  <2>4. CASE wr.what = "clear"
    BY <1>4, <2>4, ChangeFields DEF Changed
  <2> QED BY <1>2, <2>1, <2>2, <2>3, <2>4 DEF WriteFields
<1>5. CASE Modify
  <2>1. /\ copy' = [copy EXCEPT ![secondary] = Changed(copy[secondary])]
        /\ wr' = [wr EXCEPT !.pc = "swap"] /\ wr.pc = "modify" /\ UNCHANGED <<primary, startup>>
        /\ secondary' = secondary
    BY <1>5 DEF Modify, Changed, secondary
  <2>2. copy'[primary] = copy[primary] /\ copy'[secondary] = Changed(copy[secondary])
    BY <1>1, <2>1 DEF AInv
  <2>3. copy[primary] = copy[secondary]
    BY <1>2, <2>1 DEF AInv, InStep
  <2>4. WriteFields' /\ wr'.pc = "swap" /\ \A H : Changed(H)' = Changed(H)
    BY <1>3, <2>1
  <2>5. InStep'
    BY <2>1, <2>2, <2>3, <2>4 DEF InStep, Changed
  <2>6. HeadFields'
    BY <1>1, <1>4, <2>2 DEF AInv, HeadFields
  <2> QED BY <1>2, <2>1, <2>4, <2>5, <2>6 DEF AInv
<1>6. CASE Swap
  <2>1. /\ wr' = [wr EXCEPT !.pc = "mark"] /\ wr.pc = "swap" /\ UNCHANGED <<copy, startup>>
        /\ primary' = secondary /\ secondary' = primary
    BY <1>1, <1>6 DEF Swap, secondary, Copy
  <2>2. WriteFields' /\ wr'.pc = "mark" /\ \A H : Changed(H)' = Changed(H)
    BY <1>3, <2>1
  <2>3. copy[secondary] = Changed(copy[primary])
    BY <1>2, <2>1 DEF AInv, InStep
  <2>4. InStep'
    BY <2>1, <2>2, <2>3 DEF InStep, Changed
  <2> QED BY <1>1, <1>2, <2>1, <2>2, <2>4 DEF AInv, HeadFields
<1>7. CASE Mark \/ Wait
  <2>1. PICK p \in {"wait", "redo"} : wr' = [wr EXCEPT !.pc = p]
    BY <1>7 DEF Mark, Wait
  <2>2. wr.pc \in {"mark", "wait"} /\ UNCHANGED <<copy, startup, primary>> /\ secondary' = secondary
    BY <1>7 DEF Mark, Wait, secondary
  <2>3. WriteFields' /\ wr'.pc = p /\ \A H : Changed(H)' = Changed(H)
    BY <1>3, <2>1
  <2>4. copy[primary] = Changed(copy[secondary])
    BY <1>2, <2>2 DEF AInv, InStep
  <2>5. InStep'
    BY <2>1, <2>2, <2>3, <2>4 DEF InStep, Changed
  <2> QED BY <1>2, <2>2, <2>3, <2>5 DEF AInv, HeadFields
<1>8. CASE Redo
  <2>1. /\ wr' = [wr EXCEPT !.pc = "unmark"] /\ wr.pc = "redo" /\ UNCHANGED <<startup, primary>>
        /\ secondary' = secondary
    BY <1>8 DEF Redo, secondary
  <2>2. PICK H : H = copy[secondary]
    OBVIOUS
  <2>3. DOMAIN H = {"elements", "maxKey"} /\ copy[primary] = Changed(H)
    BY <1>1, <1>2, <2>1, <2>2 DEF AInv, InStep, HeadFields
  <2>4. copy' = [copy EXCEPT ![secondary] =
                    CASE wr.what = "put" /\ wr.pos = 0 -> CatchUp(H, copy[primary], wr.key, wr.object)
                      [] wr.what = "put" /\ wr.pos # 0 -> Replace(H, wr.pos, wr.object)
                      [] wr.what = "remove" -> RemoveKey(H, wr.pos, wr.key)
                      [] wr.what = "clear" -> EmptyHead]
    BY <1>8, <2>2 DEF Redo
  <2>5. wr.what = "put" /\ wr.pos = 0 => CatchUp(H, copy[primary], wr.key, wr.object) = Changed(H)
    <3> SUFFICES ASSUME wr.what = "put", wr.pos = 0
                 PROVE  CatchUp(H, copy[primary], wr.key, wr.object) = Changed(H)
      OBVIOUS
    <3>1. Changed(H) = PutNew(H, wr.key, wr.object)
      BY DEF Changed
    <3> QED BY <2>3, <3>1, CatchUpSame
  <2>6. copy' = [copy EXCEPT ![secondary] = Changed(H)]
    <3>1. CASE wr.what = "put" /\ wr.pos = 0
      BY <2>4, <2>5, <3>1
    <3>2. CASE wr.what = "put" /\ wr.pos # 0
      BY <2>4, <3>2 DEF Changed
    <3>3. CASE wr.what = "remove"
      BY <2>4, <3>3 DEF Changed
    <3>4. CASE wr.what = "clear"
      BY <2>4, <3>4 DEF Changed
    <3> QED BY <1>2, <3>1, <3>2, <3>3, <3>4 DEF WriteFields
  <2>7. copy'[secondary] = Changed(H) /\ copy'[primary] = Changed(H)
    BY <1>1, <2>3, <2>6 DEF AInv
  <2>8. WriteFields' /\ wr'.pc = "unmark"
    BY <1>3, <2>1
  <2>9. InStep'
    BY <2>1, <2>7, <2>8 DEF InStep
  <2>10. HeadFields'
    BY <1>1, <1>4, <2>3, <2>7 DEF HeadFields
  <2> QED BY <1>2, <2>1, <2>6, <2>8, <2>9, <2>10 DEF AInv
<1>9. CASE Unmark
  <2>1. /\ wr' = NoWriter /\ wr.pc = "unmark" /\ UNCHANGED <<copy, startup, primary>>
        /\ secondary' = secondary
    BY <1>9 DEF Unmark, secondary
  <2>2. copy[primary] = copy[secondary]
    BY <1>2, <2>1 DEF AInv, InStep
  <2> QED BY <2>1, <2>2 DEF AInv, HeadFields, WriteFields, InStep, NoWriter
<1> QED BY <1>5, <1>6, <1>7, <1>8, <1>9 DEF WriterStep

\* When no write is under way the two copies of the index are the same: put, remove and
\* clear repeat on the former primary exactly what they did to the secondary, although put
\* takes another way there and the position was looked up in one copy only.
THEOREM CopiesStayEqual == Spec => []CopiesAgree
<1>1. AInv => CopiesAgree
  <2> SUFFICES ASSUME AInv, ~startup, wr = NoWriter PROVE copy[1] = copy[2]
    BY DEF CopiesAgree
  <2>1. copy[primary] = copy[secondary]
    BY DEF AInv, InStep, NoWriter
  <2> QED BY <2>1 DEF AInv, Copy, secondary
<1>2. AInv /\ [Next]_vars => AInv'
  BY OutsideAInv, WriteAInv DEF Next
<1> QED BY <1>1, <1>2, InitAInv, PTL DEF Spec

-----------------------------------------------------------------------------
(* Binary search.  findElement defines its search by recursion on the range; that such a *)
(* function exists, and what it returns, is shown for ranges of growing size.            *)

\* The ranges the search may look at, and what it does with one
Ranges(E) == (0..Len(E)) \X (-1..Len(E))
SearchStep(E, key, s, range) ==
    LET first == range[1]
        last == range[2]
        mid == (first + last) \div 2
    IN IF first >= last THEN IF key = E[last + 1].key THEN last ELSE -1
       ELSE IF key = E[mid + 1].key THEN mid
       ELSE IF key < E[mid + 1].key THEN s[<<first, mid - 1>>]
       ELSE s[<<mid + 1, last>>]
IsSearch(E, key, s) == s = [range \in Ranges(E) |-> SearchStep(E, key, s, range)]

\* findElement uses a function that satisfies the recursion.
LEMMA FindUnfold ==
    ASSUME NEW E, NEW key
    PROVE  findElement(E, key) =
               IF E = <<>> \/ key < E[1].key \/ key > E[Len(E)].key THEN 0
               ELSE (CHOOSE s : IsSearch(E, key, s))[<<0, Len(E) - 1>>] + 1
BY Zenon DEF findElement, IsSearch, Ranges, SearchStep

\* A range that is not exhausted is split into two that are smaller.
LEMMA Halves ==
    ASSUME NEW n \in Nat, NEW a \in 0..n, NEW b \in -1..n, a < b
    PROVE  LET mid == (a + b) \div 2
           IN /\ mid \in Int /\ a <= mid /\ mid < b
              /\ a \in 0..n /\ mid - 1 \in -1..n /\ mid + 1 \in 0..n
              /\ (mid - 1) - a < b - a /\ b - (mid + 1) < b - a
<1> DEFINE mid == (a + b) \div 2
<1>1. mid \in Int /\ 2 * mid <= a + b /\ a + b < 2 * mid + 2
  OBVIOUS
<1> HIDE DEF mid
<1>2. a <= mid /\ mid < b
  BY <1>1
<1> QED BY <1>1, <1>2 DEF mid

\* A step of the search looks at a smaller range, or at none.
LEMMA StepSame ==
    ASSUME NEW E, Len(E) \in Nat, NEW key, NEW f, NEW g, NEW r \in Ranges(E), NEW m \in Int,
           r[2] - r[1] <= m,
           \A q \in Ranges(E) : q[2] - q[1] < m => f[q] = g[q]
    PROVE  SearchStep(E, key, f, r) = SearchStep(E, key, g, r)
<1>1. PICK a \in 0..Len(E), b \in -1..Len(E) : r = <<a, b>>
  BY DEF Ranges
<1>2. r[1] = a /\ r[2] = b
  BY <1>1
<1>3. CASE a >= b
  BY <1>2, <1>3 DEF SearchStep
<1>4. CASE a < b
  <2> DEFINE mid == (a + b) \div 2
  <2>1. /\ mid \in Int /\ a <= mid /\ mid < b
        /\ a \in 0..Len(E) /\ mid - 1 \in -1..Len(E) /\ mid + 1 \in 0..Len(E)
        /\ (mid - 1) - a < b - a /\ b - (mid + 1) < b - a
    BY <1>4, Halves
  <2>2. SearchStep(E, key, f, r) = IF key = E[mid + 1].key THEN mid
                                   ELSE IF key < E[mid + 1].key THEN f[<<a, mid - 1>>]
                                   ELSE f[<<mid + 1, b>>]
    BY <1>2, <1>4 DEF SearchStep
  <2>3. SearchStep(E, key, g, r) = IF key = E[mid + 1].key THEN mid
                                   ELSE IF key < E[mid + 1].key THEN g[<<a, mid - 1>>]
                                   ELSE g[<<mid + 1, b>>]
    BY <1>2, <1>4 DEF SearchStep
  <2> HIDE DEF mid
  <2>4. f[<<a, mid - 1>>] = g[<<a, mid - 1>>]
    <3>1. <<a, mid - 1>> \in Ranges(E)
      BY <2>1 DEF Ranges
    <3>2. <<a, mid - 1>>[2] - <<a, mid - 1>>[1] < m
      BY <1>2, <2>1
    <3> QED BY <3>1, <3>2
  <2>5. f[<<mid + 1, b>>] = g[<<mid + 1, b>>]
    <3>1. <<mid + 1, b>> \in Ranges(E)
      BY <2>1 DEF Ranges
    <3>2. <<mid + 1, b>>[2] - <<mid + 1, b>>[1] < m
      BY <1>2, <2>1
    <3> QED BY <3>1, <3>2
  <2> QED BY <2>2, <2>3, <2>4, <2>5
<1> QED BY <1>3, <1>4

\* There is a function that satisfies the recursion: up to any size of a range.
LEMMA SearchExists ==
    ASSUME NEW E, Len(E) \in Nat, NEW key
    PROVE  \E s : IsSearch(E, key, s)
<1> DEFINE size(r) == r[2] - r[1] + Len(E) + 1
<1>1. \A r \in Ranges(E) : /\ r[1] \in Int /\ r[2] \in Int /\ r[2] - r[1] \in Int
                           /\ size(r) \in Nat /\ size(r) < 2 * Len(E) + 2
  BY DEF Ranges
<1>2. \A q, r \in Ranges(E), m \in Nat :
          q[2] - q[1] < r[2] - r[1] /\ size(r) < m => size(q) < m - 1
  BY <1>1
<1> HIDE DEF size
<1> DEFINE Good(n, f) == \A r \in Ranges(E) : size(r) < n => f[r] = SearchStep(E, key, f, r)
           Bad == {n \in Nat : ~\E f : Good(n, f)}
<1>3. Bad = {}
  <2> SUFFICES ASSUME Bad # {} PROVE FALSE
    OBVIOUS
  <2>1. PICK m \in Bad : \A j \in Bad : m <= j
    BY MinProperties
  <2>2. m # 0
    <3>1. \A f : Good(0, f)
      BY <1>1
    <3> QED BY <2>1, <3>1
  <2>3. m - 1 \in Nat /\ m - 1 \notin Bad
    BY <2>1, <2>2
  <2>4. PICK f : Good(m - 1, f)
    BY <2>3
  <2> DEFINE g == [r \in Ranges(E) |-> SearchStep(E, key, f, r)]
  <2>5. ASSUME NEW r \in Ranges(E), size(r) < m
        PROVE  g[r] = SearchStep(E, key, g, r)
    <3>0. r[2] - r[1] \in Int
      BY <1>1
    <3>1. PICK d \in Int : d = r[2] - r[1]
      BY <3>0
    <3>2. \A q \in Ranges(E) : q[2] - q[1] < d => f[q] = g[q]
      <4> SUFFICES ASSUME NEW q \in Ranges(E), q[2] - q[1] < d PROVE f[q] = g[q]
        OBVIOUS
      <4>1. size(q) < m - 1
        BY <1>2, <2>5, <3>1
      <4> QED BY <2>4, <4>1
    <3>3. SearchStep(E, key, f, r) = SearchStep(E, key, g, r)
      <4>1. r[2] - r[1] <= d
        BY <3>1
      <4> HIDE DEF g
      <4> QED BY <3>2, <4>1, StepSame
    <3> QED BY <3>3
  <2>6. Good(m, g)
    BY <2>5
  <2> QED BY <2>1, <2>6
<1>4. PICK f : Good(2 * Len(E) + 2, f)
  <2>1. 2 * Len(E) + 2 \in Nat
    OBVIOUS
  <2> HIDE DEF Good
  <2> QED BY <1>3, <2>1
<1> DEFINE s == [r \in Ranges(E) |-> f[r]]
<1>5. ASSUME NEW r \in Ranges(E) PROVE s[r] = SearchStep(E, key, s, r)
  <2>0. r[2] - r[1] \in Int
    BY <1>1
  <2>1. PICK d \in Int : d = r[2] - r[1]
    BY <2>0
  <2>2. \A q \in Ranges(E) : q[2] - q[1] < d => f[q] = s[q]
    OBVIOUS
  <2>3. SearchStep(E, key, f, r) = SearchStep(E, key, s, r)
    <3>1. r[2] - r[1] <= d
      BY <2>1
    <3> HIDE DEF s
    <3> QED BY <2>2, <3>1, StepSame
  <2>4. f[r] = SearchStep(E, key, f, r)
    BY <1>1, <1>4
  <2> QED BY <2>3, <2>4
<1>6. s = [range \in Ranges(E) |-> SearchStep(E, key, s, range)]
  BY <1>5
<1> QED BY <1>6 DEF IsSearch

\* The keys of an array, in the order of its elements, do not fall; all are different
Ascending(E) == \A i, j \in 1..Len(E) : i < j => E[i].key <= E[j].key
Distinct(E) == \A i, j \in 1..Len(E) : i # j => E[i].key # E[j].key

\* i is where the key is in the array, 0 if it is nowhere
Located(E, key, i) ==
    IF i = 0 THEN \A j \in 1..Len(E) : E[j].key # key ELSE i \in 1..Len(E) /\ E[i].key = key

\* What can be said of the elements of an array.
LEMMA ElementTypes ==
    ASSUME NEW E \in Seq(Element)
    PROVE  /\ Len(E) \in Nat
           /\ \A i \in 1..Len(E) : E[i] \in Element /\ E[i].key \in Nat /\ E[i].key \in Key
                                   /\ E[i].object \in Object
<1>1. \A i \in 1..Len(E) : E[i] \in Element
  BY ElementOfSeq
<1> QED BY <1>1, LenProperties, KeyAssumption DEF Element

\* In an array in ascending order, a range that is given up on does not hold the key: what is
\* searched is right of every key that is too small and left of every key that is too large.
\* The upper end of a range, unsigned in the code, does not fall below 0.
LEMMA SearchRange ==
    ASSUME NEW E \in Seq(Element), Ascending(E), E # <<>>, NEW key \in Nat, E[1].key <= key,
           NEW s, IsSearch(E, key, s),
           NEW a \in Nat, NEW b \in Nat, a <= b + 1, b < Len(E)
    PROVE  LET r == s[<<a, b>>]
           IN \/ r = -1 /\ \A i \in Nat : a <= i /\ i <= b => E[i + 1].key # key
              \/ r \in Nat /\ r < Len(E) /\ E[r + 1].key = key
<1> DEFINE Miss(x, y) == \A i \in Nat : x <= i /\ i <= y => E[i + 1].key # key
           Hit(r) == r \in Nat /\ r < Len(E) /\ E[r + 1].key = key
           Right(x, y) == (s[<<x, y>>] = -1 /\ Miss(x, y)) \/ Hit(s[<<x, y>>])
           Bad == {n \in Nat : \E x, y \in Nat : x <= y + 1 /\ y < Len(E) /\ y - x + 1 = n /\ ~Right(x, y)}
<1>1. /\ Len(E) \in Nat
      /\ \A i \in Nat : i < Len(E) => i + 1 \in 1..Len(E) /\ E[i + 1].key \in Nat
  BY ElementTypes
<1>2. \A i, j \in Nat : i < j /\ j < Len(E) => E[i + 1].key <= E[j + 1].key
  <2> SUFFICES ASSUME NEW i \in Nat, NEW j \in Nat, i < j, j < Len(E) PROVE E[i + 1].key <= E[j + 1].key
    OBVIOUS
  <2>1. i + 1 \in 1..Len(E) /\ j + 1 \in 1..Len(E) /\ i + 1 < j + 1
    BY <1>1
  <2> QED BY <2>1 DEF Ascending
<1>3. ASSUME NEW n \in Nat, NEW x \in Nat, NEW y \in Nat, x <= y + 1, y < Len(E), y - x + 1 = n,
             \A u, v \in Nat : u <= v + 1 /\ v < Len(E) /\ v - u + 1 < n => Right(u, v)
      PROVE  Right(x, y)
  <2>1. <<x, y>> \in Ranges(E) /\ <<x, y>>[1] = x /\ <<x, y>>[2] = y
    BY <1>1, <1>3 DEF Ranges
  <2>2. s[<<x, y>>] = SearchStep(E, key, s, <<x, y>>)
    BY <2>1 DEF IsSearch
  <2>3. CASE x >= y
    <3>1. s[<<x, y>>] = IF key = E[y + 1].key THEN y ELSE -1
      BY <2>1, <2>2, <2>3 DEF SearchStep
    <3>2. CASE key = E[y + 1].key
      BY <1>3, <3>1, <3>2
    <3>3. CASE key # E[y + 1].key
      <4>1. \A i \in Nat : x <= i /\ i <= y => i = y
        BY <2>3
      <4> QED BY <3>1, <3>3, <4>1
    <3> QED BY <3>2, <3>3
  <2>4. CASE x < y
    <3> DEFINE mid == (x + y) \div 2
    <3>1. s[<<x, y>>] = IF key = E[mid + 1].key THEN mid
                        ELSE IF key < E[mid + 1].key THEN s[<<x, mid - 1>>]
                        ELSE s[<<mid + 1, y>>]
      BY <2>1, <2>2, <2>4 DEF SearchStep
    <3>2. /\ mid \in Nat /\ x <= mid /\ mid < y
      <4>1. x \in 0..Len(E) /\ y \in -1..Len(E)
        BY <1>1, <1>3
      <4>2. mid \in Int /\ x <= mid /\ mid < y
        BY <1>1, <2>4, <4>1, Halves
      <4> HIDE DEF mid
      <4> QED BY <4>2
    <3> HIDE DEF mid
    <3>3. mid < Len(E) /\ E[mid + 1].key \in Nat
      <4>1. mid < Len(E)
        BY <1>1, <1>3, <3>2
      <4> QED BY <1>1, <3>2, <4>1
    <3>4. CASE key = E[mid + 1].key
      BY <3>1, <3>2, <3>3, <3>4
    <3>5. CASE key < E[mid + 1].key
      <4>1. mid # 0
        <5>1. 0 + 1 = 1
          OBVIOUS
        <5>2. E[1].key \in Nat
          BY <1>1, <3>3, <5>1
        <5> QED BY <3>5, <5>1, <5>2
      <4>2. mid - 1 \in Nat /\ x <= (mid - 1) + 1 /\ mid - 1 < Len(E) /\ (mid - 1) - x + 1 < n
        BY <1>1, <1>3, <3>2, <3>3, <4>1
      <4>3. Right(x, mid - 1)
        BY <1>3, <4>2
      <4>4. \A i \in Nat : mid <= i /\ i <= y => E[i + 1].key # key
        <5> SUFFICES ASSUME NEW i \in Nat, mid <= i, i <= y PROVE E[i + 1].key # key
          OBVIOUS
        <5>1. i = mid \/ mid < i
          BY <3>2
        <5>2. i < Len(E) /\ E[i + 1].key \in Nat
          <6>1. i < Len(E)
            BY <1>1, <1>3
          <6> QED BY <1>1, <6>1
        <5>3. i = mid \/ E[mid + 1].key <= E[i + 1].key
          BY <1>2, <3>2, <5>1, <5>2
        <5> QED BY <3>3, <3>5, <5>2, <5>3
      <4>5. Miss(x, mid - 1) => Miss(x, y)
        <5>1. \A i \in Nat : i <= mid - 1 \/ mid <= i
          BY <3>2
        <5> QED BY <4>4, <5>1
      <4>6. s[<<x, y>>] = s[<<x, mid - 1>>]
        BY <3>1, <3>3, <3>5
      <4> HIDE DEF Miss, Hit
      <4> QED BY <4>3, <4>5, <4>6
    <3>6. CASE E[mid + 1].key < key
      <4>2. mid + 1 \in Nat /\ mid + 1 <= y + 1 /\ y - (mid + 1) + 1 < n
        BY <1>1, <1>3, <3>2
      <4>3. Right(mid + 1, y)
        BY <1>3, <4>2
      <4>4. \A i \in Nat : x <= i /\ i <= mid => E[i + 1].key # key
        <5> SUFFICES ASSUME NEW i \in Nat, x <= i, i <= mid PROVE E[i + 1].key # key
          OBVIOUS
        <5>1. i = mid \/ i < mid
          BY <3>2
        <5>2. i < Len(E) /\ E[i + 1].key \in Nat
          <6>1. i < Len(E)
            BY <1>1, <3>2, <3>3
          <6> QED BY <1>1, <6>1
        <5>3. i = mid \/ E[i + 1].key <= E[mid + 1].key
          BY <1>2, <3>2, <3>3, <5>1
        <5> QED BY <3>3, <3>6, <5>2, <5>3
      <4>5. Miss(mid + 1, y) => Miss(x, y)
        <5>1. \A i \in Nat : i <= mid \/ mid + 1 <= i
          BY <3>2
        <5> QED BY <4>4, <5>1
      <4>6. s[<<x, y>>] = s[<<mid + 1, y>>]
        BY <3>1, <3>3, <3>6
      <4> HIDE DEF Miss, Hit
      <4> QED BY <4>3, <4>5, <4>6
    <3> QED BY <3>3, <3>4, <3>5, <3>6
  <2> QED BY <2>3, <2>4
<1> HIDE DEF Right
<1>4. Bad = {}
  <2> SUFFICES ASSUME Bad # {} PROVE FALSE
    OBVIOUS
  <2>1. PICK m \in Bad : \A j \in Bad : m <= j
    BY MinProperties
  <2>2. PICK x \in Nat, y \in Nat : x <= y + 1 /\ y < Len(E) /\ y - x + 1 = m /\ ~Right(x, y)
    BY <2>1
  <2>3. ASSUME NEW u \in Nat, NEW v \in Nat, u <= v + 1, v < Len(E), v - u + 1 < m
        PROVE  Right(u, v)
    <3>1. v - u + 1 \in Nat /\ m \in Nat
      BY <2>3
    <3>2. v - u + 1 \notin Bad
      <4> HIDE DEF Bad
      <4> QED BY <2>1, <2>3, <3>1
    <3> QED BY <2>3, <3>1, <3>2
  <2>4. m \in Nat
    OBVIOUS
  <2> HIDE DEF Bad
  <2> QED BY <1>3, <2>2, <2>3, <2>4
<1>5. b - a + 1 \in Nat
  OBVIOUS
<1>6. Right(a, b)
  BY <1>4, <1>5
<1> QED BY <1>6 DEF Right

\* In an array in ascending order the binary search finds every key that is there, and
\* no other.
LEMMA FindExact ==
    ASSUME NEW E \in Seq(Element), Ascending(E), NEW key \in Key
    PROVE  Located(E, key, findElement(E, key))
<1>1. Len(E) \in Nat /\ key \in Nat /\ \A i \in 1..Len(E) : E[i].key \in Nat
  BY ElementTypes, KeyAssumption
<1>2. CASE E = <<>>
  <2>1. Len(E) = 0
    BY <1>2
  <2>2. findElement(E, key) = 0
    BY <1>2, FindUnfold, Zenon
  <2> QED BY <2>1, <2>2 DEF Located
<1>3. CASE E # <<>>
  <2>1. Len(E) # 0 /\ 1 \in 1..Len(E) /\ Len(E) \in 1..Len(E)
    BY <1>1, <1>3, EmptySeq
  <2>2. CASE key < E[1].key
    <3>1. \A j \in 1..Len(E) : E[1].key <= E[j].key
      BY <1>1, <2>1 DEF Ascending
    <3>2. \A j \in 1..Len(E) : E[j].key # key
      BY <1>1, <2>1, <2>2, <3>1
    <3>3. findElement(E, key) = 0
      BY <2>2, FindUnfold
    <3> QED BY <3>2, <3>3 DEF Located
  <2>3. CASE key > E[Len(E)].key
    <3>1. \A j \in 1..Len(E) : E[j].key <= E[Len(E)].key
      BY <1>1, <2>1 DEF Ascending
    <3>2. \A j \in 1..Len(E) : E[j].key # key
      BY <1>1, <2>1, <2>3, <3>1
    <3>3. findElement(E, key) = 0
      BY <2>3, FindUnfold
    <3> QED BY <3>2, <3>3 DEF Located
  <2>4. CASE ~(key < E[1].key) /\ ~(key > E[Len(E)].key)
    <3> DEFINE s == CHOOSE s : IsSearch(E, key, s)
               r == s[<<0, Len(E) - 1>>]
    <3>1. IsSearch(E, key, s)
      <4>1. \E x : IsSearch(E, key, x)
        BY <1>1, SearchExists
      <4> QED BY <4>1, Zenon
    <3>2. findElement(E, key) = r + 1
      BY <1>3, <2>4, FindUnfold, Zenon
    <3> HIDE DEF s
    <3>3. \/ r = -1 /\ \A i \in Nat : 0 <= i /\ i <= Len(E) - 1 => E[i + 1].key # key
          \/ r \in Nat /\ r < Len(E) /\ E[r + 1].key = key
      <4>1. 0 \in Nat /\ Len(E) - 1 \in Nat /\ 0 <= (Len(E) - 1) + 1 /\ Len(E) - 1 < Len(E)
        BY <1>1, <2>1
      <4>2. E[1].key <= key
        BY <1>1, <2>1, <2>4
      <4> QED BY <1>1, <1>3, <3>1, <4>1, <4>2, SearchRange
    <3> HIDE DEF r
    <3>4. CASE r = -1 /\ \A i \in Nat : 0 <= i /\ i <= Len(E) - 1 => E[i + 1].key # key
      <4>1. \A j \in 1..Len(E) : j - 1 \in Nat /\ 0 <= j - 1 /\ j - 1 <= Len(E) - 1 /\ (j - 1) + 1 = j
        BY <1>1
      <4>2. \A j \in 1..Len(E) : E[j].key # key
        BY <3>4, <4>1
      <4>3. findElement(E, key) = 0
        BY <3>2, <3>4
      <4> QED BY <4>2, <4>3 DEF Located
    <3>5. CASE r \in Nat /\ r < Len(E) /\ E[r + 1].key = key
      <4>1. r + 1 # 0 /\ r + 1 \in 1..Len(E)
        BY <1>1, <3>5
      <4> QED BY <3>2, <3>5, <4>1 DEF Located
    <3> QED BY <3>3, <3>4, <3>5
  <2> QED BY <2>2, <2>3, <2>4
<1> QED BY <1>2, <1>3

-----------------------------------------------------------------------------
(* Sorting.  An order in which the keys do not decrease exists: put each element after *)
(* as many others as have a smaller key, or the same key and come earlier.             *)

\* A permutation of the positions that puts the keys in order
Orders(E, p) ==
    \A i, j \in 1..Len(E) : i < j => p[i] # p[j] /\ E[p[i]].key <= E[p[j]].key

\* A function on the positions that takes no value twice takes all of them.
LEMMA OntoPositions ==
    ASSUME NEW n \in Nat, NEW p \in [1..n -> 1..n],
           \A i, j \in 1..n : i < j => p[i] # p[j]
    PROVE  \A k \in 1..n : \E i \in 1..n : p[i] = k
<1>1. \A i, j \in 1..n : p[i] = p[j] => i = j
  <2>1. \A i, j \in 1..n : i < j \/ j < i \/ i = j
    OBVIOUS
  <2> QED BY <2>1
<1>2. p \in Injection(1..n, 1..n)
  BY <1>1 DEF Injection, IsInjective
<1>3. p \in Surjection(1..n, 1..n)
  <2>1. IsFiniteSet(1..n)
    BY FS_Interval
  <2> QED BY <1>2, <2>1, FS_Injection
<1> QED BY <1>3 DEF Surjection

\* The element at j goes before the one at i; those that go before i, and its place
Before(E, j, i) == E[j].key < E[i].key \/ (E[j].key = E[i].key /\ j < i)
Below(E, i) == {j \in 1..Len(E) : Before(E, j, i)}
Rank(E, i) == Cardinality(Below(E, i)) + 1

\* What goes after has a higher rank, within the array.
LEMMA RankOrder ==
    ASSUME NEW E \in Seq(Element)
    PROVE  /\ \A i \in 1..Len(E) : Rank(E, i) \in 1..Len(E)
           /\ \A i, j \in 1..Len(E) : Before(E, i, j) => Rank(E, i) < Rank(E, j)
<1>1. Len(E) \in Nat /\ \A i \in 1..Len(E) : E[i].key \in Nat
  BY ElementTypes
<1>2. IsFiniteSet(1..Len(E)) /\ Cardinality(1..Len(E)) = Len(E)
  <2>1. 1 \in Int /\ Len(E) \in Int
    BY <1>1
  <2>2. IsFiniteSet(1..Len(E)) /\ Cardinality(1..Len(E)) = IF 1 > Len(E) THEN 0 ELSE Len(E) - 1 + 1
    BY <2>1, FS_Interval
  <2> QED BY <1>1, <2>2
<1>3. \A i \in 1..Len(E) : IsFiniteSet(Below(E, i)) /\ Cardinality(Below(E, i)) \in Nat
  <2> SUFFICES ASSUME NEW i \in 1..Len(E)
               PROVE  IsFiniteSet(Below(E, i)) /\ Cardinality(Below(E, i)) \in Nat
    OBVIOUS
  <2>1. Below(E, i) \in SUBSET (1..Len(E))
    BY DEF Below
  <2>2. IsFiniteSet(Below(E, i))
    BY <1>2, <2>1, FS_Subset
  <2> QED BY <2>2, FS_CardinalityType
<1>4. ASSUME NEW i \in 1..Len(E) PROVE Rank(E, i) \in 1..Len(E)
  <2>1. i \notin Below(E, i) /\ Below(E, i) \cup {i} \in SUBSET (1..Len(E))
    BY <1>1 DEF Below, Before
  <2>2. Cardinality(Below(E, i) \cup {i}) = Cardinality(Below(E, i)) + 1
    BY <1>3, <2>1, FS_AddElement
  <2>3. Cardinality(Below(E, i) \cup {i}) <= Len(E)
    BY <1>2, <2>1, FS_Subset
  <2> QED BY <1>1, <1>3, <2>2, <2>3 DEF Rank
<1>5. ASSUME NEW i \in 1..Len(E), NEW j \in 1..Len(E), Before(E, i, j)
      PROVE  Rank(E, i) < Rank(E, j)
  <2>1. i \notin Below(E, i) /\ Below(E, i) \cup {i} \in SUBSET Below(E, j)
    <3>1. i \notin Below(E, i) /\ i \in Below(E, j)
      BY <1>1, <1>5 DEF Below, Before
    <3>2. ASSUME NEW k \in Below(E, i) PROVE k \in Below(E, j)
      BY <1>1, <1>5, <3>2 DEF Below, Before
    <3> QED BY <3>1, <3>2
  <2>2. Cardinality(Below(E, i) \cup {i}) = Cardinality(Below(E, i)) + 1
    BY <1>3, <2>1, FS_AddElement
  <2>3. Cardinality(Below(E, i) \cup {i}) <= Cardinality(Below(E, j))
    BY <1>3, <2>1, FS_Subset
  <2>4. Cardinality(Below(E, i)) \in Nat /\ Cardinality(Below(E, j)) \in Nat
    BY <1>3
  <2> QED BY <2>2, <2>3, <2>4 DEF Rank
<1> QED BY <1>4, <1>5

\* An order exists.
LEMMA OrderExists ==
    ASSUME NEW E \in Seq(Element)
    PROVE  \E p \in [1..Len(E) -> 1..Len(E)] : Orders(E, p)
<1>1. Len(E) \in Nat /\ \A i \in 1..Len(E) : E[i].key \in Nat
  BY ElementTypes
<1>2. /\ \A i \in 1..Len(E) : Rank(E, i) \in 1..Len(E)
      /\ \A i, j \in 1..Len(E) : Before(E, i, j) => Rank(E, i) < Rank(E, j)
  BY RankOrder
<1>3. \A i, j \in 1..Len(E) : i < j => Rank(E, i) # Rank(E, j)
  <2> SUFFICES ASSUME NEW i \in 1..Len(E), NEW j \in 1..Len(E), i < j
               PROVE  Rank(E, i) # Rank(E, j)
    OBVIOUS
  <2>1. E[i].key \in Nat /\ E[j].key \in Nat
    BY <1>1
  <2>2. Before(E, i, j) \/ Before(E, j, i)
    BY <2>1 DEF Before
  <2>3. Rank(E, i) \in Int /\ Rank(E, j) \in Int
    BY <1>2
  <2> QED BY <1>2, <2>2, <2>3
<1> DEFINE rank == [i \in 1..Len(E) |-> Rank(E, i)]
<1>4. \A k \in 1..Len(E) : \E i \in 1..Len(E) : Rank(E, i) = k
  <2>1. rank \in [1..Len(E) -> 1..Len(E)] /\ \A i, j \in 1..Len(E) : i < j => rank[i] # rank[j]
    BY <1>2, <1>3
  <2> HIDE DEF rank
  <2>2. \A k \in 1..Len(E) : \E i \in 1..Len(E) : rank[i] = k
    BY <1>1, <2>1, OntoPositions
  <2> QED BY <2>2 DEF rank
<1> DEFINE p == [k \in 1..Len(E) |-> CHOOSE i \in 1..Len(E) : Rank(E, i) = k]
<1>5. \A k \in 1..Len(E) : p[k] \in 1..Len(E) /\ Rank(E, p[k]) = k
  <2> SUFFICES ASSUME NEW k \in 1..Len(E) PROVE p[k] \in 1..Len(E) /\ Rank(E, p[k]) = k
    OBVIOUS
  <2>1. p[k] = CHOOSE i \in 1..Len(E) : Rank(E, i) = k
    OBVIOUS
  <2>2. \E i \in 1..Len(E) : Rank(E, i) = k
    BY <1>4
  <2> HIDE DEF p
  <2> QED BY <2>1, <2>2, Zenon
<1>6. p \in [1..Len(E) -> 1..Len(E)]
  <2>1. p = [k \in 1..Len(E) |-> p[k]]
    OBVIOUS
  <2> HIDE DEF p
  <2> QED BY <1>5, <2>1
<1> HIDE DEF p
<1>7. Orders(E, p)
  <2> SUFFICES ASSUME NEW i \in 1..Len(E), NEW j \in 1..Len(E), i < j
               PROVE  p[i] # p[j] /\ E[p[i]].key <= E[p[j]].key
    BY DEF Orders
  <2>1. /\ p[i] \in 1..Len(E) /\ Rank(E, p[i]) = i
        /\ p[j] \in 1..Len(E) /\ Rank(E, p[j]) = j
    BY <1>5
  <2>2. i \in Int /\ j \in Int /\ i # j
    BY <1>1
  <2>3. p[i] # p[j]
    BY <2>1, <2>2
  <2>4. ~(E[p[j]].key < E[p[i]].key)
    <3> SUFFICES ASSUME E[p[j]].key < E[p[i]].key PROVE FALSE
      OBVIOUS
    <3>1. j < i
      BY <1>2, <2>1 DEF Before
    <3> QED BY <2>2, <3>1
  <2>5. E[p[i]].key \in Nat /\ E[p[j]].key \in Nat
    BY <1>1, <2>1
  <2> QED BY <2>3, <2>4, <2>5
<1> QED BY <1>6, <1>7

\* The elements of an array, in whatever order
ElementSet(E) == {E[i] : i \in 1..Len(E)}

\* Sort puts the same elements in ascending order of their keys, each as often as before.
LEMMA SortExact ==
    ASSUME NEW E \in Seq(Element)
    PROVE  /\ Sort(E) \in Seq(Element) /\ Len(Sort(E)) = Len(E)
           /\ Ascending(Sort(E)) /\ ElementSet(Sort(E)) = ElementSet(E)
           /\ Distinct(E) => Distinct(Sort(E))
<1> DEFINE p == CHOOSE q \in [1..Len(E) -> 1..Len(E)] : Orders(E, q)
           F == [i \in 1..Len(E) |-> E[p[i]]]
<1>1. Len(E) \in Nat /\ \A i \in 1..Len(E) : E[i] \in Element /\ E[i].key \in Nat
  BY ElementTypes
<1>2. p \in [1..Len(E) -> 1..Len(E)] /\ Orders(E, p)
  <2>1. \E q \in [1..Len(E) -> 1..Len(E)] : Orders(E, q)
    BY OrderExists
  <2> QED BY <2>1, Zenon
<1>3. Sort(E) = F
  BY Zenon DEF Sort, Orders
<1> HIDE DEF p
<1>4. \A i \in 1..Len(E) : p[i] \in 1..Len(E)
  BY <1>2
<1>5. F \in Seq(Element) /\ Len(F) = Len(E) /\ \A i \in 1..Len(E) : F[i] = E[p[i]]
  <2>1. F \in [1..Len(E) -> Element]
    BY <1>1, <1>4
  <2>2. F \in Seq(Element)
    BY <1>1, <2>1, SeqDef
  <2>3. DOMAIN F = 1..Len(E)
    OBVIOUS
  <2> HIDE DEF F
  <2>4. Len(F) = Len(E)
    BY <1>1, <2>2, <2>3, LenProperties
  <2> QED BY <2>2, <2>4 DEF F
<1>6. ElementSet(F) = ElementSet(E)
  <2> HIDE DEF F
  <2>1. \A k \in 1..Len(E) : \E i \in 1..Len(E) : p[i] = k
    <3>1. PICK n \in Nat : n = Len(E)
      BY <1>1
    <3>2. p \in [1..n -> 1..n] /\ \A i, j \in 1..n : i < j => p[i] # p[j]
      BY <1>2, <3>1 DEF Orders
    <3>3. \A k \in 1..n : \E i \in 1..n : p[i] = k
      BY <3>2, OntoPositions
    <3> QED BY <3>1, <3>3
  <2>2. \A i \in 1..Len(E) : F[i] \in ElementSet(E)
    BY <1>4, <1>5 DEF ElementSet
  <2>3. \A k \in 1..Len(E) : \E i \in 1..Len(E) : F[i] = E[k]
    <3> SUFFICES ASSUME NEW k \in 1..Len(E) PROVE \E i \in 1..Len(E) : F[i] = E[k]
      OBVIOUS
    <3>1. PICK i \in 1..Len(E) : p[i] = k
      BY <2>1
    <3> QED BY <1>5, <3>1
  <2>4. ElementSet(F) = {F[i] : i \in 1..Len(E)}
    BY <1>5 DEF ElementSet
  <2>5. ElementSet(E) \subseteq ElementSet(F)
    BY <2>3, <2>4 DEF ElementSet
  <2>6. ElementSet(F) \subseteq ElementSet(E)
    BY <2>2, <2>4
  <2> QED BY <2>5, <2>6
<1>7. Ascending(F)
  <2> SUFFICES ASSUME NEW i \in 1..Len(E), NEW j \in 1..Len(E), i < j PROVE F[i].key <= F[j].key
    BY <1>5 DEF Ascending
  <2>1. E[p[i]].key <= E[p[j]].key
    BY <1>2 DEF Orders
  <2> HIDE DEF F
  <2> QED BY <1>5, <2>1
<1>8. ASSUME Distinct(E) PROVE Distinct(F)
  <2> SUFFICES ASSUME NEW i \in 1..Len(E), NEW j \in 1..Len(E), i # j PROVE F[i].key # F[j].key
    BY <1>5 DEF Distinct
  <2>1. i < j \/ j < i
    BY <1>1
  <2>2. p[i] # p[j]
    BY <1>2, <2>1 DEF Orders
  <2>3. E[p[i]].key # E[p[j]].key
    BY <1>4, <1>8, <2>2 DEF Distinct
  <2> HIDE DEF F
  <2> QED BY <1>5, <2>3
<1> HIDE DEF F
<1> QED BY <1>3, <1>5, <1>6, <1>7, <1>8

-----------------------------------------------------------------------------
(* The operations on a copy keep it in order. *)

\* A copy, and one that the binary search works on
IndexHead == [elements : Seq(Element), maxKey : Key \cup {0}]
Ordered(H) ==
    /\ H \in IndexHead /\ Ascending(H.elements)
    /\ \A i \in 1..Len(H.elements) : H.elements[i].key <= H.maxKey

\* An array with an element at its end.
LEMMA AppendElement ==
    ASSUME NEW E \in Seq(Element), NEW e \in Element
    PROVE  /\ Append(E, e) \in Seq(Element) /\ Len(Append(E, e)) = Len(E) + 1
           /\ \A i \in 1..Len(E) : Append(E, e)[i] = E[i]
           /\ Append(E, e)[Len(E) + 1] = e
           /\ \A i \in 1..(Len(E) + 1) : i \in 1..Len(E) \/ i = Len(E) + 1
           /\ ElementSet(Append(E, e)) = ElementSet(E) \cup {e}
           /\ Located(E, e.key, 0) /\ Distinct(E) => Distinct(Append(E, e))
<1> DEFINE F == Append(E, e)
<1>1. Len(E) \in Nat
  BY ElementTypes
<1>2. /\ F \in Seq(Element) /\ Len(F) = Len(E) + 1
      /\ \A i \in 1..Len(E) : F[i] = E[i]
      /\ F[Len(E) + 1] = e
  BY AppendProperties
<1>3. \A i \in 1..(Len(E) + 1) : i \in 1..Len(E) \/ i = Len(E) + 1
  BY <1>1
<1>4. 1..(Len(E) + 1) = (1..Len(E)) \cup {Len(E) + 1}
  BY <1>1
<1> HIDE DEF F
<1>5. ElementSet(F) = ElementSet(E) \cup {e}
  <2>1. ElementSet(F) \subseteq ElementSet(E) \cup {e}
    BY <1>2, <1>3 DEF ElementSet
  <2>2. Len(E) + 1 \in 1..(Len(E) + 1) /\ \A i \in 1..Len(E) : i \in 1..(Len(E) + 1)
    BY <1>4
  <2>3. ElementSet(E) \cup {e} \subseteq ElementSet(F)
    BY <1>2, <2>2 DEF ElementSet
  <2> QED BY <2>1, <2>3
<1>6. ASSUME Located(E, e.key, 0), Distinct(E) PROVE Distinct(F)
  <2> SUFFICES ASSUME NEW i \in 1..(Len(E) + 1), NEW j \in 1..(Len(E) + 1), i # j
               PROVE  F[i].key # F[j].key
    BY <1>2 DEF Distinct
  <2>1. \A k \in 1..Len(E) : E[k].key # e.key
    BY <1>6 DEF Located
  <2>2. CASE i \in 1..Len(E) /\ j \in 1..Len(E)
    BY <1>2, <1>6, <2>2 DEF Distinct
  <2>3. CASE i = Len(E) + 1 \/ j = Len(E) + 1
    BY <1>2, <1>3, <2>1, <2>3
  <2> QED BY <1>3, <2>2, <2>3
<1> QED BY <1>2, <1>3, <1>5, <1>6 DEF F

\* An array without the element at i.
LEMMA RemoveElement ==
    ASSUME NEW E \in Seq(Element), NEW i \in 1..Len(E)
    PROVE  /\ RemoveAt(E, i) \in Seq(Element) /\ ElementSet(RemoveAt(E, i)) \subseteq ElementSet(E)
           /\ Ascending(E) => Ascending(RemoveAt(E, i))
           /\ Distinct(E) => /\ Distinct(RemoveAt(E, i))
                             /\ ElementSet(RemoveAt(E, i)) = ElementSet(E) \ {E[i]}
<1> DEFINE F == RemoveAt(E, i)
           at(j) == IF j < i THEN j ELSE j + 1
<1>1. Len(E) \in Nat
  BY ElementTypes
<1>2. /\ F \in Seq(Element) /\ Len(F) = Len(E) - 1
      /\ \A j \in 1..(Len(E) - 1) : F[j] = IF j < i THEN E[j] ELSE E[j + 1]
  BY RemoveAtProperties
<1> HIDE DEF F
<1>3. \A j \in 1..(Len(E) - 1) : at(j) \in 1..Len(E) /\ at(j) # i
  BY <1>1
<1>4. \A j, k \in 1..(Len(E) - 1) : (j # k => at(j) # at(k)) /\ (j < k => at(j) < at(k))
  BY <1>1
<1>5. \A j \in 1..Len(E) : j # i => \E k \in 1..(Len(E) - 1) : at(k) = j
  <2> SUFFICES ASSUME NEW j \in 1..Len(E), j # i PROVE \E k \in 1..(Len(E) - 1) : at(k) = j
    OBVIOUS
  <2>1. CASE j < i
    <3>1. j \in 1..(Len(E) - 1) /\ at(j) = j
      BY <1>1, <2>1
    <3> QED BY <3>1
  <2>2. CASE i < j
    <3>1. j - 1 \in 1..(Len(E) - 1) /\ at(j - 1) = j
      BY <1>1, <2>2
    <3> QED BY <3>1
  <2> QED BY <1>1, <2>1, <2>2
<1>6. \A j \in 1..(Len(E) - 1) : F[j] = E[at(j)]
  BY <1>1, <1>2
<1> HIDE DEF at
<1>7. Distinct(E) => Distinct(F)
  BY <1>2, <1>3, <1>4, <1>6 DEF Distinct
<1>8. Ascending(E) => Ascending(F)
  BY <1>2, <1>3, <1>4, <1>6 DEF Ascending
<1>9. /\ ElementSet(F) \subseteq ElementSet(E)
      /\ Distinct(E) => ElementSet(F) = ElementSet(E) \ {E[i]}
  <2>1. ElementSet(F) = {F[j] : j \in 1..(Len(E) - 1)}
    BY <1>2 DEF ElementSet
  <2>2. \A j \in 1..(Len(E) - 1) : F[j] \in ElementSet(E) /\ (Distinct(E) => F[j] # E[i])
    BY <1>3, <1>6 DEF ElementSet, Distinct
  <2>3. \A j \in 1..Len(E) : E[j] # E[i] => \E k \in 1..(Len(E) - 1) : F[k] = E[j]
    BY <1>5, <1>6
  <2>4. ElementSet(E) \ {E[i]} \subseteq ElementSet(F)
    BY <2>1, <2>3 DEF ElementSet
  <2> QED BY <2>1, <2>2, <2>4
<1> QED BY <1>2, <1>7, <1>8, <1>9 DEF F

\* The last key of an array in ascending order bounds them all.
LEMMA LastKeyBound ==
    ASSUME NEW E \in Seq(Element), Ascending(E)
    PROVE  /\ LastKey(E) \in Key \cup {0}
           /\ \A i \in 1..Len(E) : E[i].key <= LastKey(E)
<1>1. Len(E) \in Nat /\ \A i \in 1..Len(E) : E[i].key \in Nat /\ E[i].key \in Key
  BY ElementTypes
<1>2. CASE E = <<>>
  <2>1. Len(E) = 0 /\ LastKey(E) = 0
    BY <1>2 DEF LastKey
  <2> QED BY <2>1
<1>3. CASE E # <<>>
  <2>1. Len(E) \in 1..Len(E)
    BY <1>1, <1>3, EmptySeq
  <2>2. LastKey(E) = E[Len(E)].key
    BY <1>3 DEF LastKey
  <2>3. ASSUME NEW i \in 1..Len(E) PROVE E[i].key <= E[Len(E)].key
    <3>1. i = Len(E) \/ i < Len(E)
      BY <1>1
    <3>2. i = Len(E) \/ E[i].key <= E[Len(E)].key
      BY <2>1, <3>1 DEF Ascending
    <3>3. E[i].key \in Nat /\ E[Len(E)].key \in Nat
      BY <1>1, <2>1
    <3> QED BY <3>2, <3>3
  <2> QED BY <1>1, <2>1, <2>2, <2>3
<1> QED BY <1>2, <1>3

\* The first insertion of a key keeps the copy in order.
LEMMA PutNewOrdered ==
    ASSUME NEW H, Ordered(H), NEW k \in Key, NEW o \in Object, Located(H.elements, k, 0)
    PROVE  /\ Ordered(PutNew(H, k, o))
           /\ ElementSet(PutNew(H, k, o).elements)
                = ElementSet(H.elements) \cup {[key |-> k, object |-> o]}
           /\ Distinct(H.elements) => Distinct(PutNew(H, k, o).elements)
<1> DEFINE e == [key |-> k, object |-> o]
<1>1. PICK E \in Seq(Element), m \in Key \cup {0} : H = [elements |-> E, maxKey |-> m]
  BY DEF Ordered, IndexHead
<1>2. /\ H.elements = E /\ H.maxKey = m /\ Ascending(E) /\ Located(E, k, 0)
      /\ \A i \in 1..Len(E) : E[i].key <= m
  BY <1>1 DEF Ordered
<1>3. e \in Element /\ e.key = k /\ k \in Nat /\ m \in Nat
  BY KeyAssumption DEF Element
<1>4. Len(E) \in Nat /\ \A i \in 1..Len(E) : E[i].key \in Nat
  BY ElementTypes
<1> HIDE DEF e
<1> DEFINE F == Append(E, e)
<1>6. /\ F \in Seq(Element) /\ Len(F) = Len(E) + 1
      /\ \A i \in 1..Len(E) : F[i] = E[i]
      /\ F[Len(E) + 1] = e
      /\ \A i \in 1..(Len(E) + 1) : i \in 1..Len(E) \/ i = Len(E) + 1
      /\ ElementSet(F) = ElementSet(E) \cup {e}
      /\ Distinct(E) => Distinct(F)
  BY <1>2, <1>3, AppendElement
<1>7. PutNew(H, k, o) = IF k < m THEN [elements |-> Sort(F), maxKey |-> m]
                        ELSE [elements |-> F, maxKey |-> k]
  BY <1>1, <1>2 DEF PutNew, e
<1> HIDE DEF F
<1>8. CASE k < m
  <2> DEFINE S == Sort(F)
  <2>1. /\ S \in Seq(Element) /\ Ascending(S) /\ ElementSet(S) = ElementSet(F)
        /\ Distinct(F) => Distinct(S)
    BY <1>6, SortExact
  <2>2. PutNew(H, k, o) = [elements |-> S, maxKey |-> m]
    BY <1>7, <1>8
  <2> HIDE DEF S
  <2>3. ASSUME NEW i \in 1..Len(S) PROVE S[i].key <= m
    <3>1. S[i] \in ElementSet(E) \cup {e}
      BY <1>6, <2>1 DEF ElementSet
    <3>2. CASE S[i] = e
      BY <1>3, <1>8, <3>2
    <3>3. CASE S[i] \in ElementSet(E)
      BY <1>2, <3>3 DEF ElementSet
    <3> QED BY <3>1, <3>2, <3>3
  <2>4. [elements |-> S, maxKey |-> m] \in IndexHead
    BY <2>1 DEF IndexHead
  <2> QED BY <1>2, <1>6, <2>1, <2>2, <2>3, <2>4 DEF Ordered, e
<1>9. CASE ~(k < m)
  <2>1. PutNew(H, k, o) = [elements |-> F, maxKey |-> k]
    BY <1>7, <1>9
  <2>2. \A i \in 1..Len(E) : E[i].key # k
    BY <1>2 DEF Located
  <2>3. \A i \in 1..Len(E) : E[i].key < k
    BY <1>2, <1>3, <1>4, <1>9, <2>2
  <2>4. Ascending(F)
    <3> SUFFICES ASSUME NEW i \in 1..(Len(E) + 1), NEW j \in 1..(Len(E) + 1), i < j
                 PROVE  F[i].key <= F[j].key
      BY <1>6 DEF Ascending
    <3>1. i \in 1..Len(E)
      BY <1>4
    <3>2. CASE j \in 1..Len(E)
      BY <1>2, <1>6, <3>1, <3>2 DEF Ascending
    <3>3. CASE j = Len(E) + 1
      BY <1>3, <1>4, <1>6, <2>3, <3>1, <3>3
    <3> QED BY <1>6, <3>2, <3>3
  <2>5. ASSUME NEW i \in 1..Len(F) PROVE F[i].key <= k
    <3>1. i \in 1..(Len(E) + 1)
      BY <1>6
    <3>2. CASE i \in 1..Len(E)
      <4>1. F[i].key < k /\ F[i].key \in Nat
        BY <1>4, <1>6, <2>3, <3>2
      <4> QED BY <1>3, <4>1
    <3>3. CASE i = Len(E) + 1
      BY <1>3, <1>6, <3>3
    <3> QED BY <1>6, <3>1, <3>2, <3>3
  <2>6. [elements |-> F, maxKey |-> k] \in IndexHead
    BY <1>6 DEF IndexHead
  <2> QED BY <1>2, <1>6, <2>1, <2>4, <2>5, <2>6 DEF Ordered, e
<1> QED BY <1>8, <1>9

\* The replacement of the object of a key keeps the copy in order.
LEMMA ReplaceOrdered ==
    ASSUME NEW H, Ordered(H), NEW o \in Object, NEW i \in 1..Len(H.elements)
    PROVE  /\ Ordered(Replace(H, i, o))
           /\ Distinct(H.elements) =>
                /\ Distinct(Replace(H, i, o).elements)
                /\ ElementSet(Replace(H, i, o).elements)
                     = (ElementSet(H.elements) \ {H.elements[i]})
                         \cup {[key |-> H.elements[i].key, object |-> o]}
<1>1. PICK E \in Seq(Element), m \in Key \cup {0} : H = [elements |-> E, maxKey |-> m]
  BY DEF Ordered, IndexHead
<1>2. /\ H.elements = E /\ H.maxKey = m /\ Ascending(E) /\ i \in 1..Len(E)
      /\ \A j \in 1..Len(E) : E[j].key <= m
  BY <1>1 DEF Ordered
<1>3. Len(E) \in Nat /\ \A j \in 1..Len(E) : E[j] \in Element /\ E[j].key \in Key
  BY ElementTypes
<1> DEFINE e == [key |-> E[i].key, object |-> o]
           F == [E EXCEPT ![i] = e]
<1>4. e \in Element /\ e.key = E[i].key
  BY <1>2, <1>3 DEF Element
<1>5. Replace(H, i, o) = [elements |-> F, maxKey |-> m]
  <2>1. [E[i] EXCEPT !.object = o] = e
    BY <1>2, <1>3 DEF Element
  <2>2. [E EXCEPT ![i].object = o] = F
    BY <2>1
  <2>3. Replace(H, i, o) = [H EXCEPT !.elements = [E EXCEPT ![i].object = o]]
    BY <1>2 DEF Replace
  <2> HIDE DEF F
  <2> QED BY <1>1, <2>2, <2>3
<1> HIDE DEF e
<1>6. /\ F \in Seq(Element) /\ Len(F) = Len(E) /\ F[i] = e
      /\ \A j \in 1..Len(E) : j # i => F[j] = E[j]
  BY <1>2, <1>4, ExceptSeq
<1> HIDE DEF F
<1>7. \A j \in 1..Len(E) : F[j].key = E[j].key
  BY <1>4, <1>6
<1>8. Ascending(F)
  BY <1>2, <1>6, <1>7 DEF Ascending
<1>9. Distinct(E) => Distinct(F)
  BY <1>6, <1>7 DEF Distinct
<1>10. ASSUME Distinct(E) PROVE ElementSet(F) = (ElementSet(E) \ {E[i]}) \cup {e}
  <2>1. ElementSet(F) = {F[j] : j \in 1..Len(E)}
    BY <1>6 DEF ElementSet
  <2>2. \A j \in 1..Len(E) : j # i => E[j] # E[i]
    BY <1>2, <1>10 DEF Distinct
  <2>3. \A j \in 1..Len(E) : F[j] \in (ElementSet(E) \ {E[i]}) \cup {e}
    BY <1>6, <2>2 DEF ElementSet
  <2>4. \A x \in ElementSet(E) \ {E[i]} : x \in ElementSet(F)
    BY <1>6, <2>1 DEF ElementSet
  <2>5. e \in ElementSet(F)
    BY <1>2, <1>6, <2>1
  <2> QED BY <2>1, <2>3, <2>4, <2>5
<1>11. [elements |-> F, maxKey |-> m] \in IndexHead
  BY <1>6 DEF IndexHead
<1>12. \A j \in 1..Len(F) : F[j].key <= m
  BY <1>2, <1>6, <1>7
<1> QED BY <1>2, <1>5, <1>8, <1>9, <1>10, <1>11, <1>12 DEF Ordered, e

\* The removal of a key keeps the copy in order, and brings maxKey down with the last one.
LEMMA RemoveKeyOrdered ==
    ASSUME NEW H, Ordered(H), NEW i \in 1..Len(H.elements), NEW k
    PROVE  /\ Ordered(RemoveKey(H, i, k))
           /\ Distinct(H.elements) =>
                /\ Distinct(RemoveKey(H, i, k).elements)
                /\ ElementSet(RemoveKey(H, i, k).elements) = ElementSet(H.elements) \ {H.elements[i]}
<1>1. PICK E \in Seq(Element), m \in Key \cup {0} : H = [elements |-> E, maxKey |-> m]
  BY DEF Ordered, IndexHead
<1>2. /\ H.elements = E /\ H.maxKey = m /\ Ascending(E) /\ i \in 1..Len(E)
      /\ \A j \in 1..Len(E) : E[j].key <= m
  BY <1>1 DEF Ordered
<1> DEFINE F == RemoveAt(E, i)
<1>4. /\ F \in Seq(Element) /\ Ascending(F) /\ ElementSet(F) \subseteq ElementSet(E)
      /\ Distinct(E) => Distinct(F) /\ ElementSet(F) = ElementSet(E) \ {E[i]}
  BY <1>2, RemoveElement
<1>5. RemoveKey(H, i, k) = [elements |-> F, maxKey |-> IF m = k THEN LastKey(F) ELSE m]
  BY <1>2 DEF RemoveKey
<1> HIDE DEF F
<1>6. LastKey(F) \in Key \cup {0} /\ \A j \in 1..Len(F) : F[j].key <= LastKey(F)
  BY <1>4, LastKeyBound
<1>7. \A j \in 1..Len(F) : F[j].key <= m
  <2> SUFFICES ASSUME NEW j \in 1..Len(F) PROVE F[j].key <= m
    OBVIOUS
  <2>1. F[j] \in ElementSet(E)
    BY <1>4 DEF ElementSet
  <2> QED BY <1>2, <2>1 DEF ElementSet
<1>8. Ordered(RemoveKey(H, i, k))
  <2>1. CASE m = k
    BY <1>4, <1>5, <1>6, <2>1 DEF Ordered, IndexHead
  <2>2. CASE m # k
    BY <1>4, <1>5, <1>7, <2>2 DEF Ordered, IndexHead
  <2> QED BY <2>1, <2>2
<1> QED BY <1>2, <1>4, <1>5, <1>8

\* Sorting puts a copy in order.
LEMMA SortedOrdered ==
    ASSUME NEW H \in IndexHead
    PROVE  /\ Ordered(Sorted(H)) /\ ElementSet(Sorted(H).elements) = ElementSet(H.elements)
           /\ Distinct(H.elements) => Distinct(Sorted(H).elements)
<1> DEFINE S == Sort(H.elements)
<1>1. H.elements \in Seq(Element)
  BY DEF IndexHead
<1>2. /\ S \in Seq(Element) /\ Ascending(S) /\ ElementSet(S) = ElementSet(H.elements)
      /\ Distinct(H.elements) => Distinct(S)
  BY <1>1, SortExact
<1>3. Sorted(H) = [elements |-> S, maxKey |-> LastKey(S)]
  BY DEF Sorted
<1> HIDE DEF S
<1>4. LastKey(S) \in Key \cup {0} /\ \A i \in 1..Len(S) : S[i].key <= LastKey(S)
  BY <1>2, LastKeyBound
<1> QED BY <1>2, <1>3, <1>4 DEF Ordered, IndexHead

\* An empty copy is in order.
LEMMA EmptyOrdered ==
    /\ Ordered(EmptyHead) /\ ElementSet(EmptyHead.elements) = {}
    /\ Distinct(EmptyHead.elements)
<1>1. EmptyHead = [elements |-> <<>>, maxKey |-> 0] /\ EmptyHead.elements = <<>>
  BY DEF EmptyHead
<1>2. <<>> \in Seq(Element) /\ Len(<<>>) = 0
  BY EmptySeq
<1>3. EmptyHead \in IndexHead
  BY <1>1, <1>2 DEF IndexHead
<1>4. 1..0 = {}
  OBVIOUS
<1> QED BY <1>1, <1>2, <1>3, <1>4 DEF Ordered, Ascending, ElementSet, Distinct

-----------------------------------------------------------------------------
(* Every sequence of operations leaves the copies in order. *)

\* While the objects are loaded, one copy grows in any order, and is sorted if it is not dirty
Loading ==
    startup => wr = NoWriter /\ (~dirty => Ascending(copy[primary].elements))

\* Then both are in order all the time
InOrder == ~startup => \A c \in Copy : Ordered(copy[c])

\* Unless startup mode has put a key again, the keys of each copy are different
Unrepeated == ~repeated => \A c \in Copy : Distinct(copy[c].elements)

\* Until the swap, the position a write has found is the one of its key in the primary copy;
\* only a put has found none
PositionKnown ==
    wr.pc \in {"modify", "swap"} /\ wr.what \in {"put", "remove"} =>
        /\ Located(copy[primary].elements, wr.key, wr.pos)
        /\ wr.what = "remove" => wr.pos # 0

\* The writer counter of a copy says that the copy is closed
Closed == \A c \in Copy :
    writers[c] = IF wr.pc \in {"wait", "redo", "unmark"} /\ c = secondary THEN 1 ELSE 0

\* The inductive invariant, beside IInv and AInv
BInv ==
    /\ DOMAIN copy = Copy /\ (\A c \in Copy : copy[c] \in IndexHead)
    /\ primary \in Copy /\ writers \in [Copy -> Nat]
    /\ startup \in BOOLEAN /\ dirty \in BOOLEAN /\ repeated \in BOOLEAN
    /\ wr \in {NoWriter} \cup Write
    /\ Loading /\ InOrder /\ Unrepeated /\ PositionKnown /\ Closed

\* A write that goes on to its next step stays the same write.
LEMMA SameWrite ==
    ASSUME NEW w \in Write, NEW p \in {"modify", "swap", "mark", "wait", "redo", "unmark"},
           NEW v, v = [w EXCEPT !.pc = p]
    PROVE  /\ v \in Write /\ v.pc = p /\ v.what = w.what
           /\ w.what \in {"put", "remove"} => v.key = w.key /\ v.object = w.object /\ v.pos = w.pos
BY DEF Write

\* What the fields of a write are.
LEMMA WriteTypes ==
    ASSUME NEW w \in Write
    PROVE  /\ w.pc # "idle" /\ w # NoWriter /\ w.what \in {"put", "remove", "clear"}
           /\ w.what \in {"put", "remove"} => w.key \in Key /\ w.object \in Object /\ w.pos \in Nat
BY DEF Write, NoWriter

\* What Modify makes of a copy in which the write has found its position is in order, and
\* differs by what the operation is for.
LEMMA ChangedOrdered ==
    ASSUME NEW H, Ordered(H), wr \in Write,
           wr.what \in {"put", "remove"} => Located(H.elements, wr.key, wr.pos),
           wr.what = "remove" => wr.pos # 0
    PROVE  LET old == ElementSet(H.elements)
               new == ElementSet(Changed(H).elements)
           IN /\ Ordered(Changed(H))
              /\ Distinct(H.elements) =>
                   /\ Distinct(Changed(H).elements)
                   /\ wr.what = "put" /\ wr.pos = 0 =>
                        new = old \cup {[key |-> wr.key, object |-> wr.object]}
                   /\ wr.what = "put" /\ wr.pos # 0 =>
                        new = (old \ {H.elements[wr.pos]})
                                \cup {[key |-> wr.key, object |-> wr.object]}
                   /\ wr.what = "remove" => new = old \ {H.elements[wr.pos]}
                   /\ wr.what = "clear" => new = {}
<1>1. /\ wr.what \in {"put", "remove", "clear"}
      /\ wr.what \in {"put", "remove"} => wr.key \in Key /\ wr.object \in Object /\ wr.pos \in Nat
  BY WriteTypes
<1>2. CASE wr.what = "put" /\ wr.pos = 0
  <2>1. Changed(H) = PutNew(H, wr.key, wr.object)
    BY <1>2 DEF Changed
  <2>2. wr.key \in Key /\ wr.object \in Object /\ Located(H.elements, wr.key, 0)
    BY <1>1, <1>2
  <2> QED BY <1>2, <2>1, <2>2, PutNewOrdered
<1>3. CASE wr.what = "put" /\ wr.pos # 0
  <2>1. Changed(H) = Replace(H, wr.pos, wr.object)
    BY <1>3 DEF Changed
  <2>2. wr.object \in Object /\ wr.pos \in 1..Len(H.elements) /\ H.elements[wr.pos].key = wr.key
    BY <1>1, <1>3 DEF Located
  <2>3. /\ Ordered(Replace(H, wr.pos, wr.object))
        /\ Distinct(H.elements) =>
             /\ Distinct(Replace(H, wr.pos, wr.object).elements)
             /\ ElementSet(Replace(H, wr.pos, wr.object).elements)
                  = (ElementSet(H.elements) \ {H.elements[wr.pos]})
                      \cup {[key |-> H.elements[wr.pos].key, object |-> wr.object]}
    BY <2>2, ReplaceOrdered
  <2> QED BY <1>3, <2>1, <2>2, <2>3
<1>4. CASE wr.what = "remove"
  <2>1. Changed(H) = RemoveKey(H, wr.pos, wr.key)
    BY <1>4 DEF Changed
  <2>2. wr.pos \in 1..Len(H.elements) /\ H.elements[wr.pos].key = wr.key
    BY <1>1, <1>4 DEF Located
  <2>3. /\ Ordered(RemoveKey(H, wr.pos, wr.key))
        /\ Distinct(H.elements) =>
             /\ Distinct(RemoveKey(H, wr.pos, wr.key).elements)
             /\ ElementSet(RemoveKey(H, wr.pos, wr.key).elements)
                  = ElementSet(H.elements) \ {H.elements[wr.pos]}
    BY <2>2, RemoveKeyOrdered
  <2> QED BY <1>4, <2>1, <2>3
<1>5. CASE wr.what = "clear"
  <2>1. Changed(H) = EmptyHead
    BY <1>5 DEF Changed
  <2> QED BY <1>5, <2>1, EmptyOrdered
<1> QED BY <1>1, <1>2, <1>3, <1>4, <1>5

\* The invariant holds when the index is created.
LEMMA InitBInv == Init => BInv
<1> SUFFICES ASSUME Init PROVE BInv
  OBVIOUS
<1>1. /\ DOMAIN copy = Copy /\ (\A c \in Copy : copy[c] = EmptyHead) /\ primary \in Copy
      /\ startup = FALSE /\ dirty = FALSE /\ repeated = FALSE /\ wr = NoWriter
  BY DEF Init, Copy
<1>2. writers \in [Copy -> Nat] /\ \A c \in Copy : writers[c] = 0
  BY DEF Init
<1>3. Ordered(EmptyHead) /\ EmptyHead \in IndexHead /\ Distinct(EmptyHead.elements)
  BY EmptyOrdered DEF Ordered
<1>4. wr.pc = "idle"
  BY <1>1 DEF NoWriter
<1> QED BY <1>1, <1>2, <1>3, <1>4 DEF BInv, Loading, InOrder, Unrepeated, PositionKnown, Closed

\* The array that is loaded, and the same sorted.
LEMMA LoadedArray ==
    ASSUME BInv, startup
    PROVE  LET H == copy[primary]
               S == Sorted(H)
           IN /\ primary \in Copy /\ H \in IndexHead
              /\ ~dirty => Ascending(H.elements)
              /\ ~repeated => Distinct(H.elements) /\ Distinct(S.elements)
              /\ Ordered(S) /\ S \in IndexHead /\ Ascending(S.elements)
              /\ ElementSet(S.elements) = ElementSet(H.elements)
<1> DEFINE H == copy[primary]
<1>1. /\ primary \in Copy /\ H \in IndexHead /\ (~dirty => Ascending(H.elements))
      /\ ~repeated => Distinct(H.elements)
  BY DEF BInv, Loading, Unrepeated
<1>2. /\ Ordered(Sorted(H)) /\ ElementSet(Sorted(H).elements) = ElementSet(H.elements)
      /\ Distinct(H.elements) => Distinct(Sorted(H).elements)
  BY <1>1, SortedOrdered
<1>3. Sorted(H) \in IndexHead /\ Ascending(Sorted(H).elements)
  BY <1>2 DEF Ordered
<1> QED BY <1>1, <1>2, <1>3

\* put while the objects are loaded adds an element, with a new key unless repeated says so.
LEMMA StartupPutEffect ==
    ASSUME BInv, NEW k \in Key, NEW o \in Object, StartupPut(k, o)
    PROVE  LET E == copy[primary].elements
           IN \E G \in IndexHead :
                 /\ copy' = [copy EXCEPT ![primary] = G]
                 /\ ~repeated' => /\ ~repeated /\ Located(E, k, 0)
                                  /\ Distinct(G.elements)
                 /\ ElementSet(G.elements) = ElementSet(E) \cup {[key |-> k, object |-> o]}
<1>1. copy[primary] \in IndexHead /\ (~repeated => Distinct(copy[primary].elements))
  BY LoadedArray DEF StartupPut
<1>2. PICK E \in Seq(Element), m \in Key \cup {0} : copy[primary] = [elements |-> E, maxKey |-> m]
  BY <1>1 DEF IndexHead
<1>3. copy[primary].elements = E
  BY <1>2
<1> DEFINE e == [key |-> k, object |-> o]
           G == [elements |-> Append(E, e), maxKey |-> m]
<1>4. copy' = [copy EXCEPT ![primary] = G]
  <2>1. PICK F : F = Append(E, e) /\ copy' = [copy EXCEPT ![primary].elements = F]
    BY <1>3 DEF StartupPut
  <2>2. copy' = [copy EXCEPT ![primary] = [copy[primary] EXCEPT !.elements = F]]
    BY <2>1
  <2>3. [copy[primary] EXCEPT !.elements = F] = [elements |-> F, maxKey |-> m]
    BY <1>2
  <2> QED BY <2>1, <2>2, <2>3
<1>5. ~repeated' => ~repeated /\ Located(E, k, 0)
  <2>1. repeated' = (repeated \/ \E i \in 1..Len(E) : E[i].key = k)
    BY <1>3 DEF StartupPut
  <2> QED BY <2>1 DEF Located
<1>6. e \in Element /\ e.key = k
  BY DEF Element
<1>7. /\ Append(E, e) \in Seq(Element)
      /\ Located(E, k, 0) /\ Distinct(E) => Distinct(Append(E, e))
      /\ ElementSet(Append(E, e)) = ElementSet(E) \cup {e}
  BY <1>6, AppendElement
<1>8. G \in IndexHead /\ G.elements = Append(E, e)
  BY <1>7 DEF IndexHead
<1> HIDE DEF G
<1> QED BY <1>1, <1>3, <1>4, <1>5, <1>7, <1>8

\* remove while the objects are loaded sorts the array and takes at most one element out.
LEMMA StartupRemoveEffect ==
    ASSUME BInv, NEW k \in Key, StartupRemove(k)
    PROVE  LET E == copy[primary].elements
           IN \E G \in IndexHead :
                /\ copy' = [copy EXCEPT ![primary] = G] /\ Ascending(G.elements)
                /\ ~repeated =>
                     /\ Distinct(G.elements)
                     /\ \/ ElementSet(G.elements) = ElementSet(E)
                        \/ \E d \in ElementSet(E) : ElementSet(G.elements) = ElementSet(E) \ {d}
<1>1. PICK H : H = IF dirty THEN Sorted(copy[primary]) ELSE copy[primary]
  OBVIOUS
<1>2. /\ H \in IndexHead /\ Ascending(H.elements) /\ (~repeated => Distinct(H.elements))
      /\ ElementSet(H.elements) = ElementSet(copy[primary].elements)
  <2>1. CASE dirty
    BY <1>1, <2>1, LoadedArray DEF StartupRemove
  <2>2. CASE ~dirty
    BY <1>1, <2>2, LoadedArray DEF StartupRemove
  <2> QED BY <2>1, <2>2
<1>3. PICK E \in Seq(Element), m \in Key \cup {0} : H = [elements |-> E, maxKey |-> m]
  BY <1>2 DEF IndexHead
<1>4. PICK i : i = findElement(E, k)
  OBVIOUS
<1>5. copy' = [copy EXCEPT ![primary] = IF i = 0 THEN H ELSE [H EXCEPT !.elements = RemoveAt(E, i)]]
  <2>1. H.elements = E
    BY <1>3
  <2>2. copy' = [copy EXCEPT ![primary] =
                   IF findElement(H.elements, k) = 0 THEN H
                   ELSE [H EXCEPT !.elements = RemoveAt(H.elements, findElement(H.elements, k))]]
    BY <1>1 DEF StartupRemove
  <2> QED BY <1>4, <2>1, <2>2
<1>6. Located(E, k, i)
  BY <1>2, <1>3, <1>4, FindExact
<1>7. CASE i = 0
  BY <1>2, <1>5, <1>7
<1>8. CASE i # 0
  <2> DEFINE G == [elements |-> RemoveAt(E, i), maxKey |-> m]
  <2>1. copy' = [copy EXCEPT ![primary] = G]
    <3>1. PICK F : F = RemoveAt(E, i)
      OBVIOUS
    <3>2. [H EXCEPT !.elements = F] = [elements |-> F, maxKey |-> m]
      BY <1>3
    <3> QED BY <1>5, <1>8, <3>1, <3>2
  <2>2. /\ RemoveAt(E, i) \in Seq(Element) /\ Ascending(RemoveAt(E, i))
        /\ Distinct(E) => /\ Distinct(RemoveAt(E, i))
                          /\ ElementSet(RemoveAt(E, i)) = ElementSet(E) \ {E[i]}
    BY <1>2, <1>3, <1>6, <1>8, RemoveElement DEF Located
  <2>3. G \in IndexHead /\ G.elements = RemoveAt(E, i)
    BY <2>2 DEF IndexHead
  <2>4. /\ E[i] \in ElementSet(E) /\ ElementSet(E) = ElementSet(copy[primary].elements)
        /\ ~repeated => Distinct(E)
    BY <1>2, <1>3, <1>6, <1>8 DEF Located, ElementSet
  <2> HIDE DEF G
  <2> QED BY <2>1, <2>2, <2>3, <2>4
<1> QED BY <1>7, <1>8

\* The steps of the startup.
LEMMA StartupBInv ==
    ASSUME BInv,
           \/ \E k \in Key, o \in Object : StartupPut(k, o)
           \/ \E k \in Key : StartupRemove(k)
           \/ BeginStartup \/ StartupGet \/ EndStartup
    PROVE  BInv'
<1>1. /\ startup' \in BOOLEAN /\ dirty' \in BOOLEAN /\ repeated' \in BOOLEAN
      /\ UNCHANGED <<primary, writers, wr, secondary>>
  BY DEF BInv, StartupPut, StartupRemove, BeginStartup, StartupGet, EndStartup, secondary
<1>2. primary \in Copy /\ wr = NoWriter /\ wr.pc = "idle"
  <2>1. startup \/ wr = NoWriter
    BY DEF StartupPut, StartupRemove, BeginStartup, StartupGet, EndStartup
  <2> QED BY <2>1 DEF BInv, Loading, NoWriter
<1>3. writers' \in [Copy -> Nat] /\ (wr \in {NoWriter} \cup Write)' /\ PositionKnown' /\ Closed'
  BY <1>1, <1>2 DEF BInv, Closed, PositionKnown
<1>4. ASSUME NEW G \in IndexHead, ~repeated' => ~repeated /\ Distinct(G.elements), startup',
             copy' = [copy EXCEPT ![primary] = G], ~dirty' => Ascending(G.elements)
      PROVE  BInv'
  <2>1. /\ DOMAIN copy' = Copy /\ (\A c \in Copy : copy'[c] \in IndexHead) /\ copy'[primary] = G
        /\ \A c \in Copy : c # primary => copy'[c] = copy[c]
    BY <1>2, <1>4 DEF BInv
  <2>2. Loading'
    BY <1>1, <1>2, <1>4, <2>1 DEF Loading
  <2>3. InOrder'
    BY <1>4 DEF InOrder
  <2>4. Unrepeated'
    BY <1>4, <2>1 DEF BInv, Unrepeated
  <2> QED BY <1>1, <1>2, <1>3, <2>1, <2>2, <2>3, <2>4 DEF BInv
<1>5. startup => /\ Ordered(Sorted(copy[primary])) /\ Sorted(copy[primary]) \in IndexHead
                 /\ Ascending(Sorted(copy[primary]).elements)
                 /\ ~repeated => Distinct(Sorted(copy[primary]).elements)
  BY LoadedArray
<1>6. ASSUME NEW k \in Key, NEW o \in Object, StartupPut(k, o) PROVE BInv'
  <2>1. startup' /\ dirty' = TRUE
    BY <1>6 DEF StartupPut
  <2> QED BY <1>4, <1>6, <2>1, StartupPutEffect
<1>7. CASE StartupGet
  <2>1. /\ startup /\ startup' /\ repeated' = repeated
        /\ copy' = [copy EXCEPT ![primary] = Sorted(copy[primary])]
    BY <1>7 DEF StartupGet
  <2> QED BY <1>4, <1>5, <2>1
<1>8. ASSUME NEW k \in Key, StartupRemove(k) PROVE BInv'
  <2>1. startup' /\ repeated' = repeated
    BY <1>8 DEF StartupRemove
  <2> QED BY <1>4, <1>8, <2>1, StartupRemoveEffect
<1>9. CASE EndStartup
  <2>1. copy' = [c \in Copy |-> Sorted(copy[primary])] /\ startup /\ ~startup' /\ repeated' = repeated
    BY <1>9 DEF EndStartup
  <2>2. DOMAIN copy' = Copy /\ \A c \in Copy : copy'[c] = Sorted(copy[primary])
    BY <2>1
  <2> QED BY <1>1, <1>2, <1>3, <1>5, <2>1, <2>2 DEF BInv, Loading, InOrder, Unrepeated
<1>10. CASE BeginStartup
  <2>1. ~startup /\ startup' /\ repeated' = repeated /\ copy' = copy
    BY <1>10 DEF BeginStartup
  <2>2. Ascending(copy[primary].elements)
    BY <1>2, <2>1 DEF BInv, InOrder, Ordered
  <2> QED BY <1>1, <1>2, <1>3, <2>1, <2>2 DEF BInv, Loading, InOrder, Unrepeated
<1> QED BY <1>6, <1>7, <1>8, <1>9, <1>10

\* A writer that begins has found the position of its key.
LEMMA BeginBInv ==
    ASSUME BInv, AInv,
           \/ \E k \in Key, o \in Object : BeginPut(k, o)
           \/ \E k \in Key : BeginRemove(k)
           \/ BeginClear
    PROVE  BInv'
<1>1. ~startup /\ wr = NoWriter /\ UNCHANGED <<copy, primary, writers, startup, dirty, repeated, secondary>>
  BY DEF BeginPut, BeginRemove, BeginClear, secondary
<1>2. PICK H : H = copy[primary]
  OBVIOUS
<1>3. copy[secondary] = H /\ Ordered(H)
  <2>1. copy[secondary] = H
    BY <1>1, <1>2 DEF AInv, InStep, NoWriter
  <2> QED BY <1>1, <1>2, <2>1 DEF BInv, InOrder
<1>4. PICK E \in Seq(Element) : E = H.elements
  BY <1>3 DEF Ordered, IndexHead
<1>5. Ascending(E)
  BY <1>3, <1>4 DEF Ordered
<1>6. ASSUME NEW k \in Key
      PROVE  Located(E, k, findElement(E, k)) /\ findElement(E, k) \in Nat
  <2>1. Located(E, k, findElement(E, k))
    BY <1>5, FindExact
  <2>2. Len(E) \in Nat
    BY ElementTypes
  <2> QED BY <2>1, <2>2 DEF Located
<1>7. ASSUME wr' \in Write, wr'.pc = "modify",
             wr'.what \in {"put", "remove"} => Located(E, wr'.key, wr'.pos),
             wr'.what = "remove" => wr'.pos # 0
      PROVE  BInv'
  <2>1. Loading' /\ InOrder' /\ Unrepeated'
    BY <1>1 DEF BInv, Loading, InOrder, Unrepeated
  <2>2. PositionKnown'
    BY <1>1, <1>2, <1>4, <1>7 DEF PositionKnown
  <2>3. wr.pc = "idle"
    BY <1>1 DEF NoWriter
  <2>4. Closed'
    BY <1>1, <1>7, <2>3 DEF BInv, Closed
  <2> QED BY <1>1, <1>7, <2>1, <2>2, <2>4 DEF BInv
<1>8. ASSUME NEW k \in Key, NEW o \in Object, BeginPut(k, o) PROVE BInv'
  <2>1. PICK i : i = findElement(E, k)
    OBVIOUS
  <2>2. wr' = [pc |-> "modify", what |-> "put", key |-> k, object |-> o, pos |-> i]
    BY <1>3, <1>4, <1>8, <2>1 DEF BeginPut
  <2>3. wr' \in Write
    BY <1>6, <2>1, <2>2 DEF Write
  <2> QED BY <1>6, <1>7, <2>1, <2>2, <2>3
<1>9. ASSUME NEW k \in Key, BeginRemove(k) PROVE BInv'
  <2>1. PICK i : i = findElement(E, k)
    OBVIOUS
  <2>2. i # 0 /\ wr' = [pc |-> "modify", what |-> "remove", key |-> k, object |-> E[i].object, pos |-> i]
    BY <1>3, <1>4, <1>9, <2>1 DEF BeginRemove
  <2>3. i \in 1..Len(E)
    BY <1>6, <2>1, <2>2 DEF Located
  <2>4. E[i].object \in Object
    BY <2>3, ElementTypes
  <2>5. wr' \in Write
    BY <1>6, <2>1, <2>2, <2>4 DEF Write
  <2> QED BY <1>6, <1>7, <2>1, <2>2, <2>5
<1>10. CASE BeginClear
  <2>1. wr' = [pc |-> "modify", what |-> "clear"]
    BY <1>10 DEF BeginClear
  <2>2. wr' \in Write
    BY <2>1 DEF Write
  <2> QED BY <1>7, <2>1, <2>2
<1> QED BY <1>8, <1>9, <1>10

\* The steps of a write.
LEMMA WriteBInv ==
    ASSUME BInv, AInv, AInv', WriterStep
    PROVE  BInv'
<1>1. /\ secondary \in Copy /\ secondary # primary /\ primary \in Copy
      /\ \A c \in Copy : c = primary \/ c = secondary
  BY DEF AInv, Copy, secondary
<1>2. wr.pc # "idle" /\ wr \in Write /\ ~startup /\ UNCHANGED <<startup, dirty, repeated>>
  <2>1. wr.pc # "idle" /\ wr # NoWriter
    BY DEF WriterStep, Modify, Swap, Mark, Wait, Redo, Unmark, NoWriter
  <2>2. UNCHANGED <<startup, dirty, repeated>>
    BY DEF WriterStep, Modify, Swap, Mark, Wait, Redo, Unmark
  <2> QED BY <2>1, <2>2 DEF BInv, Loading
<1>3. \A c \in Copy : Ordered(copy[c]) /\ (~repeated => Distinct(copy[c].elements))
  BY <1>2 DEF BInv, InOrder, Unrepeated
<1>4. ASSUME NEW p \in {"swap", "mark", "wait", "redo", "unmark"}, wr' = [wr EXCEPT !.pc = p]
      PROVE  /\ wr' \in Write /\ wr'.pc = p /\ wr'.what = wr.what
             /\ wr.what \in {"put", "remove"} => wr'.key = wr.key /\ wr'.object = wr.object /\ wr'.pos = wr.pos
  BY <1>2, <1>4, SameWrite
<1>5. ASSUME \A c \in Copy : Ordered(copy'[c]) /\ (~repeated => Distinct(copy'[c].elements)),
             DOMAIN copy' = Copy
      PROVE  Loading' /\ InOrder' /\ Unrepeated' /\ \A c \in Copy : copy'[c] \in IndexHead
  BY <1>2, <1>5 DEF Loading, InOrder, Unrepeated, Ordered
<1>6. CASE Modify
  <2>1. /\ copy' = [copy EXCEPT ![secondary] = Changed(copy[secondary])]
        /\ wr' = [wr EXCEPT !.pc = "swap"] /\ wr.pc = "modify" /\ UNCHANGED <<primary, writers, secondary>>
    BY <1>6 DEF Modify, Changed, secondary
  <2>2. copy[primary] = copy[secondary]
    BY <1>2, <2>1 DEF AInv, InStep
  <2>3. /\ wr.what \in {"put", "remove"} => Located(copy[secondary].elements, wr.key, wr.pos)
        /\ wr.what = "remove" => wr.pos # 0
    BY <2>1, <2>2 DEF BInv, PositionKnown
  <2>4. /\ Ordered(Changed(copy[secondary]))
        /\ ~repeated => Distinct(Changed(copy[secondary]).elements)
    BY <1>1, <1>2, <1>3, <2>3, ChangedOrdered
  <2>5. DOMAIN copy' = Copy /\ copy'[primary] = copy[primary] /\ copy'[secondary] = Changed(copy[secondary])
    BY <1>1, <2>1 DEF AInv
  <2>6. \A c \in Copy : Ordered(copy'[c]) /\ (~repeated => Distinct(copy'[c].elements))
    BY <1>1, <1>3, <2>4, <2>5
  <2>7. /\ wr' \in Write /\ wr'.pc = "swap" /\ wr'.what = wr.what
        /\ wr.what \in {"put", "remove"} => wr'.key = wr.key /\ wr'.pos = wr.pos
    BY <1>4, <2>1
  <2>8. PositionKnown'
    BY <2>1, <2>2, <2>3, <2>5, <2>7 DEF PositionKnown
  <2>9. Closed'
    BY <2>1, <2>7 DEF BInv, Closed
  <2> QED BY <1>1, <1>2, <1>5, <2>1, <2>5, <2>6, <2>7, <2>8, <2>9 DEF BInv
<1>7. CASE Swap
  <2>1. /\ wr' = [wr EXCEPT !.pc = "mark"] /\ wr.pc = "swap" /\ UNCHANGED <<copy, writers>>
        /\ primary' = secondary
    BY <1>7 DEF Swap
  <2>2. wr' \in Write /\ wr'.pc = "mark"
    BY <1>4, <2>1
  <2>3. PositionKnown' /\ Closed'
    BY <2>1, <2>2 DEF BInv, Closed, PositionKnown
  <2> QED BY <1>1, <1>2, <1>3, <1>5, <2>1, <2>2, <2>3 DEF BInv
<1>8. CASE Mark
  <2>1. /\ wr' = [wr EXCEPT !.pc = "wait"] /\ wr.pc = "mark" /\ UNCHANGED <<copy, primary, secondary>>
        /\ writers' = [writers EXCEPT ![secondary] = @ + 1]
    BY <1>8 DEF Mark, secondary
  <2>2. wr' \in Write /\ wr'.pc = "wait"
    BY <1>4, <2>1
  <2>3. writers \in [Copy -> Nat] /\ \A c \in Copy : writers[c] = 0
    BY <2>1 DEF BInv, Closed
  <2>4. writers' = [writers EXCEPT ![secondary] = 1]
    <3>1. writers[secondary] + 1 = 1
      BY <1>1, <2>3
    <3> QED BY <2>1, <3>1
  <2>5. writers' \in [Copy -> Nat] /\ Closed'
    BY <1>1, <2>1, <2>2, <2>3, <2>4 DEF Closed
  <2>6. PositionKnown'
    BY <2>2 DEF PositionKnown
  <2> QED BY <1>1, <1>2, <1>3, <1>5, <2>1, <2>2, <2>5, <2>6 DEF BInv
<1>9. CASE Wait
  <2>1. /\ wr' = [wr EXCEPT !.pc = "redo"] /\ wr.pc = "wait"
        /\ UNCHANGED <<copy, primary, secondary, writers>>
    BY <1>9 DEF Wait, secondary
  <2>2. wr' \in Write /\ wr'.pc = "redo"
    BY <1>4, <2>1
  <2>3. PositionKnown' /\ Closed'
    BY <2>1, <2>2 DEF BInv, Closed, PositionKnown
  <2> QED BY <1>1, <1>2, <1>3, <1>5, <2>1, <2>2, <2>3 DEF BInv
<1>10. CASE Redo
  <2>1. /\ wr' = [wr EXCEPT !.pc = "unmark"] /\ wr.pc = "redo" /\ UNCHANGED <<primary, secondary, writers>>
    BY <1>10 DEF Redo, secondary
  <2>2. wr' \in Write /\ wr'.pc = "unmark"
    BY <1>4, <2>1
  <2>3. PositionKnown' /\ Closed'
    BY <2>1, <2>2 DEF BInv, Closed, PositionKnown
  <2>4. DOMAIN copy' = Copy /\ copy'[primary] = copy[primary]
    BY <1>1, <1>10 DEF Redo, AInv
  <2>5. copy'[primary] = copy'[secondary]
    BY <1>2, <2>1, <2>2 DEF AInv, InStep
  <2>6. \A c \in Copy : Ordered(copy'[c]) /\ (~repeated => Distinct(copy'[c].elements))
    BY <1>1, <1>3, <2>4, <2>5
  <2> QED BY <1>1, <1>2, <1>5, <2>1, <2>2, <2>3, <2>4, <2>6 DEF BInv
<1>11. CASE Unmark
  <2>1. /\ wr' = NoWriter /\ wr.pc = "unmark" /\ UNCHANGED <<copy, primary, secondary>>
        /\ writers' = [writers EXCEPT ![secondary] = @ - 1]
    BY <1>11 DEF Unmark, secondary
  <2>2. wr'.pc = "idle"
    BY <2>1 DEF NoWriter
  <2>3. /\ writers \in [Copy -> Nat] /\ writers[secondary] = 1
        /\ \A c \in Copy : c # secondary => writers[c] = 0
    BY <1>1, <2>1 DEF BInv, Closed
  <2>4. writers' = [writers EXCEPT ![secondary] = 0]
    BY <1>1, <2>1, <2>3
  <2>5. writers' \in [Copy -> Nat] /\ Closed'
    BY <1>1, <2>1, <2>2, <2>3, <2>4 DEF Closed
  <2>6. PositionKnown'
    BY <2>2 DEF PositionKnown
  <2> QED BY <1>1, <1>2, <1>3, <1>5, <2>1, <2>5, <2>6 DEF BInv
<1> QED BY <1>6, <1>7, <1>8, <1>9, <1>10, <1>11 DEF WriterStep

\* Every step preserves the invariant.
LEMMA NextBInv == BInv /\ AInv /\ AInv' /\ [Next]_vars => BInv'
<1> SUFFICES ASSUME BInv, AInv, AInv', [Next]_vars PROVE BInv'
  OBVIOUS
<1>1. CASE (\E r \in Reader : PickCopy(r) \/ ReaderStep(r)) \/ UNCHANGED vars
  <2>1. UNCHANGED <<copy, primary, writers, startup, dirty, repeated, wr, secondary>>
    BY <1>1 DEF PickCopy, ReaderStep, Enter, Check, Leave, vars, secondary
  <2> QED BY <2>1 DEF BInv, Loading, InOrder, Unrepeated, PositionKnown, Closed
<1>2. CASE \/ \E k \in Key, o \in Object : StartupPut(k, o)
           \/ \E k \in Key : StartupRemove(k)
           \/ BeginStartup \/ StartupGet \/ EndStartup
  BY <1>2, StartupBInv
<1>3. CASE \/ \E k \in Key, o \in Object : BeginPut(k, o)
           \/ \E k \in Key : BeginRemove(k)
           \/ BeginClear
  BY <1>3, BeginBInv
<1>4. CASE WriterStep
  BY <1>4, WriteBInv
<1> QED BY <1>1, <1>2, <1>3, <1>4 DEF Next

\* Every variable of the index has its type at all times: among them the counters, which
\* wrap around in the code if they are decremented at 0, and the position that put and
\* remove keep across swapAndWait.
THEOREM IndexTypes == Spec => []TypeOK
<1>1. IInv /\ BInv => TypeOK
  <2> SUFFICES ASSUME IInv, BInv PROVE TypeOK
    OBVIOUS
  <2>1. ASSUME NEW c \in Copy
        PROVE  /\ copy[c].maxKey \in Key \cup {0}
               /\ \A i \in 1..Len(copy[c].elements) : copy[c].elements[i] \in Element
    <3>1. copy[c].elements \in Seq(Element) /\ copy[c].maxKey \in Key \cup {0}
      BY <2>1 DEF BInv, IndexHead
    <3> QED BY <3>1, ElementTypes
  <2>2. writers \in [Copy -> 0..1]
    <3>1. \A c \in Copy : writers[c] \in 0..1
      BY DEF BInv, Closed
    <3> QED BY <3>1 DEF BInv
  <2>3. /\ readers \in [Copy -> Nat]
        /\ rd \in [Reader -> [pc : {"idle", "enter", "check", "read", "leave"}, h : Copy \cup {0}]]
    BY DEF IInv, Shape
  <2> QED BY <2>1, <2>2, <2>3 DEF TypeOK, BInv
<1>2. AInv /\ [Next]_vars => AInv'
  BY OutsideAInv, WriteAInv DEF Next
<1> QED BY <1>1, <1>2, InitIInv, NextIInv, InitAInv, InitBInv, NextBInv, PTL DEF Spec

\* Outside startup mode findElement finds, in either copy and whenever the writer is not
\* in the middle of changing it, exactly the keys that are there: the array is in ascending
\* order after any sequence of put, remove, clear and loads in startup mode, and the binary
\* search is exact on every such array, key 0 and keys that are there twice included.
THEOREM LookupIsExact == Spec => []LookupExact
<1>1. BInv => LookupExact
  <2> SUFFICES ASSUME BInv, ~startup, NEW c \in Copy, NEW k \in Key
               PROVE  LET E == copy[c].elements
                          i == findElement(E, k)
                      IN IF i = 0 THEN \A j \in 1..Len(E) : E[j].key # k
                         ELSE i <= Len(E) /\ E[i].key = k
    BY DEF LookupExact
  <2>1. copy[c].elements \in Seq(Element) /\ Ascending(copy[c].elements)
    BY DEF BInv, InOrder, Ordered, IndexHead
  <2>2. PICK E \in Seq(Element) : E = copy[c].elements
    BY <2>1
  <2>3. Located(E, k, findElement(E, k))
    BY <2>1, <2>2, FindExact
  <2>4. Len(E) \in Nat
    BY ElementTypes
  <2> QED BY <2>2, <2>3, <2>4 DEF Located
<1>2. AInv /\ [Next]_vars => AInv'
  BY OutsideAInv, WriteAInv DEF Next
<1> QED BY <1>1, <1>2, InitAInv, InitBInv, NextBInv, PTL DEF Spec

-----------------------------------------------------------------------------
(* The refinement: the elements of the primary copy are a map, and of all the steps of a *)
(* write only the swap changes it.                                                       *)

\* f is the map that a set of elements with different keys stands for
IsMapOf(f, S) ==
    /\ DOMAIN f = {e.key : e \in S} /\ f = [k \in DOMAIN f |-> f[k]]
    /\ \A e \in S : f[e.key] = e.object

\* Content, of a given array
ContentOf(E) ==
    LET at(k) == CHOOSE i \in 1..Len(E) : E[i].key = k
    IN [k \in {E[i].key : i \in 1..Len(E)} |-> E[at(k)].object]

\* An array stands for the map of its elements.
LEMMA ContentIsMap ==
    ASSUME NEW E, Distinct(E)
    PROVE  IsMapOf(ContentOf(E), ElementSet(E))
<1> DEFINE at(k) == CHOOSE i \in 1..Len(E) : E[i].key = k
           f == ContentOf(E)
<1>1. f = [k \in {E[i].key : i \in 1..Len(E)} |-> E[at(k)].object]
  BY DEF ContentOf
<1>2. ASSUME NEW i \in 1..Len(E) PROVE at(E[i].key) = i
  <2>1. at(E[i].key) \in 1..Len(E) /\ E[at(E[i].key)].key = E[i].key
    BY Zenon
  <2> QED BY <2>1 DEF Distinct
<1> HIDE DEF f, at
<1>3. DOMAIN f = {e.key : e \in ElementSet(E)}
  BY <1>1 DEF ElementSet
<1>4. \A i \in 1..Len(E) : f[E[i].key] = E[i].object
  BY <1>1, <1>2
<1>5. \A e \in ElementSet(E) : f[e.key] = e.object
  BY <1>4 DEF ElementSet
<1>6. f = [k \in DOMAIN f |-> f[k]]
  BY <1>1
<1> QED BY <1>3, <1>5, <1>6 DEF IsMapOf, f

\* A set of elements stands for one map.
LEMMA OneMap ==
    ASSUME NEW S, NEW f, NEW g, IsMapOf(f, S), IsMapOf(g, S)
    PROVE  f = g
<1>1. DOMAIN f = DOMAIN g
  BY DEF IsMapOf
<1>2. \A k \in DOMAIN f : f[k] = g[k]
  BY DEF IsMapOf
<1>3. f = [k \in DOMAIN f |-> f[k]] /\ g = [k \in DOMAIN g |-> g[k]]
  BY DEF IsMapOf
<1> QED BY <1>1, <1>2, <1>3

\* T has the elements of S but for those with the key k; and one with that key
Without(S, T, k) == T = {e \in S : e.key # k}
With(S, T, k, o) == T = {e \in S : e.key # k} \cup {[key |-> k, object |-> o]}

\* The map with a key added, or with another object for it.
LEMMA MapWith ==
    ASSUME NEW S, NEW T, NEW k, NEW o, NEW f, NEW g,
           IsMapOf(f, S), IsMapOf(g, T), With(S, T, k, o)
    PROVE  g = [x \in DOMAIN f \cup {k} |-> IF x = k THEN o ELSE f[x]]
<1> DEFINE e == [key |-> k, object |-> o]
           h == [x \in DOMAIN f \cup {k} |-> IF x = k THEN o ELSE f[x]]
<1>1. e.key = k /\ e.object = o
  OBVIOUS
<1>2. \A d : d \in T <=> (d \in S /\ d.key # k) \/ d = e
  BY DEF With
<1> HIDE DEF e
<1>3. {d.key : d \in T} = DOMAIN f \cup {k}
  <2>1. DOMAIN f = {d.key : d \in S}
    BY DEF IsMapOf
  <2>2. \A d \in T : d.key \in DOMAIN f \cup {k}
    BY <1>1, <1>2, <2>1
  <2>3. \A x \in DOMAIN f : x = k \/ \E d \in T : d.key = x
    BY <1>2, <2>1
  <2>4. \E d \in T : d.key = k
    BY <1>1, <1>2
  <2> QED BY <2>2, <2>3, <2>4
<1>4. DOMAIN h = DOMAIN f \cup {k} /\ h = [x \in DOMAIN h |-> h[x]]
  OBVIOUS
<1>5. \A d \in T : h[d.key] = d.object
  <2>1. \A d \in S : d.key \in DOMAIN f /\ f[d.key] = d.object
    BY DEF IsMapOf
  <2> QED BY <1>1, <1>2, <2>1
<1> HIDE DEF h
<1>6. IsMapOf(h, T)
  BY <1>3, <1>4, <1>5 DEF IsMapOf
<1> QED BY <1>6, OneMap DEF h

\* The map with a key removed.
LEMMA MapWithout ==
    ASSUME NEW S, NEW T, NEW k, NEW f, NEW g, IsMapOf(f, S), IsMapOf(g, T), Without(S, T, k)
    PROVE  g = [x \in DOMAIN f \ {k} |-> f[x]]
<1> DEFINE h == [x \in DOMAIN f \ {k} |-> f[x]]
<1>1. DOMAIN f = {e.key : e \in S}
  BY DEF IsMapOf
<1>2. {e.key : e \in T} = DOMAIN f \ {k}
  BY <1>1 DEF Without
<1>3. DOMAIN h = DOMAIN f \ {k} /\ h = [x \in DOMAIN h |-> h[x]]
  OBVIOUS
<1>4. \A e \in T : h[e.key] = e.object
  BY <1>2 DEF IsMapOf, Without
<1> HIDE DEF h
<1>5. IsMapOf(h, T)
  BY <1>2, <1>3, <1>4 DEF IsMapOf
<1> QED BY <1>5, OneMap DEF h

\* The map of no element.
LEMMA MapOfNone ==
    ASSUME NEW g, IsMapOf(g, {}), NEW h, DOMAIN h = {}, h = [x \in {} |-> h[x]]
    PROVE  g = h
<1>1. IsMapOf(h, {})
  BY DEF IsMapOf
<1> QED BY <1>1, OneMap

\* What the primary copy holds
Elements == ElementSet(copy[primary].elements)

\* No two elements of an array in which the keys are different have the same.
LEMMA KeysTell ==
    ASSUME NEW E, Distinct(E), NEW d \in ElementSet(E), NEW e \in ElementSet(E), d.key = e.key
    PROVE  d = e
<1>1. PICK i \in 1..Len(E) : d = E[i]
  BY DEF ElementSet
<1>2. PICK j \in 1..Len(E) : e = E[j]
  BY DEF ElementSet
<1> QED BY <1>1, <1>2 DEF Distinct

\* Unless a key was put again in startup mode, the primary copy is a map.
LEMMA PrimaryDistinct ==
    BInv /\ ~repeated => Distinct(copy[primary].elements) /\ IsMapOf(Content, Elements)
<1> SUFFICES ASSUME BInv, ~repeated PROVE Distinct(copy[primary].elements) /\ IsMapOf(Content, Elements)
  OBVIOUS
<1>2. Distinct(copy[primary].elements)
  BY DEF BInv, Unrepeated
<1>3. Content = ContentOf(copy[primary].elements)
  BY Zenon DEF Content, ContentOf
<1> QED BY <1>2, <1>3, ContentIsMap DEF Elements

\* And so it is after a step.
LEMMA PrimaryDistinctNext == BInv' /\ ~repeated' => IsMapOf(Content, Elements)'
<1>1. BInv /\ ~repeated => IsMapOf(Content, Elements)
  BY PrimaryDistinct
<1> QED BY <1>1, PTL

\* An index is created empty.
LEMMA InitMap == Init => Map!Init
<1> SUFFICES ASSUME Init PROVE Map!Init
  OBVIOUS
<1>1. copy[primary] = EmptyHead
  BY DEF Init, Copy
<1>2. Elements = {}
  BY <1>1, EmptyOrdered DEF Elements
<1>3. IsMapOf(Content, {})
  BY <1>2, InitBInv, PrimaryDistinct DEF Init
<1> DEFINE h == [k \in {} |-> CHOOSE o \in Object : TRUE]
<1>4. DOMAIN h = {} /\ h = [x \in {} |-> h[x]]
  OBVIOUS
<1> HIDE DEF h
<1>5. Content = h
  BY <1>3, <1>4, MapOfNone
<1> QED BY <1>5 DEF Map!Init, h

\* Loading an object puts it into the map.
LEMMA StartupPutMaps ==
    ASSUME BInv, BInv', ~repeated', NEW k \in Key, NEW o \in Object, StartupPut(k, o)
    PROVE  Map!Put
<1>1. IsMapOf(Content, Elements) /\ IsMapOf(Content', Elements') /\ primary \in Copy /\ DOMAIN copy = Copy
  <2>1. ~repeated
    BY StartupPutEffect
  <2> QED BY <2>1, PrimaryDistinct, PrimaryDistinctNext DEF BInv
<1>2. Located(copy[primary].elements, k, 0) /\ Elements' = Elements \cup {[key |-> k, object |-> o]}
  <2>1. PICK G \in IndexHead : /\ copy' = [copy EXCEPT ![primary] = G]
                               /\ ElementSet(G.elements) = Elements \cup {[key |-> k, object |-> o]}
    BY StartupPutEffect DEF Elements
  <2>2. primary' = primary
    BY DEF StartupPut
  <2> QED BY <1>1, <2>1, <2>2, StartupPutEffect DEF Elements
<1>3. \A e \in Elements : e.key # k
  BY <1>2 DEF Elements, ElementSet, Located
<1>4. Content' = [x \in DOMAIN Content \cup {k} |-> IF x = k THEN o ELSE Content[x]]
  <2>1. With(Elements, Elements', k, o)
    <3>1. Elements = {e \in Elements : e.key # k}
      BY <1>3
    <3> QED BY <1>2, <3>1 DEF With
  <2> QED BY <1>1, <2>1, MapWith
<1> QED BY <1>4 DEF Map!Put

\* A step that takes one element out of the primary copy removes a key from the map.
LEMMA OneLess ==
    ASSUME BInv, BInv', ~repeated, ~repeated', NEW d \in Elements, Elements' = Elements \ {d}
    PROVE  Map!Remove
<1>1. IsMapOf(Content, Elements) /\ IsMapOf(Content', Elements')
  BY PrimaryDistinct, PrimaryDistinctNext
<1>2. \A e \in Elements : e.key = d.key => e = d
  BY PrimaryDistinct, KeysTell DEF Elements
<1>3. Without(Elements, Elements', d.key)
  BY <1>2 DEF Without
<1>4. Content' = [x \in DOMAIN Content \ {d.key} |-> Content[x]]
  BY <1>1, <1>3, MapWithout
<1>5. d.key \in DOMAIN Content
  BY <1>1 DEF IsMapOf
<1> QED BY <1>4, <1>5 DEF Map!Remove

\* A step that leaves the elements of the primary copy the same, in whatever order, leaves
\* the map the same.
LEMMA SameElements ==
    ASSUME BInv, BInv', ~repeated, ~repeated', Elements' = Elements
    PROVE  UNCHANGED Content
<1>1. IsMapOf(Content, Elements) /\ IsMapOf(Content', Elements)
  BY PrimaryDistinct, PrimaryDistinctNext
<1> QED BY <1>1, OneMap

\* The swap makes the change of the write in the map.
LEMMA SwapMaps ==
    ASSUME BInv, BInv', AInv, ~repeated, ~repeated', Swap
    PROVE  Map!Next
<1>1. wr.pc = "swap" /\ primary' = secondary /\ copy' = copy
  BY DEF Swap
<1>2. wr \in Write /\ ~startup /\ primary \in Copy
  <2>1. wr # NoWriter
    BY <1>1 DEF NoWriter
  <2> QED BY <2>1 DEF BInv, Loading
<1>3. PICK H : H = copy[primary]
  OBVIOUS
<1>4. Ordered(H) /\ copy[secondary] = Changed(H)
  BY <1>1, <1>2, <1>3 DEF BInv, InOrder, AInv, InStep
<1>5. /\ wr.what \in {"put", "remove"} => Located(H.elements, wr.key, wr.pos)
      /\ wr.what = "remove" => wr.pos # 0
  BY <1>1, <1>3 DEF BInv, PositionKnown
<1>6. /\ wr.what \in {"put", "remove", "clear"}
      /\ wr.what \in {"put", "remove"} => wr.key \in Key /\ wr.object \in Object
  BY <1>2, WriteTypes
<1>7. PICK S, f, g : S = Elements /\ f = Content /\ g = Content'
  OBVIOUS
<1>8. S = ElementSet(H.elements) /\ Elements' = ElementSet(Changed(H).elements)
  BY <1>1, <1>3, <1>4, <1>7 DEF Elements
<1>9. IsMapOf(f, S) /\ IsMapOf(g, Elements') /\ Distinct(H.elements)
  BY <1>3, <1>7, PrimaryDistinct, PrimaryDistinctNext
<1>10. /\ wr.what = "put" /\ wr.pos = 0 => Elements' = S \cup {[key |-> wr.key, object |-> wr.object]}
       /\ wr.what = "put" /\ wr.pos # 0 =>
            Elements' = (S \ {H.elements[wr.pos]}) \cup {[key |-> wr.key, object |-> wr.object]}
       /\ wr.what = "remove" => Elements' = S \ {H.elements[wr.pos]}
       /\ wr.what = "clear" => Elements' = {}
  BY <1>2, <1>4, <1>5, <1>8, <1>9, ChangedOrdered
<1>11. ASSUME wr.what = "put", With(S, Elements', wr.key, wr.object)
       PROVE  Map!Put
  <2>1. PICK k \in Key, o \in Object : k = wr.key /\ o = wr.object
    BY <1>6, <1>11
  <2>2. With(S, Elements', k, o)
    BY <1>11, <2>1
  <2>3. g = [x \in DOMAIN f \cup {k} |-> IF x = k THEN o ELSE f[x]]
    BY <1>9, <2>2, MapWith
  <2> QED BY <1>7, <2>3 DEF Map!Put
<1>12. CASE wr.what = "put" /\ wr.pos = 0
  <2>1. \A e \in S : e.key # wr.key
    BY <1>5, <1>8, <1>12 DEF Located, ElementSet
  <2>2. S = {e \in S : e.key # wr.key}
    BY <2>1
  <2>3. With(S, Elements', wr.key, wr.object)
    BY <1>10, <1>12, <2>2 DEF With
  <2> QED BY <1>11, <1>12, <2>3 DEF Map!Next
<1>13. CASE wr.what \in {"put", "remove"} /\ wr.pos # 0
  <2>1. PICK d : d = H.elements[wr.pos]
    OBVIOUS
  <2>2. d \in S /\ d.key = wr.key
    BY <1>5, <1>8, <1>13, <2>1 DEF Located, ElementSet
  <2>3. CASE wr.what = "put"
    <3>1. S \ {d} = {e \in S : e.key # wr.key}
      BY <1>8, <1>9, <2>2, KeysTell
    <3>2. Elements' = (S \ {d}) \cup {[key |-> wr.key, object |-> wr.object]}
      BY <1>10, <1>13, <2>1, <2>3
    <3>3. With(S, Elements', wr.key, wr.object)
      BY <3>1, <3>2 DEF With
    <3> QED BY <1>11, <2>3, <3>3 DEF Map!Next
  <2>4. CASE wr.what = "remove"
    <3>1. d \in Elements /\ Elements' = Elements \ {d}
      BY <1>7, <1>10, <2>1, <2>2, <2>4
    <3> QED BY <3>1, OneLess DEF Map!Next
  <2> QED BY <1>13, <2>3, <2>4
<1>14. CASE wr.what = "clear"
  <2> DEFINE h == [x \in {} |-> f[x]]
  <2>1. DOMAIN h = {} /\ h = [x \in {} |-> h[x]]
    OBVIOUS
  <2>2. IsMapOf(g, {})
    BY <1>9, <1>10, <1>14
  <2> HIDE DEF h
  <2>3. g = h
    BY <2>1, <2>2, MapOfNone
  <2> QED BY <1>7, <2>3 DEF h, Map!Clear, Map!Next
<1> QED BY <1>5, <1>6, <1>12, <1>13, <1>14

\* Every step is a step of the map, or none.
LEMMA NextMap == BInv /\ BInv' /\ AInv /\ [Next]_vars => [Map!Next \/ repeated']_Content
<1> SUFFICES ASSUME BInv, BInv', AInv, [Next]_vars, ~repeated' PROVE Map!Next \/ UNCHANGED Content
  OBVIOUS
<1>9. ~repeated
  BY DEF Next, StartupPut, BeginPut, StartupRemove, BeginRemove, BeginStartup, StartupGet, EndStartup,
         BeginClear, WriterStep, Modify, Swap, Mark, Wait, Redo, Unmark, PickCopy, ReaderStep,
         Enter, Check, Leave, vars
<1>0. primary \in Copy /\ DOMAIN copy = Copy /\ secondary # primary
  BY DEF BInv, Copy, secondary
<1>1. ASSUME copy'[primary] = copy[primary], primary' = primary PROVE UNCHANGED Content
  <2>1. Elements' = Elements
    BY <1>1 DEF Elements
  <2> QED BY <1>9, <2>1, SameElements
<1>2. ASSUME NEW k \in Key, NEW o \in Object, StartupPut(k, o) PROVE Map!Next
  BY <1>2, StartupPutMaps DEF Map!Next
<1>3. ASSUME NEW k \in Key, StartupRemove(k) PROVE Map!Next \/ UNCHANGED Content
  <2>1. PICK G \in IndexHead :
            /\ copy' = [copy EXCEPT ![primary] = G]
            /\ \/ ElementSet(G.elements) = Elements
               \/ \E d \in Elements : ElementSet(G.elements) = Elements \ {d}
    BY <1>3, <1>9, StartupRemoveEffect DEF Elements
  <2>2. Elements' = ElementSet(G.elements)
    BY <1>0, <1>3, <2>1 DEF Elements, StartupRemove
  <2>3. CASE Elements' = Elements
    BY <1>9, <2>3, SameElements
  <2>4. CASE \E d \in Elements : Elements' = Elements \ {d}
    BY <1>9, <2>4, OneLess DEF Map!Next
  <2> QED BY <2>1, <2>2, <2>3, <2>4
<1>4. CASE StartupGet \/ EndStartup
  <2>1. copy'[primary] = Sorted(copy[primary]) /\ primary' = primary /\ startup
    BY <1>0, <1>4 DEF StartupGet, EndStartup
  <2>2. ElementSet(Sorted(copy[primary]).elements) = Elements
    BY <2>1, LoadedArray DEF Elements
  <2>3. Elements' = Elements
    BY <2>1, <2>2 DEF Elements
  <2> QED BY <1>9, <2>3, SameElements
<1>5. CASE Swap
  BY <1>5, <1>9, SwapMaps
<1>6. CASE Modify \/ Redo
  BY <1>0, <1>1, <1>6 DEF Modify, Redo
<1>7. CASE \/ \E k \in Key, o \in Object : BeginPut(k, o)
           \/ \E k \in Key : BeginRemove(k)
           \/ BeginStartup \/ BeginClear \/ Mark \/ Wait \/ Unmark
           \/ \E r \in Reader : PickCopy(r) \/ ReaderStep(r)
           \/ UNCHANGED vars
  <2>1. UNCHANGED <<copy, primary>>
    BY <1>7 DEF BeginPut, BeginRemove, BeginStartup, BeginClear, Mark, Wait, Unmark, PickCopy, ReaderStep,
                Enter, Check, Leave, vars
  <2> QED BY <1>1, <2>1
<1> QED BY <1>2, <1>3, <1>4, <1>5, <1>6, <1>7 DEF Next, WriterStep

\* The index implements a map that put, remove and clear change in one step: whoever picks
\* the primary copy (acquireIndex) sees the map before the write or after it, although
\* each write goes through two arrays, a swap and a wait for the readers.  This holds until
\* put, in startup mode, is called with a key that is there already.
THEOREM MapRefinement == Spec => ImplementsIndexMap
<1>1. AInv /\ [Next]_vars => AInv'
  BY OutsideAInv, WriteAInv DEF Next
<1> QED BY <1>1, InitAInv, InitBInv, NextBInv, InitMap, NextMap, PTL
        DEF Spec, ImplementsIndexMap

=============================================================================
