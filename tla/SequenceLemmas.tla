--------------------------- MODULE SequenceLemmas ---------------------------
(***************************************************************************)
(* What the operators on sequences that the models use return: the index   *)
(* of the first element that matches, a sequence with one element more or  *)
(* less, and the number of its elements that are in a set.                 *)
(***************************************************************************)
EXTENDS Integers, Sequences, SequencesExt, SequenceTheorems, FiniteSetTheorems,
        WellFoundedInduction, TLAPS

\* A set of positive numbers that is not empty has a minimum.
LEMMA MinProperties ==
    ASSUME NEW I \in SUBSET Nat, I # {}
    PROVE  Min(I) \in I /\ \A j \in I : Min(I) <= j
<1> DEFINE R == {ss \in Nat \X Nat : ss[1] < ss[2]}
<1>1. IsWellFoundedOn(R, Nat)
    BY NatLessThanWellFounded DEF OpToRel
<1>2. PICK x \in I : \A y \in I : ~(<<y, x>> \in R)
    BY <1>1, WFMin
<1>3. \A y \in I : x <= y
    <2>1. SUFFICES ASSUME NEW y \in I, y < x PROVE FALSE
        OBVIOUS
    <2>2. <<y, x>> \in Nat \X Nat /\ <<y, x>>[1] < <<y, x>>[2]
        BY <2>1
    <2>3. <<y, x>> \in R
        BY <2>2
    <2> QED BY <1>2, <2>3
<1> QED BY <1>3 DEF Min

\* The sequence without the element at index i.
LEMMA RemoveAtProperties ==
    ASSUME NEW S, NEW s \in Seq(S), NEW i \in 1..Len(s)
    PROVE  /\ RemoveAt(s, i) \in Seq(S)
           /\ Len(RemoveAt(s, i)) = Len(s) - 1
           /\ \A j \in 1..(Len(s) - 1) : RemoveAt(s, i)[j] = IF j < i THEN s[j] ELSE s[j + 1]
<1> DEFINE a == SubSeq(s, 1, i - 1)
           b == SubSeq(s, i + 1, Len(s))
<1>1. /\ a \in Seq(S) /\ Len(a) = i - 1
      /\ \A j \in 1..(i - 1) : a[j] = s[j]
    BY SubSeqProperties, ElementOfSeq
<1>2. /\ b \in Seq(S) /\ Len(b) = Len(s) - i
      /\ \A j \in 1..(Len(s) - i) : b[j] = s[i + j]
    <2>1. \A j \in (i + 1)..Len(s) : s[j] \in S
        BY ElementOfSeq
    <2>2. /\ b \in Seq(S)
          /\ Len(b) = IF i + 1 <= Len(s) THEN Len(s) - (i + 1) + 1 ELSE 0
          /\ \A j \in 1..(Len(s) - (i + 1) + 1) : b[j] = s[(i + 1) + j - 1]
        BY <2>1, SubSeqProperties, LenProperties
    <2> QED BY <2>2, LenProperties
<1>3. RemoveAt(s, i) = a \o b
    BY DEF RemoveAt
<1> HIDE DEF a, b
<1>4. /\ a \o b \in Seq(S)
      /\ Len(a \o b) = Len(a) + Len(b)
      /\ \A j \in 1..(Len(a) + Len(b)) : (a \o b)[j] = IF j <= Len(a) THEN a[j] ELSE b[j - Len(a)]
    BY <1>1, <1>2, ConcatProperties
<1> QED BY <1>1, <1>2, <1>3, <1>4, LenProperties

\* Two sequences, one after the other.
LEMMA ConcatElements ==
    ASSUME NEW S, NEW s \in Seq(S), NEW u \in Seq(S)
    PROVE  LET t == s \o u
           IN /\ t \in Seq(S) /\ Len(t) = Len(s) + Len(u) /\ Len(s) \in Nat /\ Len(u) \in Nat
              /\ \A j \in 1..Len(t) : t[j] = IF j <= Len(s) THEN s[j] ELSE u[j - Len(s)]
BY ConcatProperties, LenProperties

\* A sequence with an element put in after index i
Inserted(s, i, x) == SubSeq(s, 1, i) \o <<x>> \o SubSeq(s, i + 1, Len(s))

\* It has no other new element.
LEMMA InsertElements ==
    ASSUME NEW S, NEW s \in Seq(S), NEW x \in S, NEW i \in 0..Len(s)
    PROVE  LET t == Inserted(s, i, x)
           IN /\ t \in Seq(S)
              /\ \A j \in 1..Len(t) : t[j] = x \/ \E m \in 1..Len(s) : t[j] = s[m]
<1> DEFINE T == {s[m] : m \in 1..Len(s)} \cup {x}
           t == Inserted(s, i, x)
<1>1. Len(s) \in Nat /\ \A m \in 1..Len(s) : s[m] \in S /\ s[m] \in T
    BY LenProperties, ElementOfSeq
<1>2. T \subseteq S
    BY <1>1
<1>3. s \in Seq(T) /\ x \in T
    BY <1>1, LenProperties
<1> HIDE DEF T
<1>4. SubSeq(s, 1, i) \in Seq(T) /\ <<x>> \in Seq(T)
    <2>1. \A j \in 1..i : s[j] \in T
        BY <1>1
    <2> QED BY <1>1, <1>3, <2>1, SubSeqProperties
<1>5. SubSeq(s, i + 1, Len(s)) \in Seq(T)
    <2>1. \A j \in (i + 1)..Len(s) : s[j] \in T
        BY <1>1
    <2> QED BY <1>1, <1>3, <2>1, SubSeqProperties
<1>6. t \in Seq(T)
    BY <1>4, <1>5, ConcatProperties DEF Inserted
<1> HIDE DEF t
<1>7. \A j \in 1..Len(t) : t[j] \in T
    BY <1>6, ElementOfSeq
<1>8. t \in Seq(S)
    BY <1>2, <1>6, <1>7, LenProperties
<1> QED BY <1>7, <1>8 DEF T, t

-----------------------------------------------------------------------------
(* How many elements of a sequence are in a set *)

\* The indices of elements in P
At(s, P) == {i \in 1..Len(s) : s[i] \in P}
Count(s, P) == Cardinality(At(s, P))

\* They are finitely many.
LEMMA CountType ==
    ASSUME NEW S, NEW s \in Seq(S), NEW P
    PROVE  IsFiniteSet(At(s, P)) /\ Count(s, P) \in Nat /\ At(s, P) \subseteq 1..Len(s)
<1>1. IsFiniteSet(1..Len(s)) /\ At(s, P) \in SUBSET (1..Len(s))
    BY LenProperties, FS_Interval DEF At
<1> QED BY <1>1, FS_Subset, FS_CardinalityType DEF Count

\* An element at the end counts if it is in the set.
LEMMA CountAppend ==
    ASSUME NEW S, NEW s \in Seq(S), NEW x \in S, NEW P
    PROVE  Count(Append(s, x), P) = Count(s, P) + IF x \in P THEN 1 ELSE 0
<1> DEFINE t == Append(s, x)
<1>1. /\ t \in Seq(S) /\ Len(t) = Len(s) + 1 /\ Len(s) \in Nat
      /\ \A j \in 1..Len(s) : t[j] = s[j]
      /\ t[Len(s) + 1] = x
    BY AppendProperties, LenProperties
<1> HIDE DEF t
<1>2. IsFiniteSet(At(s, P)) /\ Count(s, P) \in Nat /\ Len(s) + 1 \notin At(s, P)
    BY <1>1, CountType
<1>3. CASE x \in P
    <2>1. At(t, P) = At(s, P) \cup {Len(s) + 1}
        BY <1>1, <1>3 DEF At
    <2> QED BY <1>2, <1>3, <2>1, FS_AddElement DEF Count, t
<1>4. CASE x \notin P
    <2>1. At(t, P) = At(s, P)
        BY <1>1, <1>4 DEF At
    <2> QED BY <1>2, <1>4, <2>1 DEF Count, t
<1> QED BY <1>3, <1>4

\* The first element counted if it was in the set.
LEMMA CountTail ==
    ASSUME NEW S, NEW s \in Seq(S), s # <<>>, NEW P
    PROVE  Count(s, P) = Count(Tail(s), P) + IF Head(s) \in P THEN 1 ELSE 0
<1> DEFINE t == Tail(s)
<1>1. /\ t \in Seq(S) /\ Len(t) = Len(s) - 1 /\ Len(s) \in Nat \ {0}
      /\ \A j \in 1..Len(t) : t[j] = s[j + 1]
      /\ Head(s) = s[1]
    BY HeadTailProperties, LenProperties, EmptySeq
<1> HIDE DEF t
<1> DEFINE A == At(s, P) \ {1}
           B == At(t, P)
           f == [i \in A |-> i - 1]
<1>2. IsFiniteSet(At(s, P)) /\ IsFiniteSet(A) /\ Count(s, P) \in Nat
      /\ Cardinality(A) = IF 1 \in At(s, P) THEN Count(s, P) - 1 ELSE Count(s, P)
    BY CountType, FS_RemoveElement DEF Count
<1>3. 1 \in At(s, P) <=> Head(s) \in P
    BY <1>1 DEF At
<1>4. \A i \in A : i \in 2..Len(s) /\ i - 1 \in B
    BY <1>1 DEF At
<1>5. \A j \in B : j + 1 \in A /\ f[j + 1] = j
    BY <1>1 DEF At
<1>6. f \in Bijection(A, B)
    <2> HIDE DEF A, B
    <2>1. f \in [A -> B]
        BY <1>4
    <2>2. \A i, j \in A : f[i] = f[j] => i = j
        BY <1>4
    <2>3. \A j \in B : \E i \in A : f[i] = j
        BY <1>5
    <2> QED BY <2>1, <2>2, <2>3 DEF Bijection, Injection, Surjection, IsInjective
<1> HIDE DEF A, B, f
<1>7. Cardinality(B) = Cardinality(A)
    BY <1>2, <1>6, FS_Bijection DEF ExistsBijection
<1> QED BY <1>2, <1>3, <1>7 DEF Count, B, t

\* A sequence at the end counts as far as it is in the set; here all of it or nothing.
LEMMA CountConcat ==
    ASSUME NEW S, NEW s \in Seq(S), NEW u \in Seq(S), NEW P,
           (\A i \in 1..Len(u) : u[i] \in P) \/ (\A i \in 1..Len(u) : u[i] \notin P)
    PROVE  Count(s \o u, P) = Count(s, P) + IF u # <<>> /\ u[1] \in P THEN Len(u) ELSE 0
<1> DEFINE t == s \o u
<1>1. /\ t \in Seq(S) /\ Len(t) = Len(s) + Len(u) /\ Len(s) \in Nat /\ Len(u) \in Nat
      /\ \A j \in 1..Len(t) : t[j] = IF j <= Len(s) THEN s[j] ELSE u[j - Len(s)]
    BY ConcatElements
<1> HIDE DEF t
<1>2. IsFiniteSet(At(s, P)) /\ Count(s, P) \in Nat /\ At(s, P) \subseteq 1..Len(s)
    BY CountType
<1>3. u # <<>> <=> Len(u) >= 1
    BY <1>1, EmptySeq
<1>4. CASE \A i \in 1..Len(u) : u[i] \notin P
    <2>1. At(t, P) = At(s, P)
        BY <1>1, <1>4 DEF At
    <2>2. ~(u # <<>> /\ u[1] \in P)
        BY <1>1, <1>3, <1>4
    <2> QED BY <1>2, <2>1, <2>2 DEF Count, t
<1>5. CASE \A i \in 1..Len(u) : u[i] \in P
    <2> DEFINE N == (Len(s) + 1)..(Len(s) + Len(u))
    <2>1. At(t, P) = At(s, P) \cup N
        BY <1>1, <1>5 DEF At
    <2>2. At(s, P) \cap N = {}
        BY <1>1, <1>2
    <2>3. IsFiniteSet(N) /\ Cardinality(N) = Len(u)
        <3>1. PICK a \in Int, b \in Int : a = Len(s) + 1 /\ b = Len(s) + Len(u)
            BY <1>1
        <3>2. IsFiniteSet(a..b) /\ Cardinality(a..b) = IF a > b THEN 0 ELSE b - a + 1
            BY FS_Interval
        <3> QED BY <1>1, <3>1, <3>2
    <2> HIDE DEF N
    <2>4. Cardinality(At(t, P)) = Cardinality(At(s, P)) + Cardinality(N) - Cardinality({})
        BY <1>2, <2>1, <2>2, <2>3, FS_Union
    <2>5. Count(t, P) = Count(s, P) + Len(u)
        BY <1>1, <1>2, <2>3, <2>4, FS_EmptySet DEF Count
    <2>6. IF u # <<>> /\ u[1] \in P THEN TRUE ELSE Len(u) = 0
        BY <1>1, <1>3, <1>5
    <2> QED BY <1>2, <2>5, <2>6 DEF t
<1> QED BY <1>4, <1>5

=============================================================================
