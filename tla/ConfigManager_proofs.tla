------------------------- MODULE ConfigManager_proofs -------------------------
(***************************************************************************)
(* Proofs about the configuration manager, for any elements, dependencies  *)
(* and handlers.  For any requests: TypeOK, LostDependentsPending, and     *)
(* that the three lists and the passes over them implement ConfigRequests. *)
(* For patient requesters and while no shutdown begins: Converged and, for *)
(* elements that are handled together, ActiveIsConfigured.                 *)
(***************************************************************************)
EXTENDS ConfigManager, SequenceLemmas

-----------------------------------------------------------------------------
(* How often an element occurs in a sequence. *)

\* A count is of a finite set of places, and is not zero for the elements there are.
LEMMA OccurrencesType ==
    ASSUME NEW X, NEW s \in Seq(X), NEW x
    PROVE  /\ IsFiniteSet({i \in DOMAIN s : s[i] = x})
           /\ Occurrences(s, x) \in Nat
           /\ Occurrences(s, x) > 0 <=> x \in ToSet(s)
<1> DEFINE P == {i \in DOMAIN s : s[i] = x}
<1>1. P \in SUBSET (1 .. Len(s)) /\ Len(s) \in Nat
  BY LenProperties
<1>2. IsFiniteSet(P)
  BY <1>1, FS_Interval, FS_Subset
<1>3. Cardinality(P) \in Nat /\ (Cardinality(P) = 0 <=> P = {})
  BY <1>2, FS_CardinalityType, FS_EmptySet
<1>4. P # {} <=> x \in ToSet(s)
  BY DEF ToSet
<1>5. Occurrences(s, x) = Cardinality(P)
  BY DEF Occurrences
<1> HIDE DEF P
<1>6. Occurrences(s, x) \in Nat /\ (Occurrences(s, x) > 0 <=> x \in ToSet(s))
  BY <1>3, <1>4, <1>5
<1> QED
  BY <1>2, <1>6 DEF P

\* Nothing occurs in the empty sequence, and one element once in a sequence of it.
LEMMA OccurrencesShort ==
    ASSUME NEW x, NEW y
    PROVE  /\ Occurrences(<<>>, x) = 0
           /\ Occurrences(<<y>>, x) = IF y = x THEN 1 ELSE 0
<1>1. {i \in DOMAIN <<>> : <<>>[i] = x} = {}
  OBVIOUS
<1>2. {i \in DOMAIN <<y>> : <<y>>[i] = x} = IF y = x THEN {1} ELSE {}
  OBVIOUS
<1>3. Cardinality({1}) = 1 /\ Cardinality({}) = 0
  BY FS_Singleton, FS_EmptySet
<1> QED
  BY <1>1, <1>2, <1>3 DEF Occurrences

\* The counts of two sequences add up in their concatenation.
LEMMA OccurrencesConcat ==
    ASSUME NEW X, NEW s \in Seq(X), NEW t \in Seq(X), NEW x
    PROVE  Occurrences(s \o t, x) = Occurrences(s, x) + Occurrences(t, x)
<1> DEFINE m == Len(s)
           n == Len(t)
           u == s \o t
           A == {i \in DOMAIN s : s[i] = x}
           B == {i \in DOMAIN t : t[i] = x}
           C == {i \in DOMAIN u : u[i] = x}
           D == {i \in C : i > m}
<1>1. /\ m \in Nat /\ n \in Nat
      /\ DOMAIN s = 1 .. m /\ DOMAIN t = 1 .. n /\ DOMAIN u = 1 .. m + n
      /\ \A i \in 1 .. m + n : u[i] = IF i <= m THEN s[i] ELSE t[i - m]
  BY LenProperties, ConcatProperties
<1>2. /\ Occurrences(s, x) = Cardinality(A) /\ Occurrences(t, x) = Cardinality(B)
      /\ Occurrences(u, x) = Cardinality(C)
  BY DEF Occurrences
<1> HIDE DEF m, n, u
<1>3. IsFiniteSet(A) /\ IsFiniteSet(B)
  <2>1. A \in SUBSET (1 .. m) /\ B \in SUBSET (1 .. n)
    BY <1>1
  <2>2. IsFiniteSet(1 .. m) /\ IsFiniteSet(1 .. n)
    BY <1>1, FS_Interval
  <2> HIDE DEF A, B
  <2> QED
    BY <2>1, <2>2, FS_Subset
<1>4. C = A \cup D /\ A \cap D = {}
  <2>1. ASSUME NEW i PROVE i \in A <=> i \in C /\ i <= m
    BY <1>1
  <2>2. ASSUME NEW i \in C PROVE i \in Int
    BY <1>1
  <2> HIDE DEF A
  <2> QED
    BY <1>1, <2>1, <2>2
<1>5. ExistsBijection(B, D)
  <2> DEFINE f == [i \in B |-> i + m]
  <2>1. ASSUME NEW i \in B PROVE i + m \in D
    <3>1. i \in 1 .. n /\ i + m \in 1 .. m + n /\ ~(i + m <= m) /\ i + m - m = i
      BY <1>1
    <3>2. u[i + m] = t[i]
      BY <1>1, <3>1
    <3> QED
      BY <1>1, <3>1, <3>2
  <2>2. ASSUME NEW j \in D PROVE \E i \in B : i + m = j
    <3>1. j \in 1 .. m + n /\ j > m /\ u[j] = x
      BY <1>1
    <3>2. j - m \in 1 .. n /\ j - m + m = j /\ ~(j <= m)
      BY <1>1, <3>1
    <3>3. t[j - m] = x
      BY <1>1, <3>1, <3>2
    <3> QED
      BY <1>1, <3>2, <3>3
  <2>3. \A i, j \in B : i + m = j + m => i = j
    BY <1>1
  <2> HIDE DEF B, D
  <2>4. f \in [B -> D] /\ \A i \in B : f[i] = i + m
    BY <2>1
  <2> HIDE DEF f
  <2>5. f \in Bijection(B, D)
    BY <2>2, <2>3, <2>4, Fun_IsBij
  <2> QED
    BY <2>5 DEF ExistsBijection
<1>6. IsFiniteSet(D) /\ Cardinality(D) = Cardinality(B)
  BY <1>3, <1>5, FS_Bijection
<1> HIDE DEF A, B, C, D
<1>7. Cardinality(A \cup D) = Cardinality(A) + Cardinality(D) - Cardinality(A \cap D)
  BY <1>3, <1>6, FS_Union
<1>8. Cardinality(A) \in Nat /\ Cardinality(B) \in Nat
  BY <1>3, FS_CardinalityType
<1>9. Cardinality(C) = Cardinality(A) + Cardinality(B)
  <2>1. Cardinality(A \cap D) = 0 /\ C = A \cup D
    BY <1>4, FS_EmptySet
  <2> QED
    BY <1>6, <1>7, <1>8, <2>1
<1> QED
  BY <1>2, <1>9 DEF u

\* Append adds one occurrence of what is appended.
LEMMA OccurrencesAppend ==
    ASSUME NEW X, NEW s \in Seq(X), NEW y \in X, NEW x
    PROVE  Occurrences(Append(s, y), x) = Occurrences(s, x) + IF y = x THEN 1 ELSE 0
<1>1. <<y>> \in Seq(X) /\ Append(s, y) = s \o <<y>>
  OBVIOUS
<1>2. Occurrences(s \o <<y>>, x) = Occurrences(s, x) + Occurrences(<<y>>, x)
  BY <1>1, OccurrencesConcat
<1> QED
  BY <1>1, <1>2, OccurrencesShort

\* RemoveAt takes one occurrence away, of the entry at that place.
LEMMA OccurrencesRemoveAt ==
    ASSUME NEW X, NEW s \in Seq(X), NEW i \in 1 .. Len(s), NEW x
    PROVE  Occurrences(RemoveAt(s, i), x) = Occurrences(s, x) - IF s[i] = x THEN 1 ELSE 0
<1> DEFINE n == Len(s)
           a == SubSeq(s, 1, i - 1)
           b == SubSeq(s, i, n)
           c == SubSeq(s, i + 1, n)
<1>1. n \in Nat /\ s[i] \in X
  BY LenProperties, ElementOfSeq
<1>2. a \in Seq(X) /\ b \in Seq(X) /\ c \in Seq(X)
  <2>1. \A j \in 1 .. n : s[j] \in X
    BY LenProperties
  <2> HIDE DEF n
  <2>2. i \in Int /\ i - 1 \in Int /\ i + 1 \in Int /\ n \in Int
    BY <1>1
  <2>3. /\ \A j \in 1 .. i - 1 : s[j] \in X
        /\ \A j \in i .. n : s[j] \in X
        /\ \A j \in i + 1 .. n : s[j] \in X
    BY <1>1, <2>1 DEF n
  <2> QED
    BY <2>2, <2>3, SubSeqProperties
<1>3. s = a \o b
  <2>1. SubSeq(s, 1, i - 1) \o SubSeq(s, i - 1 + 1, n) = SubSeq(s, 1, n)
    <3>1. 1 \in 1 .. Len(s) + 1 /\ i - 1 \in 1 - 1 .. Len(s) /\ n \in i - 1 .. Len(s)
      BY <1>1
    <3> QED
      BY <3>1, ConcatAdjacentSubSeq
  <2>2. i - 1 + 1 = i
    BY <1>1
  <2> QED
    BY <2>1, <2>2, SubSeqFull
<1>4. b = <<s[i]>> \o c
  <2>1. i \in 1 .. Len(s) /\ Len(s) \in i .. Len(s)
    BY <1>1
  <2> QED
    BY <2>1, SubSeqRecursiveFirst
<1>5. RemoveAt(s, i) = a \o c
  BY DEF RemoveAt
<1> HIDE DEF n, a, b, c
<1>6. <<s[i]>> \in Seq(X)
  BY <1>1
<1>7. Occurrences(s, x) = Occurrences(a, x) + Occurrences(b, x)
  BY <1>2, <1>3, OccurrencesConcat
<1>8. Occurrences(b, x) = Occurrences(<<s[i]>>, x) + Occurrences(c, x)
  BY <1>2, <1>4, <1>6, OccurrencesConcat
<1>9. Occurrences(a \o c, x) = Occurrences(a, x) + Occurrences(c, x)
  BY <1>2, OccurrencesConcat
<1>10. Occurrences(a, x) \in Nat /\ Occurrences(c, x) \in Nat
  BY <1>2, OccurrencesType
<1>11. Occurrences(<<s[i]>>, x) = IF s[i] = x THEN 1 ELSE 0
  BY OccurrencesShort
<1> QED
  BY <1>5, <1>7, <1>8, <1>9, <1>10, <1>11

\* RemoveFirst takes one occurrence of its element away if there is one.
LEMMA OccurrencesRemoveFirst ==
    ASSUME NEW X, NEW s \in Seq(X), NEW y, NEW x
    PROVE  /\ RemoveFirst(s, y) \in Seq(X)
           /\ Occurrences(RemoveFirst(s, y), x) =
                 Occurrences(s, x) - IF x = y /\ Occurrences(s, x) > 0 THEN 1 ELSE 0
<1>1. Len(s) \in Nat /\ DOMAIN s = 1 .. Len(s) /\ Occurrences(s, x) \in Nat
  BY LenProperties, OccurrencesType
<1>2. Occurrences(s, y) > 0 <=> y \in ToSet(s)
  BY OccurrencesType
<1>3. CASE y \in ToSet(s)
  <2> DEFINE I == {i \in 1 .. Len(s) : s[i] = y}
             k == Min(I)
  <2>1. I \in SUBSET Nat /\ I # {}
    BY <1>1, <1>3 DEF ToSet
  <2>2. k \in I
    BY <2>1, MinIsLeast
  <2>3. k \in 1 .. Len(s) /\ s[k] = y
    BY <2>2
  <2>4. RemoveFirst(s, y) = RemoveAt(s, k)
    BY <2>1, <2>3 DEF RemoveFirst, SelectInSeq
  <2> HIDE DEF k
  <2>5. RemoveAt(s, k) \in Seq(X)
    BY <2>3, RemoveAtProperties
  <2>6. Occurrences(RemoveAt(s, k), x) = Occurrences(s, x) - IF s[k] = x THEN 1 ELSE 0
    BY <2>3, OccurrencesRemoveAt
  <2> QED
    BY <1>1, <1>2, <1>3, <2>3, <2>4, <2>5, <2>6
<1>4. CASE y \notin ToSet(s)
  <2>1. RemoveFirst(s, y) = s
    BY <1>1, <1>4 DEF RemoveFirst, ToSet
  <2> QED
    BY <1>1, <1>2, <1>4, <2>1
<1> QED
  BY <1>3, <1>4

\* The removals shutdown() asks for: one for each occurrence of an active element.
LEMMA RemovalsOfAll ==
    ASSUME NEW s \in Seq(Elements), NEW r,
           r = [i \in DOMAIN s |-> REMOVE(s[i])]
    PROVE  /\ r \in Seq(Entries)
           /\ \A t \in {"ADD", "REMOVE"}, e \in Elements :
                 Occurrences(r, <<t, e>>) = IF t = "REMOVE" THEN Occurrences(s, e) ELSE 0
<1>1. Len(s) \in Nat /\ DOMAIN s = 1 .. Len(s) /\ \A i \in DOMAIN s : s[i] \in Elements
  BY LenProperties
<1>2. \A i \in DOMAIN s : r[i] \in Entries /\ r[i] = <<"REMOVE", s[i]>>
  BY <1>1 DEF REMOVE, Entries
<1>3. DOMAIN r = 1 .. Len(s)
  BY <1>1
<1>4. r \in [1 .. Len(s) -> Entries]
  BY <1>1, <1>2, <1>3
<1>5. r \in Seq(Entries)
  BY <1>1, <1>4, SeqDef
<1>6. ASSUME NEW t \in {"ADD", "REMOVE"}, NEW e \in Elements
      PROVE  Occurrences(r, <<t, e>>) = IF t = "REMOVE" THEN Occurrences(s, e) ELSE 0
  <2>1. CASE t = "REMOVE"
    <3>1. \A i \in DOMAIN s : r[i] = <<t, e>> <=> s[i] = e
      BY <1>2, <2>1
    <3>2. {i \in DOMAIN r : r[i] = <<t, e>>} = {i \in DOMAIN s : s[i] = e}
      BY <1>1, <1>3, <3>1
    <3> QED
      BY <2>1, <3>2 DEF Occurrences
  <2>2. CASE t = "ADD"
    <3>1. \A i \in DOMAIN s : r[i] # <<t, e>>
      BY <1>2, <2>2
    <3>2. {i \in DOMAIN r : r[i] = <<t, e>>} = {}
      BY <1>1, <1>3, <3>1
    <3> QED
      BY <2>2, <3>2, FS_EmptySet DEF Occurrences
  <2> QED
    BY <2>1, <2>2
<1> QED
  BY <1>5, <1>6

\* A pair of entries, as scanForLostDependencies() adds it.
LEMMA PairProperties ==
    ASSUME NEW a \in Elements
    PROVE  /\ Pair(a) \in Seq(Entries)
           /\ \A t \in {"ADD", "REMOVE"}, e \in Elements :
                 Occurrences(Pair(a), <<t, e>>) = IF a = e THEN 1 ELSE 0
<1>1. REMOVE(a) \in Entries /\ ADD(a) \in Entries
  BY DEF REMOVE, ADD, Entries
<1>2. /\ <<REMOVE(a)>> \in Seq(Entries) /\ <<ADD(a)>> \in Seq(Entries)
      /\ Pair(a) = <<REMOVE(a)>> \o <<ADD(a)>> /\ Pair(a) \in Seq(Entries)
  BY <1>1 DEF Pair
<1>3. ASSUME NEW t \in {"ADD", "REMOVE"}, NEW e \in Elements
      PROVE  Occurrences(Pair(a), <<t, e>>) = IF a = e THEN 1 ELSE 0
  <2>1. Occurrences(Pair(a), <<t, e>>) =
           Occurrences(<<REMOVE(a)>>, <<t, e>>) + Occurrences(<<ADD(a)>>, <<t, e>>)
    <3>1. Occurrences(<<REMOVE(a)>> \o <<ADD(a)>>, <<t, e>>) =
             Occurrences(<<REMOVE(a)>>, <<t, e>>) + Occurrences(<<ADD(a)>>, <<t, e>>)
      BY <1>2, OccurrencesConcat, Zenon
    <3> QED
      BY <1>2, <3>1, Zenon
  <2>2. /\ Occurrences(<<REMOVE(a)>>, <<t, e>>) = IF REMOVE(a) = <<t, e>> THEN 1 ELSE 0
        /\ Occurrences(<<ADD(a)>>, <<t, e>>) = IF ADD(a) = <<t, e>> THEN 1 ELSE 0
    BY OccurrencesShort
  <2>3. /\ REMOVE(a) = <<t, e>> <=> t = "REMOVE" /\ a = e
        /\ ADD(a) = <<t, e>> <=> t = "ADD" /\ a = e
    BY DEF REMOVE, ADD
  <2>4. t = "REMOVE" <=> t # "ADD"
    OBVIOUS
  <2> QED
    BY <2>1, <2>2, <2>3, <2>4
<1> QED
  BY <1>2, <1>3

\* The entries scanForLostDependencies() adds: a removal and an addition for each
\* occurrence on the active list of an element that has lost a dependency.
LEMMA LostPairs ==
    ASSUME mActiveConfig \in Seq(Elements)
    PROVE  /\ scanForLostDependencies \in Seq(Entries)
           /\ \A t \in {"ADD", "REMOVE"}, e \in Elements :
                 Occurrences(scanForLostDependencies, <<t, e>>) =
                    IF isSatisfied(e) THEN 0 ELSE Copies(e)
<1> DEFINE n == Len(mActiveConfig)
           active == mActiveConfig
           ss == [i \in DOMAIN active |->
                    IF isSatisfied(active[i]) THEN <<>> ELSE Pair(active[i])]
<1>1. n \in Nat /\ DOMAIN active = 1 .. n /\ \A i \in 1 .. n : active[i] \in Elements
  BY LenProperties
<1>2. \A i \in 1 .. n : ss[i] \in Seq(Entries)
  BY <1>1, PairProperties, EmptySeq
<1>3. ss \in Seq(Seq(Entries)) /\ Len(ss) = n
  <2>1. ss \in [1 .. n -> Seq(Entries)]
    BY <1>1, <1>2
  <2> HIDE DEF ss, n
  <2> QED
    BY <1>1, <2>1, SeqDef, LenProperties
<1>4. \A i \in 1 .. n :
         ss[i] = IF isSatisfied(active[i]) THEN <<>> ELSE Pair(active[i])
  BY <1>1
<1>5. scanForLostDependencies = FlattenSeq(ss)
  BY DEF scanForLostDependencies
<1> HIDE DEF n, active, ss
<1>6. PICK part \in [0 .. n -> Seq(Entries)] :
         /\ part[0] = <<>>
         /\ \A i \in 1 .. n : part[i] = part[i - 1] \o ss[i]
         /\ FlattenSeq(ss) = part[n]
  BY <1>3, FlattenSeqParts
<1>7. scanForLostDependencies \in Seq(Entries)
  BY <1>1, <1>5, <1>6
<1>8. ASSUME NEW t \in {"ADD", "REMOVE"}, NEW e \in Elements
      PROVE  Occurrences(scanForLostDependencies, <<t, e>>) =
                IF isSatisfied(e) THEN 0 ELSE Copies(e)
  <2> DEFINE Upto(k) == {i \in 1 .. k : active[i] = e}
             Found(k) == /\ IsFiniteSet(Upto(k))
                         /\ Occurrences(part[k], <<t, e>>) =
                               IF isSatisfied(e) THEN 0 ELSE Cardinality(Upto(k))
             S == {k \in Nat : k <= n => Found(k)}
  <2>1. Found(0)
    <3>1. Upto(0) = {}
      OBVIOUS
    <3> HIDE DEF Upto
    <3> QED
      BY <1>6, <3>1, OccurrencesShort, FS_EmptySet
  <2>2. ASSUME NEW k \in Nat, k + 1 <= n, Found(k) PROVE Found(k + 1)
    <3> DEFINE a == active[k + 1]
    <3>1. k \in 0 .. n /\ k + 1 \in 1 .. n /\ k + 1 - 1 = k /\ a \in Elements
      BY <1>1, <2>2
    <3>2. part[k + 1] = part[k] \o ss[k + 1]
      <4> DEFINE j == k + 1
      <4>1. j \in 1 .. n /\ j - 1 = k
        BY <3>1
      <4> HIDE DEF j
      <4>2. part[j] = part[j - 1] \o ss[j]
        BY <1>6, <4>1
      <4> QED
        BY <4>1, <4>2 DEF j
    <3>3. part[k] \in Seq(Entries) /\ ss[k + 1] \in Seq(Entries)
      BY <1>2, <1>6, <3>1
    <3>4. Occurrences(part[k + 1], <<t, e>>) =
             Occurrences(part[k], <<t, e>>) + Occurrences(ss[k + 1], <<t, e>>)
      BY <3>2, <3>3, OccurrencesConcat
    <3>5. ss[k + 1] = IF isSatisfied(a) THEN <<>> ELSE Pair(a)
      BY <1>4, <3>1
    <3>6. Occurrences(ss[k + 1], <<t, e>>) = IF isSatisfied(e) \/ a # e THEN 0 ELSE 1
      <4>1. CASE isSatisfied(a)
        <5>1. Occurrences(ss[k + 1], <<t, e>>) = 0
          BY <3>5, <4>1, OccurrencesShort
        <5> QED
          BY <4>1, <5>1
      <4>2. CASE ~isSatisfied(a)
        <5>1. Occurrences(ss[k + 1], <<t, e>>) = IF a = e THEN 1 ELSE 0
          BY <3>1, <3>5, <4>2, PairProperties
        <5> QED
          BY <4>2, <5>1
      <4> QED
        BY <4>1, <4>2
    <3>7. /\ Upto(k + 1) = IF a = e THEN Upto(k) \cup {k + 1} ELSE Upto(k)
          /\ k + 1 \notin Upto(k)
      BY <1>1
    <3> HIDE DEF Upto, a
    <3>8. IsFiniteSet(Upto(k)) /\ Cardinality(Upto(k)) \in Nat
      BY <2>2, FS_CardinalityType
    <3>9. /\ IsFiniteSet(Upto(k + 1))
          /\ Cardinality(Upto(k + 1)) = Cardinality(Upto(k)) + IF a = e THEN 1 ELSE 0
      BY <3>7, <3>8, FS_AddElement
    <3>10. Occurrences(part[k], <<t, e>>) =
              IF isSatisfied(e) THEN 0 ELSE Cardinality(Upto(k))
      BY <2>2
    <3>11. Occurrences(part[k + 1], <<t, e>>) =
              IF isSatisfied(e) THEN 0 ELSE Cardinality(Upto(k + 1))
      BY <3>4, <3>6, <3>8, <3>9, <3>10
    <3> QED
      BY <3>9, <3>11
  <2> HIDE DEF Found
  <2>3. 0 \in S
    BY <2>1
  <2>4. ASSUME NEW k \in Nat, k \in S PROVE k + 1 \in S
    BY <1>1, <2>2, <2>4
  <2> HIDE DEF S
  <2>5. n \in S
    <3>1. \A k \in Nat : k \in S => k + 1 \in S
      BY <2>4
    <3>2. Nat \subseteq S
      BY <2>3, <3>1, NatSetInduction
    <3> QED
      BY <1>1, <3>2
  <2>6. Found(n)
    BY <1>1, <2>5 DEF S
  <2>7. Copies(e) = Cardinality(Upto(n))
    BY <1>1 DEF Copies, Occurrences, active
  <2> QED
    BY <1>5, <1>6, <2>6, <2>7 DEF Found
<1> QED
  BY <1>7, <1>8

-----------------------------------------------------------------------------
(* The inductive invariant. *)

\* A removal asks for a scan of the pass it belongs to, which the same handler ends with.
ScanIsOfPass == scan => kpc = "pass" /\ handler <= Len(mElementHandlers)

\* Unless that scan is due, what has lost a dependency has its removal waiting: at any
\* moment, and not only between two passes.
LostHaveRemovals ==
    ~scan => \A e \in ToSet(mActiveConfig) :
                ~isSatisfied(e) => REMOVE(e) \in ToSet(mPendingConfig)

IInv == TypeOK /\ ScanIsOfPass /\ LostHaveRemovals

\* What a request adds is an entry.
LEMMA EntriesAreRequests ==
    ASSUME NEW e \in Elements
    PROVE  ADD(e) \in Entries /\ REMOVE(e) \in Entries
  BY DEF ADD, REMOVE, Entries

\* The entry a handler looks at.
LEMMA LookedAt ==
    ASSUME TypeOK, Looking
    PROVE  /\ pos \in 1 .. Len(mPendingConfig)
           /\ mPendingConfig[pos] = <<Type, Element>>
           /\ Type \in {"ADD", "REMOVE"} /\ Element \in Elements
<1>1. pos \in 1 .. Len(mPendingConfig)
  BY LenProperties DEF TypeOK, Looking
<1>2. mPendingConfig[pos] \in {"ADD", "REMOVE"} \X Elements
  BY <1>1, ElementOfSeq DEF TypeOK, Entries
<1> QED
  BY <1>1, <1>2 DEF Type, Element

\* Requests, from any thread, keep the types.
LEMMA TypeOKRequests == TypeOK /\ Request => TypeOK'
<1> SUFFICES ASSUME TypeOK, NEW e \in Elements,
                    \/ addConfigurationAdditions(e) \/ addConfigurationRemovals(e)
                    \/ SwapRemove(e) \/ SwapAdd(e) \/ addConfigElement(e)
             PROVE  TypeOK'
  BY DEF Request
<1>1. \A r \in Entries : Append(mIncomingConfig, r) \in Seq(Entries)
  BY AppendProperties DEF TypeOK
<1>2. ADD(e) \in Entries /\ REMOVE(e) \in Entries
  BY EntriesAreRequests
<1>3. CASE addConfigurationAdditions(e)
  BY <1>1, <1>2, <1>3
     DEF addConfigurationAdditions, Incoming, TypeOK, countVars, passVars
<1>4. CASE addConfigurationRemovals(e)
  BY <1>1, <1>2, <1>4
     DEF addConfigurationRemovals, Incoming, TypeOK, countVars, passVars
<1>5. CASE SwapRemove(e)
  BY <1>1, <1>2, <1>5 DEF SwapRemove, Incoming, TypeOK, countVars, passVars
<1>6. CASE SwapAdd(e)
  BY <1>1, <1>2, <1>6 DEF SwapAdd, Incoming, TypeOK, countVars, passVars
<1>7. CASE addConfigElement(e)
  BY <1>1, <1>2, <1>7 DEF addConfigElement, TypeOK, countVars, passVars
<1> QED
  BY <1>3, <1>4, <1>5, <1>6, <1>7

\* So do the steps of an attempt at a reconfiguration.
LEMMA TypeOKAttempt == TypeOK /\ Attempt => TypeOK'
<1> SUFFICES ASSUME TypeOK, Attempt PROVE TypeOK'
  OBVIOUS
<1>1. CASE MergeIncoming
  <2>1. mPendingConfig \o mIncomingConfig \in Seq(Entries)
    BY ConcatProperties DEF TypeOK
  <2> QED
    BY <1>1, <2>1 DEF MergeIncoming, TypeOK, countVars, requestVars
<1>2. CASE ClearIncoming
  BY <1>2, EmptySeq DEF ClearIncoming, TypeOK, countVars, passVars, requestVars
<1>3. CASE shouldCheckPending
  <2>1. Len(mPendingConfig) \in Nat
    BY LenProperties DEF TypeOK
  <2>2. kpc' \in {"pass", "idle", "clearAll"}
    BY <1>3 DEF shouldCheckPending, LoopLeft
  <2>3. mPendingCheckCount' \in 0 .. pending_repeat_limit + 1
    BY <1>3 DEF shouldCheckPending, TypeOK, pending_repeat_limit
  <2>4. /\ mLastPendingSize' = Len(mPendingConfig)
        /\ handler' = 1 /\ pos' = 1 /\ scan' = FALSE
        /\ UNCHANGED <<listVars, mElementHandlers, configured, progress, closing,
                       requestVars>>
    BY <1>3 DEF shouldCheckPending
  <2>5. 1 \in Nat \ {0} /\ FALSE \in BOOLEAN
    OBVIOUS
  <2>6. /\ mIncomingConfig' = mIncomingConfig /\ mPendingConfig' = mPendingConfig
        /\ mActiveConfig' = mActiveConfig /\ asked' = asked /\ swapping' = swapping
    BY <2>4 DEF listVars, requestVars
  <2> QED
    BY <2>1, <2>2, <2>3, <2>4, <2>5, <2>6 DEF TypeOK
<1>4. CASE PassOver
  BY <1>4 DEF PassOver, TypeOK, listVars, countVars, requestVars
<1>5. CASE configAdd
  <2>1. pos \in 1 .. Len(mPendingConfig) /\ Element \in Elements
    BY <1>5, LookedAt DEF configAdd
  <2>2. RemoveAt(mPendingConfig, pos) \in Seq(Entries)
    BY <2>1, RemoveAtProperties DEF TypeOK
  <2>3. Append(mActiveConfig, Element) \in Seq(Elements)
    BY <2>1, AppendProperties DEF TypeOK
  <2> QED
    BY <1>5, <2>1, <2>2, <2>3
       DEF configAdd, removePending, TypeOK, countVars, requestVars
<1>6. CASE configRemove
  <2>1. pos \in 1 .. Len(mPendingConfig)
    BY <1>6, LookedAt DEF configRemove
  <2>2. RemoveAt(mPendingConfig, pos) \in Seq(Entries)
    BY <2>1, RemoveAtProperties DEF TypeOK
  <2>3. RemoveFirst(mActiveConfig, Element) \in Seq(Elements)
    BY OccurrencesRemoveFirst DEF TypeOK
  <2> QED
    BY <1>6, <2>1, <2>2, <2>3
       DEF configRemove, removePending, TypeOK, countVars, requestVars
<1>7. CASE HandlerDone
  <2> DEFINE lost == IF scan THEN scanForLostDependencies ELSE <<>>
  <2>1. lost \in Seq(Entries)
    BY LostPairs, EmptySeq DEF TypeOK
  <2> HIDE DEF lost
  <2>2. mPendingConfig \o lost \in Seq(Entries)
    BY <2>1, ConcatProperties DEF TypeOK
  <2>3. /\ mPendingConfig' = mPendingConfig \o lost
        /\ mPendingCheckCount' \in {0, mPendingCheckCount}
        /\ handler' = handler + 1 /\ pos' = 1 /\ scan' = FALSE
        /\ UNCHANGED <<mIncomingConfig, mActiveConfig, mElementHandlers,
                       mLastPendingSize, configured, kpc, progress, closing, requestVars>>
    BY <1>7 DEF HandlerDone, lost
  <2>4. mPendingCheckCount' \in 0 .. pending_repeat_limit + 1
    BY <2>3 DEF TypeOK, pending_repeat_limit
  <2>5. handler' \in Nat \ {0} /\ pos' \in Nat \ {0}
    BY <2>3 DEF TypeOK
  <2> QED
    BY <2>2, <2>3, <2>4, <2>5 DEF TypeOK, requestVars
<1>8. CASE PassDone
  BY <1>8 DEF PassDone, LoopLeft, TypeOK, listVars, countVars, requestVars
<1> QED
  BY <1>1, <1>2, <1>3, <1>4, <1>5, <1>6, <1>7, <1>8 DEF Attempt

\* So does what the kernel thread does between two attempts.
LEMMA TypeOKBetween ==
    ASSUME TypeOK,
           \/ ClearAll
           \/ \E h \in Handlers : addConfigElementHandler(h) \/ removeConfigElementHandler(h)
           \/ \E attemptRemoval \in BOOLEAN : shutdown(attemptRemoval)
    PROVE  TypeOK'
<1>1. CASE ClearAll
  <2>1. /\ <<>> \in Seq(Entries) /\ <<>> \in Seq(Elements) /\ <<>> \in Seq(Handlers)
        /\ 0 \in 0 .. pending_repeat_limit + 1
    BY DEF pending_repeat_limit
  <2> QED
    BY <1>1, <2>1 DEF ClearAll, TypeOK, passVars, requestVars
<1>2. ASSUME NEW h \in Handlers, addConfigElementHandler(h) PROVE TypeOK'
  <2>1. Append(mElementHandlers, h) \in Seq(Handlers)
    BY AppendProperties DEF TypeOK
  <2> QED
    BY <1>2, <2>1 DEF addConfigElementHandler, TypeOK, listVars, passVars, requestVars,
                      pending_repeat_limit
<1>3. ASSUME NEW h \in Handlers, removeConfigElementHandler(h) PROVE TypeOK'
  <2>1. RemoveFirst(mElementHandlers, h) \in Seq(Handlers)
    BY OccurrencesRemoveFirst DEF TypeOK
  <2> QED
    BY <1>3, <2>1 DEF removeConfigElementHandler, TypeOK, listVars, countVars, passVars,
                      requestVars
<1>4. ASSUME NEW attemptRemoval \in BOOLEAN, shutdown(attemptRemoval) PROVE TypeOK'
  <2> DEFINE r == [i \in DOMAIN mActiveConfig |-> REMOVE(mActiveConfig[i])]
  <2>1. r \in Seq(Entries)
    BY RemovalsOfAll DEF TypeOK
  <2> HIDE DEF r
  <2>2. mIncomingConfig \o r \in Seq(Entries)
    BY <2>1, ConcatProperties DEF TypeOK
  <2>3. mIncomingConfig' \in {mIncomingConfig, mIncomingConfig \o r}
    BY <1>4 DEF shutdown, r
  <2>4. mIncomingConfig' \in Seq(Entries)
    BY <2>2, <2>3 DEF TypeOK
  <2>5. kpc' \in {"again", "clearAll"} /\ closing' = TRUE
    BY <1>4 DEF shutdown
  <2> QED
    BY <1>4, <2>4, <2>5 DEF shutdown, TypeOK, countVars, passVars, requestVars
<1> QED
  BY <1>1, <1>2, <1>3, <1>4

\* Every step keeps the types.
LEMMA TypeOKSteps == TypeOK /\ [Next]_vars => TypeOK'
<1>1. TypeOK /\ UNCHANGED vars => TypeOK'
  BY DEF TypeOK, vars, listVars, countVars, passVars, requestVars
<1> QED
  BY <1>1, TypeOKRequests, TypeOKAttempt, TypeOKBetween DEF Next

\* And they hold at the start.
LEMMA TypeOKInit == Init => TypeOK
<1>1. /\ <<>> \in Seq(Entries) /\ <<>> \in Seq(Elements)
      /\ 0 \in 0 .. pending_repeat_limit + 1
  BY DEF pending_repeat_limit
<1>2. 1 \in Nat \ {0} /\ 0 \in Nat
  OBVIOUS
<1> QED
  BY <1>1, <1>2, HandlersAssumption DEF Init, TypeOK

\* The lists hold entries and elements, and the count of checks stops one past its limit.
THEOREM TypeCorrect == Spec => []TypeOK
  BY TypeOKInit, TypeOKSteps, PTL DEF Spec

-----------------------------------------------------------------------------
(* LostDependentsPending. *)

\* scan_for_lost_dependants is set by a removal and cleared at the end of the handler's
\* list, before the pass goes on or ends.
LEMMA ScanSteps == TypeOK /\ ScanIsOfPass /\ [Next]_vars => ScanIsOfPass'
<1> SUFFICES ASSUME TypeOK, ScanIsOfPass, [Next]_vars PROVE ScanIsOfPass'
  OBVIOUS
<1>1. CASE UNCHANGED <<kpc, handler, mElementHandlers, scan>>
  BY <1>1 DEF ScanIsOfPass
<1>2. CASE Request
  BY <1>1, <1>2 DEF Request, addConfigurationAdditions, addConfigurationRemovals,
     SwapRemove, SwapAdd, Incoming, addConfigElement, passVars
<1>3. CASE scan' = FALSE
  BY <1>3 DEF ScanIsOfPass
<1>4. CASE kpc # "pass" /\ scan' = scan
  BY <1>3, <1>4 DEF ScanIsOfPass, TypeOK
<1>5. CASE MergeIncoming \/ ClearIncoming \/ ClearAll
  BY <1>4, <1>5 DEF MergeIncoming, ClearIncoming, ClearAll, passVars
<1>6. CASE shouldCheckPending \/ HandlerDone
  BY <1>3, <1>6 DEF shouldCheckPending, HandlerDone
<1>7. CASE PassOver \/ configAdd
  BY <1>1, <1>7 DEF PassOver, configAdd
<1>8. CASE configRemove
  BY <1>8 DEF configRemove, Looking, ScanIsOfPass
<1>9. CASE PassDone
  <2>1. ~scan /\ scan' = scan
    <3>1. Len(mElementHandlers) \in Nat /\ handler \in Nat
      BY LenProperties DEF TypeOK
    <3> QED
      BY <1>9, <3>1 DEF PassDone, ScanIsOfPass
  <2> QED
    BY <2>1 DEF ScanIsOfPass
<1>10. ASSUME NEW h \in Handlers,
              addConfigElementHandler(h) \/ removeConfigElementHandler(h)
       PROVE  ScanIsOfPass'
  BY <1>4, <1>10 DEF addConfigElementHandler, removeConfigElementHandler, passVars
<1>11. ASSUME NEW attemptRemoval \in BOOLEAN, shutdown(attemptRemoval)
       PROVE  ScanIsOfPass'
  BY <1>4, <1>11 DEF shutdown, passVars
<1>12. CASE UNCHANGED vars
  BY <1>1, <1>12 DEF vars, passVars
<1> QED
  BY <1>2, <1>5, <1>6, <1>7, <1>8, <1>9, <1>10, <1>11, <1>12 DEF Next, Attempt

\* An addition takes its own entry off the pending list and loses no dependency.
LEMMA AdditionKeepsRemovals == IInv /\ configAdd => LostHaveRemovals'
<1> SUFFICES ASSUME IInv, configAdd, ~scan',
                    NEW e \in ToSet(mActiveConfig'), ~isSatisfied(e)'
             PROVE  REMOVE(e) \in ToSet(mPendingConfig')
  BY DEF LostHaveRemovals
<1>1. /\ mActiveConfig \in Seq(Elements) /\ mPendingConfig \in Seq(Entries)
      /\ ~scan /\ mActiveConfig' = Append(mActiveConfig, Element)
      /\ mPendingConfig' = RemoveAt(mPendingConfig, pos)
      /\ isSatisfied(Element) /\ Type = "ADD" /\ Looking
  BY DEF IInv, TypeOK, configAdd, removePending
<1>2. /\ pos \in 1 .. Len(mPendingConfig) /\ Element \in Elements
      /\ mPendingConfig[pos] = <<"ADD", Element>>
  BY <1>1, LookedAt DEF IInv
<1>3. ToSet(mActiveConfig') = ToSet(mActiveConfig) \cup {Element}
  <2>1. mActiveConfig \in Seq(Elements) /\ Element \in Elements
    BY <1>1, <1>2
  <2>2. ToSet(Append(mActiveConfig, Element)) = ToSet(mActiveConfig) \cup {Element}
    BY <2>1, ToSetAppend
  <2> QED
    BY <1>1, <2>2, Zenon
<1>4. e \in ToSet(mActiveConfig) /\ ~isSatisfied(e)
  BY <1>1, <1>3 DEF isSatisfied
<1>5. REMOVE(e) \in ToSet(mPendingConfig)
  BY <1>1, <1>4 DEF IInv, LostHaveRemovals
<1>6. /\ Occurrences(mPendingConfig, REMOVE(e)) > 0
      /\ Occurrences(mPendingConfig, REMOVE(e)) \in Nat
  BY <1>1, <1>5, OccurrencesType
<1>7. mPendingConfig[pos] # REMOVE(e)
  BY <1>2 DEF REMOVE
<1>8. Occurrences(RemoveAt(mPendingConfig, pos), REMOVE(e)) > 0
  <2>1. Occurrences(RemoveAt(mPendingConfig, pos), REMOVE(e)) =
           Occurrences(mPendingConfig, REMOVE(e))
              - IF mPendingConfig[pos] = REMOVE(e) THEN 1 ELSE 0
    BY <1>1, <1>2, OccurrencesRemoveAt
  <2> QED
    BY <1>6, <1>7, <2>1
<1>9. RemoveAt(mPendingConfig, pos) \in Seq(Entries)
  BY <1>1, <1>2, RemoveAtProperties
<1> QED
  BY <1>1, <1>8, <1>9, OccurrencesType

\* The scan at the end of a handler's list queues a removal of all that lost something.
LEMMA ScanQueuesRemovals == IInv /\ HandlerDone => LostHaveRemovals'
<1> SUFFICES ASSUME IInv, HandlerDone,
                    NEW e \in ToSet(mActiveConfig'), ~isSatisfied(e)'
             PROVE  REMOVE(e) \in ToSet(mPendingConfig')
  BY DEF LostHaveRemovals
<1> DEFINE lost == IF scan THEN scanForLostDependencies ELSE <<>>
<1>1. /\ mActiveConfig \in Seq(Elements) /\ mPendingConfig \in Seq(Entries)
      /\ mActiveConfig' = mActiveConfig /\ mPendingConfig' = mPendingConfig \o lost
      /\ scan \in BOOLEAN
  BY DEF IInv, TypeOK, HandlerDone
<1>2. /\ e \in ToSet(mActiveConfig) /\ ~isSatisfied(e)
      /\ e \in Elements /\ Copies(e) > 0
  <2>1. e \in ToSet(mActiveConfig) /\ ~isSatisfied(e)
    BY <1>1 DEF isSatisfied
  <2>2. e \in Elements
    BY <1>1, <2>1, LenProperties DEF ToSet
  <2> QED
    BY <1>1, <2>1, <2>2, OccurrencesType DEF Copies
<1>3. lost \in Seq(Entries)
  BY <1>1, LostPairs, EmptySeq
<1>4. CASE scan
  <2>1. Occurrences(lost, <<"REMOVE", e>>) > 0
    BY <1>1, <1>2, <1>4, LostPairs
  <2> HIDE DEF lost
  <2>2. REMOVE(e) \in ToSet(lost)
    BY <1>3, <2>1, OccurrencesType DEF REMOVE
  <2>3. ToSet(mPendingConfig \o lost) = ToSet(mPendingConfig) \cup ToSet(lost)
    BY <1>1, <1>3, ToSetConcat
  <2> QED
    BY <1>1, <2>2, <2>3
<1>5. CASE ~scan
  <2>1. REMOVE(e) \in ToSet(mPendingConfig)
    BY <1>2, <1>5 DEF IInv, LostHaveRemovals
  <2> HIDE DEF lost
  <2>2. ToSet(mPendingConfig \o lost) = ToSet(mPendingConfig) \cup ToSet(lost)
    BY <1>1, <1>3, ToSetConcat
  <2> QED
    BY <1>1, <2>1, <2>2
<1> QED
  BY <1>1, <1>4, <1>5

\* Every step leaves what lost a dependency with a removal, or with a scan that is due.
LEMMA LostSteps == IInv /\ [Next]_vars => LostHaveRemovals'
<1> SUFFICES ASSUME IInv, [Next]_vars PROVE LostHaveRemovals'
  OBVIOUS
<1>1. CASE UNCHANGED <<mActiveConfig, mPendingConfig>> /\ (~scan' => ~scan)
  BY <1>1 DEF IInv, LostHaveRemovals, isSatisfied
<1>2. CASE Request
  <2>1. UNCHANGED <<mActiveConfig, mPendingConfig, scan>>
    BY <1>2 DEF Request, addConfigurationAdditions, addConfigurationRemovals,
       SwapRemove, SwapAdd, Incoming, addConfigElement, passVars
  <2> QED
    BY <1>1, <2>1
<1>3. CASE MergeIncoming
  <2>1. ToSet(mPendingConfig) \subseteq ToSet(mPendingConfig')
    <3>1. /\ mPendingConfig \in Seq(Entries) /\ mIncomingConfig \in Seq(Entries)
          /\ mPendingConfig' = mPendingConfig \o mIncomingConfig
      BY <1>3 DEF MergeIncoming, IInv, TypeOK
    <3>2. ToSet(mPendingConfig \o mIncomingConfig) =
             ToSet(mPendingConfig) \cup ToSet(mIncomingConfig)
      BY <3>1, ToSetConcat
    <3> QED
      BY <3>1, <3>2
  <2>2. UNCHANGED <<mActiveConfig, scan>>
    BY <1>3 DEF MergeIncoming
  <2> QED
    BY <2>1, <2>2 DEF IInv, LostHaveRemovals, isSatisfied
<1>4. CASE ClearIncoming \/ PassOver \/ PassDone
  BY <1>1, <1>4 DEF ClearIncoming, PassOver, PassDone, passVars, listVars
<1>5. CASE shouldCheckPending
  BY <1>1, <1>5 DEF shouldCheckPending, listVars, IInv, ScanIsOfPass
<1>6. CASE configAdd
  BY <1>6, AdditionKeepsRemovals
<1>7. CASE configRemove
  BY <1>7 DEF configRemove, LostHaveRemovals
<1>8. CASE HandlerDone
  BY <1>8, ScanQueuesRemovals
<1>9. CASE ClearAll
  BY <1>9 DEF ClearAll, LostHaveRemovals, ToSet
<1>10. ASSUME NEW h \in Handlers,
              addConfigElementHandler(h) \/ removeConfigElementHandler(h)
       PROVE  LostHaveRemovals'
  BY <1>1, <1>10 DEF addConfigElementHandler, removeConfigElementHandler, passVars,
     listVars
<1>11. ASSUME NEW attemptRemoval \in BOOLEAN, shutdown(attemptRemoval)
       PROVE  LostHaveRemovals'
  BY <1>1, <1>11 DEF shutdown, passVars
<1>12. CASE UNCHANGED vars
  BY <1>1, <1>12 DEF vars, passVars, listVars
<1> QED
  BY <1>2, <1>3, <1>4, <1>5, <1>6, <1>7, <1>8, <1>9, <1>10, <1>11, <1>12
     DEF Next, Attempt

\* The conjuncts of IInv hold together in every state.
THEOREM Invariance == Spec => []IInv
<1>1. Init => IInv
  BY TypeOKInit DEF Init, IInv, ScanIsOfPass, LostHaveRemovals, ToSet
<1>2. IInv /\ [Next]_vars => IInv'
  BY ScanSteps, LostSteps, TypeOKSteps DEF IInv
<1> QED
  BY <1>1, <1>2, PTL DEF Spec

\* scanForLostDependencies() and addPending(): whoever adds or removes what, from whatever
\* thread, an active element without one of its dependencies has its removal waiting
\* whenever the kernel is not in the middle of a pass.
THEOREM LostDependents == Spec => []LostDependentsPending
<1>1. IInv => LostDependentsPending
  BY DEF IInv, ScanIsOfPass, LostHaveRemovals, LostDependentsPending, BetweenPasses
<1> QED
  BY <1>1, Invariance, PTL

-----------------------------------------------------------------------------
(* ImplementsConfigRequests. *)

\* What waits is what is pending and, unless it is being moved, what came in.
WaitsAdds ==
    \A r \in Entries :
       /\ Waits(r) = Occurrences(mPendingConfig, r)
             + IF kpc = "clear" THEN 0 ELSE Occurrences(mIncomingConfig, r)
       /\ Occurrences(mPendingConfig, r) \in Nat
       /\ Occurrences(mIncomingConfig, r) \in Nat
       /\ Waits(r) \in Nat

\* The counts of the two lists add up.
LEMMA WaitsSum == TypeOK => WaitsAdds
<1> SUFFICES ASSUME TypeOK, NEW r \in Entries
             PROVE  /\ Waits(r) = Occurrences(mPendingConfig, r)
                          + IF kpc = "clear" THEN 0 ELSE Occurrences(mIncomingConfig, r)
                    /\ Occurrences(mPendingConfig, r) \in Nat
                    /\ Occurrences(mIncomingConfig, r) \in Nat
                    /\ Waits(r) \in Nat
  BY DEF WaitsAdds
<1> DEFINE in == IF kpc = "clear" THEN <<>> ELSE mIncomingConfig
<1>1. /\ mIncomingConfig \in Seq(Entries) /\ mPendingConfig \in Seq(Entries)
      /\ in \in Seq(Entries)
  BY EmptySeq DEF TypeOK
<1>2. /\ Occurrences(mPendingConfig, r) \in Nat /\ Occurrences(mIncomingConfig, r) \in Nat
      /\ Occurrences(in, r) \in Nat
  BY <1>1, OccurrencesType
<1>3. Occurrences(in, r) =
         IF kpc = "clear" THEN 0 ELSE Occurrences(mIncomingConfig, r)
  BY OccurrencesShort
<1>4. Waits(r) = Occurrences(in \o mPendingConfig, r)
  BY DEF Waits
<1> HIDE DEF in
<1>5. Occurrences(in \o mPendingConfig, r) =
         Occurrences(in, r) + Occurrences(mPendingConfig, r)
  BY <1>1, OccurrencesConcat
<1> QED
  BY <1>2, <1>3, <1>4, <1>5

\* In the state a step leads to as well.
LEMMA WaitsSumNext == TypeOK' => WaitsAdds'
  BY WaitsSum, PTL

\* How often an element is active is a number, and it has everything it points to when
\* ConfigRequests says so.
LEMMA LiveProperties ==
    ASSUME TypeOK
    PROVE  \A e \in Elements :
              /\ Copies(e) \in Nat
              /\ isSatisfied(e) <=> Requests!Satisfied(e)
<1>1. mActiveConfig \in Seq(Elements)
  BY DEF TypeOK
<1>2. \A e \in Elements : Copies(e) \in Nat /\ (Copies(e) > 0 <=> e \in ToSet(mActiveConfig))
  BY <1>1, OccurrencesType DEF Copies
<1> SUFFICES ASSUME NEW e \in Elements PROVE isSatisfied(e) <=> Requests!Satisfied(e)
  BY <1>2
<1>3. DependsOn[e] \subseteq Elements
  BY DependsOnAssumption
<1> QED
  BY <1>2, <1>3 DEF isSatisfied, Requests!Satisfied

\* A step that changes no count is none of ConfigRequests.
LEMMA StutterStep ==
    ASSUME \A r \in Entries : Waits(r)' = Waits(r),
           \A e \in Elements : Copies(e)' = Copies(e)
    PROVE  UNCHANGED Requests!vars
  BY DEF Requests!vars

\* A request, one more entry waits.
LEMMA RequestStep ==
    ASSUME NEW t \in {"ADD", "REMOVE"}, NEW e \in Elements,
           \A r \in Entries : Waits(r)' = Waits(r) + IF r = <<t, e>> THEN 1 ELSE 0,
           \A r \in Entries : Waits(r) \in Nat,
           \A d \in Elements : Copies(d)' = Copies(d)
    PROVE  Requests!Next
<1>1. <<t, e>> \in Entries
  BY DEF Entries
<1>2. [r \in Entries |-> Waits(r)]' =
         [[r \in Entries |-> Waits(r)] EXCEPT ![<<t, e>>] = @ + 1]
  <2> DEFINE p == <<t, e>>
  <2>1. p \in Entries
    BY <1>1
  <2>2. \A r \in Entries : Waits(r)' = IF r = p THEN Waits(r) + 1 ELSE Waits(r)
    OBVIOUS
  <2> HIDE DEF p
  <2>3. [r \in Entries |-> Waits(r)]' = [[r \in Entries |-> Waits(r)] EXCEPT ![p] = @ + 1]
    BY <2>1, <2>2
  <2> QED
    BY <2>3 DEF p
<1>3. Requests!Request(t, e)
  BY <1>2 DEF Requests!Request
<1> QED
  BY <1>3 DEF Requests!Next, Requests!Types

\* An addition carried out: its request is gone and the element is active once more.
LEMMA AddedStep ==
    ASSUME NEW e \in Elements, Requests!Satisfied(e), Waits(<<"ADD", e>>) > 0,
           \A r \in Entries : Waits(r)' = Waits(r) - IF r = <<"ADD", e>> THEN 1 ELSE 0,
           \A r \in Entries : Waits(r) \in Nat,
           \A d \in Elements : Copies(d)' = Copies(d) + IF d = e THEN 1 ELSE 0,
           \A d \in Elements : Copies(d) \in Nat
    PROVE  Requests!Next
<1> DEFINE p == <<"ADD", e>>
<1>1. p \in Entries /\ Waits(p) > 0
  BY DEF Entries
<1>2. \A r \in Entries : Waits(r)' = IF r = p THEN Waits(r) - 1 ELSE Waits(r)
  OBVIOUS
<1> HIDE DEF p
<1>3. [r \in Entries |-> Waits(r)]' = [[r \in Entries |-> Waits(r)] EXCEPT ![p] = @ - 1]
  BY <1>1, <1>2
<1>4. [d \in Elements |-> Copies(d)]' = [[d \in Elements |-> Copies(d)] EXCEPT ![e] = @ + 1]
  <2>1. \A d \in Elements : Copies(d)' = IF d = e THEN Copies(d) + 1 ELSE Copies(d)
    OBVIOUS
  <2> QED
    BY <2>1
<1>5. Requests!Taken("ADD", e)
  BY <1>1, <1>3 DEF Requests!Taken, p
<1>6. Requests!Added(e)
  BY <1>4, <1>5 DEF Requests!Added
<1> QED
  BY <1>6 DEF Requests!Next

\* A removal carried out: its request is gone and the element is active once less.
LEMMA RemovedStep ==
    ASSUME NEW e \in Elements, Waits(<<"REMOVE", e>>) > 0,
           \A r \in Entries : Waits(r)' = Waits(r) - IF r = <<"REMOVE", e>> THEN 1 ELSE 0,
           \A r \in Entries : Waits(r) \in Nat,
           \A d \in Elements :
              Copies(d)' = Copies(d) - IF d = e /\ Copies(d) > 0 THEN 1 ELSE 0,
           \A d \in Elements : Copies(d) \in Nat
    PROVE  Requests!Next
<1> DEFINE p == <<"REMOVE", e>>
<1>1. p \in Entries /\ Waits(p) > 0
  BY DEF Entries
<1>2. \A r \in Entries : Waits(r)' = IF r = p THEN Waits(r) - 1 ELSE Waits(r)
  OBVIOUS
<1> HIDE DEF p
<1>3. [r \in Entries |-> Waits(r)]' = [[r \in Entries |-> Waits(r)] EXCEPT ![p] = @ - 1]
  BY <1>1, <1>2
<1>4. [d \in Elements |-> Copies(d)]' =
         [[d \in Elements |-> Copies(d)] EXCEPT ![e] = IF @ > 0 THEN @ - 1 ELSE 0]
  <2>1. \A d \in Elements : Copies(d)' = IF d = e THEN IF Copies(d) > 0 THEN Copies(d) - 1
                                                      ELSE 0
                                        ELSE Copies(d)
    OBVIOUS
  <2> QED
    BY <2>1
<1>5. Requests!Taken("REMOVE", e)
  BY <1>1, <1>3 DEF Requests!Taken, p
<1>6. Requests!Removed(e)
  BY <1>4, <1>5 DEF Requests!Removed
<1> QED
  BY <1>6 DEF Requests!Next

\* A call that appends to the incoming list: one more entry waits.
LEMMA IncomingCounts ==
    ASSUME TypeOK, TypeOK', NEW t \in {"ADD", "REMOVE"}, NEW e \in Elements,
           mIncomingConfig' = Append(mIncomingConfig, <<t, e>>),
           UNCHANGED <<mPendingConfig, mActiveConfig, kpc>>, kpc # "clear"
    PROVE  /\ \A r \in Entries : Waits(r)' = Waits(r) + IF r = <<t, e>> THEN 1 ELSE 0
           /\ \A d \in Elements : Copies(d)' = Copies(d)
<1>1. mIncomingConfig \in Seq(Entries) /\ <<t, e>> \in Entries
  BY DEF TypeOK, Entries
<1> DEFINE p == <<t, e>>
<1>2. \A r \in Entries : Occurrences(mIncomingConfig', r) =
                            Occurrences(mIncomingConfig, r) + IF p = r THEN 1 ELSE 0
  BY <1>1, OccurrencesAppend
<1>3. \A d \in Elements : Copies(d)' = Copies(d)
  BY DEF Copies
<1> HIDE DEF p
<1>4. \A r \in Entries : Waits(r)' = Waits(r) + IF r = p THEN 1 ELSE 0
  BY <1>2, WaitsSum, WaitsSumNext DEF WaitsAdds
<1> QED
  BY <1>3, <1>4 DEF p

\* It is a request, unless the list is cleared next.
LEMMA IncomingSteps ==
    ASSUME TypeOK, TypeOK', NEW t \in {"ADD", "REMOVE"}, NEW e \in Elements,
           mIncomingConfig' = Append(mIncomingConfig, <<t, e>>),
           UNCHANGED <<mPendingConfig, mActiveConfig, kpc>>
    PROVE  [Requests!Next]_Requests!vars
<1>1. CASE kpc = "clear"
  <2>1. \A r \in Entries : Waits(r)' = Waits(r)
    BY <1>1, WaitsSum, WaitsSumNext DEF WaitsAdds
  <2>2. \A d \in Elements : Copies(d)' = Copies(d)
    BY DEF Copies
  <2> QED
    BY <2>1, <2>2, StutterStep
<1>2. CASE kpc # "clear"
  <2>1. /\ \A r \in Entries : Waits(r)' = Waits(r) + IF r = <<t, e>> THEN 1 ELSE 0
        /\ \A d \in Elements : Copies(d)' = Copies(d)
    BY <1>2, IncomingCounts
  <2>2. \A r \in Entries : Waits(r) \in Nat
    BY WaitsSum DEF WaitsAdds
  <2> QED
    BY <2>1, <2>2, RequestStep
<1> QED
  BY <1>1, <1>2

\* The counts do not change in a step that leaves the lists, and whether one is being moved.
LEMMA UnchangedCounts ==
    ASSUME TypeOK, TypeOK', UNCHANGED listVars, kpc = "clear" <=> kpc' = "clear"
    PROVE  /\ \A r \in Entries : Waits(r)' = Waits(r)
           /\ \A d \in Elements : Copies(d)' = Copies(d)
<1>1. UNCHANGED <<mIncomingConfig, mPendingConfig, mActiveConfig>>
  BY DEF listVars
<1>2. \A d \in Elements : Copies(d)' = Copies(d)
  BY <1>1 DEF Copies
<1>3. \A r \in Entries : Waits(r)' = Waits(r)
  BY <1>1, WaitsSum, WaitsSumNext DEF WaitsAdds
<1> QED
  BY <1>2, <1>3

\* Nothing happens in such a step.
LEMMA ListsUnchanged ==
    ASSUME TypeOK, TypeOK', UNCHANGED listVars, kpc = "clear" <=> kpc' = "clear"
    PROVE  [Requests!Next]_Requests!vars
BY UnchangedCounts, StutterStep

\* mergeIncomingToPending() moves entries and loses none.
LEMMA MergeCounts ==
    ASSUME TypeOK, TypeOK', MergeIncoming \/ ClearIncoming
    PROVE  /\ \A r \in Entries : Waits(r)' = Waits(r)
           /\ \A d \in Elements : Copies(d)' = Copies(d)
<1>1. \A d \in Elements : Copies(d)' = Copies(d)
  BY DEF MergeIncoming, ClearIncoming, Copies
<1>2. ASSUME NEW r \in Entries PROVE Waits(r)' = Waits(r)
  <2>1. CASE MergeIncoming
    <3>1. Occurrences(mPendingConfig', r) =
             Occurrences(mPendingConfig, r) + Occurrences(mIncomingConfig, r)
      BY <2>1, OccurrencesConcat DEF MergeIncoming, TypeOK
    <3>2. kpc # "clear" /\ kpc' = "clear"
      BY <2>1 DEF MergeIncoming
    <3> QED
      BY <3>1, <3>2, WaitsSum, WaitsSumNext DEF WaitsAdds
  <2>2. CASE ClearIncoming
    <3>1. /\ Occurrences(mPendingConfig', r) = Occurrences(mPendingConfig, r)
          /\ Occurrences(mIncomingConfig', r) = 0
      BY <2>2, OccurrencesShort DEF ClearIncoming
    <3>2. kpc = "clear" /\ kpc' # "clear"
      BY <2>2 DEF ClearIncoming
    <3> QED
      BY <3>1, <3>2, WaitsSum, WaitsSumNext DEF WaitsAdds
  <2> QED
    BY <2>1, <2>2
<1> QED
  BY <1>1, <1>2

\* No step of it is one of requests.
LEMMA MergeSteps ==
    ASSUME TypeOK, TypeOK', MergeIncoming \/ ClearIncoming
    PROVE  [Requests!Next]_Requests!vars
BY MergeCounts, StutterStep

\* removePending takes away the one entry that was carried out.
LEMMA TakenFromPending ==
    ASSUME TypeOK, TypeOK', Looking, removePending, UNCHANGED <<mIncomingConfig, kpc>>,
           NEW p \in Entries, mPendingConfig[pos] = p
    PROVE  /\ Waits(p) > 0
           /\ \A r \in Entries : Waits(r)' = Waits(r) - IF r = p THEN 1 ELSE 0
<1>1. pos \in 1 .. Len(mPendingConfig)
  BY LookedAt
<1>2. mPendingConfig \in Seq(Entries) /\ kpc # "clear"
  BY DEF TypeOK, Looking
<1>3. \A r \in Entries : Occurrences(mPendingConfig', r) = Occurrences(mPendingConfig, r)
                                     - IF p = r THEN 1 ELSE 0
  BY <1>1, <1>2, OccurrencesRemoveAt DEF removePending
<1>4. ASSUME NEW r \in Entries PROVE Waits(r)' = Waits(r) - IF r = p THEN 1 ELSE 0
  <2>1. mIncomingConfig' = mIncomingConfig /\ kpc' # "clear"
    BY <1>2
  <2>2. /\ Waits(r) = Occurrences(mPendingConfig, r) + Occurrences(mIncomingConfig, r)
        /\ Occurrences(mPendingConfig, r) \in Nat
        /\ Occurrences(mIncomingConfig, r) \in Nat
    BY <1>2, WaitsSum DEF WaitsAdds
  <2>3. Waits(r)' = Occurrences(mPendingConfig', r) + Occurrences(mIncomingConfig, r)
    BY <2>1, WaitsSumNext DEF WaitsAdds
  <2> QED
    BY <1>3, <2>2, <2>3
<1>5. Waits(p) > 0
  <2>1. Waits(p)' = Waits(p) - 1
    BY <1>4
  <2>2. Waits(p)' \in Nat /\ Waits(p) \in Nat
    BY WaitsSum, WaitsSumNext DEF WaitsAdds
  <2> QED
    BY <2>1, <2>2
<1> QED
  BY <1>4, <1>5

\* configAdd() carries an addition out.
LEMMA AdditionCounts ==
    ASSUME TypeOK, TypeOK', configAdd, NEW e \in Elements, e = Element
    PROVE  /\ Waits(<<"ADD", e>>) > 0
           /\ \A r \in Entries : Waits(r)' = Waits(r) - IF r = <<"ADD", e>> THEN 1 ELSE 0
           /\ \A d \in Elements : Copies(d)' = Copies(d) + IF d = e THEN 1 ELSE 0
<1>2. /\ Looking /\ removePending /\ UNCHANGED <<mIncomingConfig, kpc>>
      /\ mPendingConfig[pos] = <<"ADD", e>>
      /\ mActiveConfig' = Append(mActiveConfig, e)
  BY LookedAt DEF configAdd
<1>3. <<"ADD", e>> \in Entries /\ mActiveConfig \in Seq(Elements)
  BY DEF Entries, TypeOK
<1>4. /\ Waits(<<"ADD", e>>) > 0
      /\ \A r \in Entries : Waits(r)' = Waits(r) - IF r = <<"ADD", e>> THEN 1 ELSE 0
  BY <1>2, <1>3, TakenFromPending
<1>5. ASSUME NEW d \in Elements
      PROVE  Copies(d)' = Copies(d) + IF d = e THEN 1 ELSE 0
  <2>1. Occurrences(Append(mActiveConfig, e), d) =
           Occurrences(mActiveConfig, d) + IF e = d THEN 1 ELSE 0
    BY <1>3, OccurrencesAppend
  <2> QED
    BY <1>2, <2>1 DEF Copies
<1> QED
  BY <1>4, <1>5

\* Its dependencies are active.
LEMMA AdditionSteps ==
    ASSUME TypeOK, TypeOK', configAdd
    PROVE  [Requests!Next]_Requests!vars
<1>1. PICK e \in Elements : e = Element /\ isSatisfied(e)
  BY LookedAt DEF configAdd
<1>2. Requests!Satisfied(e) /\ \A d \in Elements : Copies(d) \in Nat
  BY <1>1, LiveProperties
<1>3. \A r \in Entries : Waits(r) \in Nat
  BY WaitsSum DEF WaitsAdds
<1> QED
  BY <1>1, <1>2, <1>3, AdditionCounts, AddedStep

\* configRemove() carries a removal out.
LEMMA RemovalCounts ==
    ASSUME TypeOK, TypeOK', configRemove, NEW e \in Elements, e = Element
    PROVE  /\ Waits(<<"REMOVE", e>>) > 0
           /\ \A r \in Entries : Waits(r)' = Waits(r) - IF r = <<"REMOVE", e>> THEN 1 ELSE 0
           /\ \A d \in Elements :
                 Copies(d)' = Copies(d) - IF d = e /\ Copies(d) > 0 THEN 1 ELSE 0
<1>2. /\ Looking /\ removePending /\ UNCHANGED <<mIncomingConfig, kpc>>
      /\ mPendingConfig[pos] = <<"REMOVE", e>>
      /\ mActiveConfig' = RemoveFirst(mActiveConfig, e)
  BY LookedAt DEF configRemove
<1>3. <<"REMOVE", e>> \in Entries /\ mActiveConfig \in Seq(Elements)
  BY DEF Entries, TypeOK
<1>4. /\ Waits(<<"REMOVE", e>>) > 0
      /\ \A r \in Entries : Waits(r)' = Waits(r) - IF r = <<"REMOVE", e>> THEN 1 ELSE 0
  BY <1>2, <1>3, TakenFromPending
<1>5. ASSUME NEW d \in Elements
      PROVE  Copies(d)' = Copies(d) - IF d = e /\ Copies(d) > 0 THEN 1 ELSE 0
  BY <1>2, <1>3, OccurrencesRemoveFirst DEF Copies
<1> QED
  BY <1>4, <1>5

\* It is there to be carried out.
LEMMA RemovalSteps ==
    ASSUME TypeOK, TypeOK', configRemove
    PROVE  [Requests!Next]_Requests!vars
<1>1. PICK e \in Elements : e = Element
  BY LookedAt DEF configRemove
<1>2. \A d \in Elements : Copies(d) \in Nat
  BY LiveProperties
<1>3. \A r \in Entries : Waits(r) \in Nat
  BY WaitsSum DEF WaitsAdds
<1> QED
  BY <1>1, <1>2, <1>3, RemovalCounts, RemovedStep

\* scan_for_lost_dependants: the handler's list ends with the pairs of what lost something.
LEMMA LostCounts ==
    ASSUME TypeOK, TypeOK', HandlerDone, scan
    PROVE  /\ \A r \in Entries : Waits(r)' = IF isSatisfied(r[2]) THEN Waits(r)
                                              ELSE Waits(r) + Copies(r[2])
           /\ \A d \in Elements : Copies(d)' = Copies(d)
<1>1. /\ mPendingConfig \in Seq(Entries) /\ mActiveConfig \in Seq(Elements)
      /\ mIncomingConfig' = mIncomingConfig /\ mActiveConfig' = mActiveConfig
      /\ kpc # "clear" /\ kpc' # "clear"
  BY DEF TypeOK, HandlerDone
<1>2. \A d \in Elements : Copies(d)' = Copies(d) /\ Copies(d) \in Nat
  BY <1>1, LiveProperties DEF Copies
<1>3. mPendingConfig' = mPendingConfig \o scanForLostDependencies
  BY DEF HandlerDone
<1>4. ASSUME NEW r \in Entries
      PROVE  Waits(r)' = IF isSatisfied(r[2]) THEN Waits(r) ELSE Waits(r) + Copies(r[2])
  <2>1. r[1] \in {"ADD", "REMOVE"} /\ r[2] \in Elements /\ r = <<r[1], r[2]>>
    BY DEF Entries
  <2>2. Occurrences(scanForLostDependencies, r) =
           IF isSatisfied(r[2]) THEN 0 ELSE Copies(r[2])
    BY <1>1, <2>1, LostPairs
  <2>3. Occurrences(mPendingConfig', r) =
           Occurrences(mPendingConfig, r) + Occurrences(scanForLostDependencies, r)
    BY <1>1, <1>3, LostPairs, OccurrencesConcat
  <2>4. /\ Waits(r) = Occurrences(mPendingConfig, r) + Occurrences(mIncomingConfig, r)
        /\ Occurrences(mPendingConfig, r) \in Nat
        /\ Occurrences(mIncomingConfig, r) \in Nat
    BY <1>1, WaitsSum DEF WaitsAdds
  <2>5. Waits(r)' = Occurrences(mPendingConfig', r) + Occurrences(mIncomingConfig, r)
    BY <1>1, WaitsSumNext DEF WaitsAdds
  <2>6. Copies(r[2]) \in Nat
    BY <1>2, <2>1
  <2> QED
    BY <2>2, <2>3, <2>4, <2>5, <2>6
<1> QED
  BY <1>2, <1>4

\* The end of a handler's list reissues, or does nothing.
LEMMA LostDependencySteps ==
    ASSUME TypeOK, TypeOK', HandlerDone
    PROVE  [Requests!Next]_Requests!vars
<1>1. kpc # "clear" /\ kpc' # "clear" /\ UNCHANGED <<mIncomingConfig, mActiveConfig>>
      /\ mPendingConfig \in Seq(Entries)
  BY DEF TypeOK, HandlerDone
<1>2. \A d \in Elements : Copies(d)' = Copies(d) /\ Copies(d) \in Nat
  BY <1>1, LiveProperties DEF Copies
<1>3. CASE scan
  <2>2. ASSUME NEW r \in Entries
        PROVE  Waits(r)' = IF Requests!Satisfied(r[2]) THEN Waits(r)
                           ELSE Waits(r) + Copies(r[2])
    <3>1. r[2] \in Elements
      BY DEF Entries
    <3>2. isSatisfied(r[2]) <=> Requests!Satisfied(r[2])
      BY <3>1, LiveProperties
    <3> QED
      BY <1>3, <3>2, LostCounts
  <2>3. [r \in Entries |-> Waits(r)]' =
           [r \in Entries |-> IF Requests!Satisfied(r[2]) THEN Waits(r)
                              ELSE Waits(r) + Copies(r[2])]
    BY <2>2
  <2>4. \A r \in Entries : r[2] \in Elements
    BY DEF Entries
  <2>5. Requests!Reissue
    BY <1>2, <2>3, <2>4 DEF Requests!Reissue, Requests!Types, Entries
  <2> QED
    BY <2>5 DEF Requests!Next
<1>4. CASE ~scan
  <2>1. mPendingConfig' = mPendingConfig
    BY <1>1, <1>4, ConcatEmptySeq DEF HandlerDone
  <2> QED
    BY <1>1, <2>1, ListsUnchanged DEF listVars
<1> QED
  BY <1>3, <1>4

\* shutdown() asks for the removal of everything active, or for nothing.
LEMMA ShutdownSteps ==
    ASSUME TypeOK, TypeOK', NEW attemptRemoval \in BOOLEAN, shutdown(attemptRemoval)
    PROVE  [Requests!Next]_Requests!vars
<1> DEFINE removals == [i \in DOMAIN mActiveConfig |-> REMOVE(mActiveConfig[i])]
<1>1. /\ mIncomingConfig \in Seq(Entries) /\ mActiveConfig \in Seq(Elements)
      /\ mPendingConfig' = mPendingConfig /\ mActiveConfig' = mActiveConfig
      /\ kpc # "clear" /\ kpc' # "clear"
  BY DEF TypeOK, shutdown
<1>2. \A d \in Elements : Copies(d)' = Copies(d) /\ Copies(d) \in Nat
  BY <1>1, LiveProperties DEF Copies
<1>3. CASE attemptRemoval
  <2>1. /\ removals \in Seq(Entries)
        /\ \A t \in {"ADD", "REMOVE"}, e \in Elements :
              Occurrences(removals, <<t, e>>) = IF t = "REMOVE" THEN Copies(e) ELSE 0
    BY <1>1, RemovalsOfAll DEF Copies
  <2>2. mIncomingConfig' = mIncomingConfig \o removals
    BY <1>3 DEF shutdown
  <2> HIDE DEF removals
  <2>3. ASSUME NEW r \in Entries
        PROVE  Waits(r)' = IF r[1] = "REMOVE" THEN Waits(r) + Copies(r[2]) ELSE Waits(r)
    <3>1. r[1] \in {"ADD", "REMOVE"} /\ r[2] \in Elements /\ r = <<r[1], r[2]>>
      BY DEF Entries
    <3>2. Occurrences(removals, r) = IF r[1] = "REMOVE" THEN Copies(r[2]) ELSE 0
      BY <2>1, <3>1
    <3>3. Occurrences(mIncomingConfig', r) =
             Occurrences(mIncomingConfig, r) + Occurrences(removals, r)
      BY <1>1, <2>1, <2>2, OccurrencesConcat
    <3>4. /\ Waits(r) = Occurrences(mPendingConfig, r) + Occurrences(mIncomingConfig, r)
          /\ Occurrences(mPendingConfig, r) \in Nat
          /\ Occurrences(mIncomingConfig, r) \in Nat
      BY <1>1, WaitsSum DEF WaitsAdds
    <3>5. Waits(r)' = Occurrences(mPendingConfig, r) + Occurrences(mIncomingConfig', r)
      BY <1>1, WaitsSumNext DEF WaitsAdds
    <3>6. Copies(r[2]) \in Nat
      BY <1>2, <3>1
    <3> QED
      BY <3>2, <3>3, <3>4, <3>5, <3>6
  <2>4. [r \in Entries |-> Waits(r)]' =
           [r \in Entries |-> IF r[1] = "REMOVE" THEN Waits(r) + Copies(r[2])
                              ELSE Waits(r)]
    BY <2>3
  <2>5. \A r \in Entries : r[2] \in Elements
    BY DEF Entries
  <2>6. Requests!RemoveAll
    BY <1>2, <2>4, <2>5 DEF Requests!RemoveAll, Requests!Types, Entries
  <2> QED
    BY <2>6 DEF Requests!Next
<1>4. CASE ~attemptRemoval
  <2>1. mIncomingConfig' = mIncomingConfig
    BY <1>4 DEF shutdown
  <2> QED
    BY <1>1, <2>1, ListsUnchanged DEF listVars
<1> QED
  BY <1>3, <1>4

\* The end of a shutdown drops what is left.
LEMMA DiscardSteps ==
    ASSUME TypeOK', ClearAll
    PROVE  [Requests!Next]_Requests!vars
<1>1. /\ mIncomingConfig' = <<>> /\ mPendingConfig' = <<>> /\ mActiveConfig' = <<>>
  BY DEF ClearAll
<1>2. ASSUME NEW r \in Entries PROVE Waits(r)' = 0
  <2>1. Occurrences(mPendingConfig', r) = 0 /\ Occurrences(mIncomingConfig', r) = 0
    BY <1>1, OccurrencesShort
  <2> QED
    BY <2>1, WaitsSumNext DEF WaitsAdds
<1>3. \A e \in Elements : Copies(e)' = 0
  BY <1>1, OccurrencesShort DEF Copies
<1>4. Requests!Discard
  BY <1>2, <1>3 DEF Requests!Discard, Requests!Types, Entries
<1> QED
  BY <1>4 DEF Requests!Next

\* Every step is one of ConfigRequests or changes nothing of it.
LEMMA RequestsSteps ==
    ASSUME TypeOK, TypeOK', [Next]_vars
    PROVE  [Requests!Next]_Requests!vars
<1>1. ASSUME NEW e \in Elements,
             \/ addConfigurationAdditions(e) \/ addConfigurationRemovals(e)
             \/ SwapRemove(e) \/ SwapAdd(e) \/ addConfigElement(e)
      PROVE  [Requests!Next]_Requests!vars
  <2>1. UNCHANGED <<mPendingConfig, mActiveConfig, kpc>>
    BY <1>1 DEF addConfigurationAdditions, addConfigurationRemovals, SwapRemove, SwapAdd,
       Incoming, addConfigElement
  <2>2. \/ mIncomingConfig' = Append(mIncomingConfig, <<"ADD", e>>)
        \/ mIncomingConfig' = Append(mIncomingConfig, <<"REMOVE", e>>)
    BY <1>1 DEF addConfigurationAdditions, addConfigurationRemovals, SwapRemove, SwapAdd,
       Incoming, addConfigElement, ADD, REMOVE
  <2> QED
    BY <2>1, <2>2, IncomingSteps
<1>2. CASE MergeIncoming \/ ClearIncoming
  BY <1>2, MergeSteps
<1>3. CASE shouldCheckPending
  <2>1. UNCHANGED listVars /\ kpc # "clear" /\ kpc' # "clear"
    BY <1>3 DEF shouldCheckPending, LoopLeft
  <2> QED
    BY <2>1, ListsUnchanged
<1>4. CASE PassOver \/ PassDone
  <2>1. UNCHANGED listVars /\ kpc # "clear" /\ kpc' # "clear"
    BY <1>4 DEF PassOver, PassDone, Looking, LoopLeft
  <2> QED
    BY <2>1, ListsUnchanged
<1>5. CASE configAdd
  BY <1>5, AdditionSteps
<1>6. CASE configRemove
  BY <1>6, RemovalSteps
<1>7. CASE HandlerDone
  BY <1>7, LostDependencySteps
<1>8. CASE ClearAll
  BY <1>8, DiscardSteps
<1>9. ASSUME NEW h \in Handlers,
             addConfigElementHandler(h) \/ removeConfigElementHandler(h)
      PROVE  [Requests!Next]_Requests!vars
  <2>1. UNCHANGED listVars /\ kpc' = kpc
    BY <1>9 DEF addConfigElementHandler, removeConfigElementHandler
  <2> QED
    BY <2>1, ListsUnchanged
<1>10. ASSUME NEW attemptRemoval \in BOOLEAN, shutdown(attemptRemoval)
       PROVE  [Requests!Next]_Requests!vars
  BY <1>10, ShutdownSteps
<1>11. CASE UNCHANGED vars
  <2>1. UNCHANGED listVars /\ kpc' = kpc
    BY <1>11 DEF vars
  <2> QED
    BY <2>1, ListsUnchanged
<1> QED
  BY <1>1, <1>2, <1>3, <1>4, <1>5, <1>6, <1>7, <1>8, <1>9, <1>10, <1>11
     DEF Next, Request, Attempt

\* The lists and passes of the manager implement ConfigRequests: no request is lost, carried
\* out twice or carried out without its dependencies, and the manager makes none of its own
\* but the pairs of lost dependencies and a shutdown's removals.
THEOREM Refinement == Spec => ImplementsConfigRequests
<1>1. Init => Requests!Init
  <2> SUFFICES ASSUME Init PROVE Requests!Init
    OBVIOUS
  <2>1. ASSUME NEW r \in Entries PROVE Waits(r) = 0
    <3>1. mPendingConfig = <<>> /\ mIncomingConfig = <<>> /\ WaitsAdds
      BY TypeOKInit, WaitsSum DEF Init
    <3>2. Occurrences(mPendingConfig, r) = 0 /\ Occurrences(mIncomingConfig, r) = 0
      BY <3>1, OccurrencesShort
    <3> QED
      BY <3>1, <3>2 DEF WaitsAdds
  <2>2. \A e \in Elements : Copies(e) = 0
    BY OccurrencesShort DEF Copies, Init
  <2> QED
    BY <2>1, <2>2 DEF Requests!Init, Requests!Types, Entries
<1>2. TypeOK /\ TypeOK' /\ [Next]_vars => [Requests!Next]_Requests!vars
  BY RequestsSteps
<1> QED
  BY <1>1, <1>2, TypeCorrect, PTL DEF Spec, ImplementsConfigRequests, Requests!Spec

-----------------------------------------------------------------------------
(* Patient requesters, who use the locked calls, and no shutdown. *)

Calm == Patient /\ ~UnlockedAdds /\ ~MayShutdown

Adds(e)     == Waits(ADD(e))
Removals(e) == Waits(REMOVE(e))
Wanted      == asked \ swapping

\* The loop over attempts is not that of a shutdown.
NotClosing == ~closing /\ kpc # "clearAll"

\* What is active and what waits to be added is what is wanted and what is to be removed.
Balance ==
    /\ swapping \subseteq asked
    /\ \A e \in Elements :
          Copies(e) + Adds(e) = Removals(e) + IF e \in Wanted THEN 1 ELSE 0

\* The handlers hold nothing that is not active.
ConfiguredIsActive == configured \subseteq ToSet(mActiveConfig)

BalanceInv == NotClosing /\ Balance /\ ConfiguredIsActive

\* The counts, and how they speak of the lists.
CountFacts ==
    \A e \in Elements :
       /\ Adds(e) \in Nat /\ Removals(e) \in Nat /\ Copies(e) \in Nat
       /\ Copies(e) > 0 <=> e \in ToSet(mActiveConfig)
       /\ Removals(e) > 0 <=> \/ REMOVE(e) \in ToSet(mPendingConfig)
                              \/ kpc # "clear" /\ REMOVE(e) \in ToSet(mIncomingConfig)
       /\ Adds(e) > 0 <=> \/ ADD(e) \in ToSet(mPendingConfig)
                          \/ kpc # "clear" /\ ADD(e) \in ToSet(mIncomingConfig)

\* A count is not zero when its list has the entry.
LEMMA CountsAre == TypeOK => CountFacts
<1> SUFFICES ASSUME TypeOK PROVE CountFacts
  OBVIOUS
<1>1. ASSUME NEW r \in Entries
      PROVE  /\ Waits(r) \in Nat
             /\ Waits(r) > 0 <=> \/ r \in ToSet(mPendingConfig)
                                 \/ kpc # "clear" /\ r \in ToSet(mIncomingConfig)
  <2>1. mPendingConfig \in Seq(Entries) /\ mIncomingConfig \in Seq(Entries)
    BY DEF TypeOK
  <2>2. /\ Occurrences(mPendingConfig, r) > 0 <=> r \in ToSet(mPendingConfig)
        /\ Occurrences(mIncomingConfig, r) > 0 <=> r \in ToSet(mIncomingConfig)
    BY <2>1, OccurrencesType
  <2>3. /\ Waits(r) = Occurrences(mPendingConfig, r)
              + IF kpc = "clear" THEN 0 ELSE Occurrences(mIncomingConfig, r)
        /\ Occurrences(mPendingConfig, r) \in Nat /\ Occurrences(mIncomingConfig, r) \in Nat
    BY WaitsSum DEF WaitsAdds
  <2> DEFINE m == Occurrences(mPendingConfig, r)
             n == Occurrences(mIncomingConfig, r)
  <2> HIDE DEF m, n
  <2>4. /\ Waits(r) = m + IF kpc = "clear" THEN 0 ELSE n
        /\ m \in Nat /\ n \in Nat
    BY <2>3 DEF m, n
  <2>5. Waits(r) \in Nat /\ (Waits(r) > 0 <=> m > 0 \/ (kpc # "clear" /\ n > 0))
    BY <2>4
  <2> QED
    BY <2>2, <2>5 DEF m, n
<1>2. ASSUME NEW e \in Elements
      PROVE  Copies(e) \in Nat /\ (Copies(e) > 0 <=> e \in ToSet(mActiveConfig))
  <2>1. mActiveConfig \in Seq(Elements)
    BY DEF TypeOK
  <2> QED
    BY <2>1, OccurrencesType DEF Copies
<1> QED
  BY <1>1, <1>2, EntriesAreRequests DEF CountFacts, Adds, Removals

\* In the state a step leads to as well.
LEMMA CountsAreNext == TypeOK' => CountFacts'
  BY CountsAre, PTL

\* An entry is of one element and one kind.
LEMMA EntriesDiffer ==
    ASSUME NEW d \in Elements, NEW e \in Elements
    PROVE  /\ ADD(d) = ADD(e) <=> d = e
           /\ REMOVE(d) = REMOVE(e) <=> d = e
           /\ ADD(d) # REMOVE(e)
  BY DEF ADD, REMOVE

\* What a call of a requester does.
LEMMA Asking ==
    ASSUME Calm, Request
    PROVE  \E e \in Elements :
              /\ kpc # "clear"
              /\ UNCHANGED <<mPendingConfig, mActiveConfig, mElementHandlers, configured,
                             kpc, handler, pos, scan, progress, closing>>
              /\ \/ /\ mIncomingConfig' = Append(mIncomingConfig, ADD(e))
                    /\ \/ /\ e \notin asked /\ swapping = {}
                          /\ asked' = asked \cup {e} /\ swapping' = swapping
                       \/ e \in swapping /\ asked' = asked /\ swapping' = swapping \ {e}
                 \/ /\ mIncomingConfig' = Append(mIncomingConfig, REMOVE(e))
                    /\ e \in asked /\ swapping = {} /\ ~Waiting(e) /\ ~scan
                    /\ \A d \in Elements : ~Removing(d)
                    /\ \/ asked' = asked \ {e} /\ swapping' = swapping
                       \/ asked' = asked /\ swapping' = swapping \cup {e}
<1>1. PICK e \in Elements :
         \/ addConfigurationAdditions(e) \/ addConfigurationRemovals(e)
         \/ SwapRemove(e) \/ SwapAdd(e)
  BY DEF Calm, Request, addConfigElement
<1>2. CASE addConfigurationAdditions(e)
  BY <1>2 DEF Calm, addConfigurationAdditions, MayAsk, Incoming, passVars
<1>3. CASE addConfigurationRemovals(e)
  BY <1>3 DEF Calm, addConfigurationRemovals, MayAsk, Incoming, passVars
<1>4. CASE SwapRemove(e)
  BY <1>4 DEF Calm, SwapRemove, MayAsk, Incoming, passVars
<1>5. CASE SwapAdd(e)
  BY <1>5 DEF SwapAdd, Incoming, passVars
<1> QED
  BY <1>1, <1>2, <1>3, <1>4, <1>5

\* No shutdown begins, and so none ends.
LEMMA NotClosingSteps == Calm /\ NotClosing /\ [Next]_vars => NotClosing'
<1> SUFFICES ASSUME Calm, NotClosing, [Next]_vars PROVE NotClosing'
  OBVIOUS
<1>1. CASE UNCHANGED <<kpc, closing>>
  BY <1>1 DEF NotClosing
<1>2. CASE Request
  BY <1>1, <1>2, Asking
<1>3. CASE Attempt
  BY <1>3 DEF NotClosing, Attempt, MergeIncoming, ClearIncoming, shouldCheckPending,
     PassOver, configAdd, configRemove, HandlerDone, PassDone, LoopLeft
<1>4. ~ClearAll
  BY DEF ClearAll, NotClosing
<1>5. ASSUME NEW h \in Handlers,
             addConfigElementHandler(h) \/ removeConfigElementHandler(h)
      PROVE  NotClosing'
  BY <1>1, <1>5 DEF addConfigElementHandler, removeConfigElementHandler
<1>6. ASSUME NEW attemptRemoval \in BOOLEAN PROVE ~shutdown(attemptRemoval)
  BY DEF Calm, shutdown
<1>7. CASE UNCHANGED vars
  BY <1>1, <1>7 DEF vars
<1> QED
  BY <1>2, <1>3, <1>4, <1>5, <1>6, <1>7 DEF Next

\* A step that changes no count and nothing that is wanted.
LEMMA SameCounts ==
    ASSUME \A r \in Entries : Waits(r)' = Waits(r),
           \A d \in Elements : Copies(d)' = Copies(d)
    PROVE  \A d \in Elements :
              Adds(d)' = Adds(d) /\ Removals(d)' = Removals(d) /\ Copies(d)' = Copies(d)
  BY EntriesAreRequests DEF Adds, Removals

\* A request changes the counts of its element by one entry.
LEMMA AskedCounts ==
    ASSUME TypeOK, TypeOK', NEW t \in {"ADD", "REMOVE"}, NEW e \in Elements,
           mIncomingConfig' = Append(mIncomingConfig, <<t, e>>),
           UNCHANGED <<mPendingConfig, mActiveConfig, kpc>>, kpc # "clear"
    PROVE  \A d \in Elements :
              /\ Adds(d)' = Adds(d) + IF t = "ADD" /\ d = e THEN 1 ELSE 0
              /\ Removals(d)' = Removals(d) + IF t = "REMOVE" /\ d = e THEN 1 ELSE 0
              /\ Copies(d)' = Copies(d)
<1> SUFFICES ASSUME NEW d \in Elements
             PROVE  /\ Adds(d)' = Adds(d) + IF t = "ADD" /\ d = e THEN 1 ELSE 0
                    /\ Removals(d)' = Removals(d) + IF t = "REMOVE" /\ d = e THEN 1 ELSE 0
                    /\ Copies(d)' = Copies(d)
  OBVIOUS
<1>1. /\ Waits(ADD(d))' = Waits(ADD(d)) + IF ADD(d) = <<t, e>> THEN 1 ELSE 0
      /\ Waits(REMOVE(d))' = Waits(REMOVE(d)) + IF REMOVE(d) = <<t, e>> THEN 1 ELSE 0
      /\ Copies(d)' = Copies(d)
  BY IncomingCounts, EntriesAreRequests
<1>2. /\ ADD(d) = <<t, e>> <=> t = "ADD" /\ d = e
      /\ REMOVE(d) = <<t, e>> <=> t = "REMOVE" /\ d = e
  BY DEF ADD, REMOVE
<1> QED
  BY <1>1, <1>2 DEF Adds, Removals

\* configAdd() and configRemove() change those of the element they are about.
LEMMA AddedCounts ==
    ASSUME TypeOK, TypeOK', configAdd, NEW e \in Elements, e = Element
    PROVE  /\ Adds(e) > 0
           /\ \A d \in Elements :
                 /\ Adds(d)' = Adds(d) - IF d = e THEN 1 ELSE 0
                 /\ Removals(d)' = Removals(d)
                 /\ Copies(d)' = Copies(d) + IF d = e THEN 1 ELSE 0
<1>1. ADD(e) = <<"ADD", e>> /\ Waits(<<"ADD", e>>) > 0
  BY AdditionCounts DEF ADD
<1> SUFFICES ASSUME NEW d \in Elements
             PROVE  /\ Adds(d)' = Adds(d) - IF d = e THEN 1 ELSE 0
                    /\ Removals(d)' = Removals(d)
                    /\ Copies(d)' = Copies(d) + IF d = e THEN 1 ELSE 0
  BY <1>1 DEF Adds
<1>2. /\ Waits(ADD(d))' = Waits(ADD(d)) - IF ADD(d) = <<"ADD", e>> THEN 1 ELSE 0
      /\ Waits(REMOVE(d))' = Waits(REMOVE(d)) - IF REMOVE(d) = <<"ADD", e>> THEN 1 ELSE 0
      /\ Copies(d)' = Copies(d) + IF d = e THEN 1 ELSE 0
  BY AdditionCounts, EntriesAreRequests
<1>3. (ADD(d) = <<"ADD", e>> <=> d = e) /\ REMOVE(d) # <<"ADD", e>>
  BY DEF ADD, REMOVE
<1>4. Removals(d) \in Nat
  BY CountsAre DEF CountFacts
<1> QED
  BY <1>2, <1>3, <1>4 DEF Adds, Removals

LEMMA RemovedCounts ==
    ASSUME TypeOK, TypeOK', configRemove, NEW e \in Elements, e = Element
    PROVE  /\ Removals(e) > 0
           /\ \A d \in Elements :
                 /\ Adds(d)' = Adds(d)
                 /\ Removals(d)' = Removals(d) - IF d = e THEN 1 ELSE 0
                 /\ Copies(d)' = Copies(d) - IF d = e /\ Copies(d) > 0 THEN 1 ELSE 0
<1>1. REMOVE(e) = <<"REMOVE", e>> /\ Waits(<<"REMOVE", e>>) > 0
  BY RemovalCounts DEF REMOVE
<1> SUFFICES ASSUME NEW d \in Elements
             PROVE  /\ Adds(d)' = Adds(d)
                    /\ Removals(d)' = Removals(d) - IF d = e THEN 1 ELSE 0
                    /\ Copies(d)' = Copies(d) - IF d = e /\ Copies(d) > 0 THEN 1 ELSE 0
  BY <1>1 DEF Removals
<1>2. /\ Waits(ADD(d))' = Waits(ADD(d)) - IF ADD(d) = <<"REMOVE", e>> THEN 1 ELSE 0
      /\ Waits(REMOVE(d))' = Waits(REMOVE(d)) - IF REMOVE(d) = <<"REMOVE", e>> THEN 1 ELSE 0
      /\ Copies(d)' = Copies(d) - IF d = e /\ Copies(d) > 0 THEN 1 ELSE 0
  BY RemovalCounts, EntriesAreRequests
<1>3. (REMOVE(d) = <<"REMOVE", e>> <=> d = e) /\ ADD(d) # <<"REMOVE", e>>
  BY DEF ADD, REMOVE
<1>4. Adds(d) \in Nat
  BY CountsAre DEF CountFacts
<1> QED
  BY <1>2, <1>3, <1>4 DEF Adds, Removals

\* A scan queues as many removals as additions of what has lost a dependency.
LEMMA ScannedCounts ==
    ASSUME TypeOK, TypeOK', HandlerDone, scan
    PROVE  \A d \in Elements :
              /\ Adds(d)' = IF isSatisfied(d) THEN Adds(d) ELSE Adds(d) + Copies(d)
              /\ Removals(d)' = IF isSatisfied(d) THEN Removals(d)
                                ELSE Removals(d) + Copies(d)
              /\ Copies(d)' = Copies(d)
<1> SUFFICES ASSUME NEW d \in Elements
             PROVE  /\ Adds(d)' = IF isSatisfied(d) THEN Adds(d) ELSE Adds(d) + Copies(d)
                    /\ Removals(d)' = IF isSatisfied(d) THEN Removals(d)
                                      ELSE Removals(d) + Copies(d)
                    /\ Copies(d)' = Copies(d)
  OBVIOUS
<1>1. ADD(d) \in Entries /\ REMOVE(d) \in Entries /\ ADD(d)[2] = d /\ REMOVE(d)[2] = d
  BY DEF ADD, REMOVE, Entries
<1>2. \A r \in Entries : Waits(r)' = IF isSatisfied(r[2]) THEN Waits(r)
                                     ELSE Waits(r) + Copies(r[2])
  BY LostCounts
<1>3. Copies(d)' = Copies(d)
  BY LostCounts
<1>4. /\ Waits(ADD(d))' = IF isSatisfied(d) THEN Waits(ADD(d))
                          ELSE Waits(ADD(d)) + Copies(d)
      /\ Waits(REMOVE(d))' = IF isSatisfied(d) THEN Waits(REMOVE(d))
                             ELSE Waits(REMOVE(d)) + Copies(d)
  BY <1>1, <1>2
<1> QED
  BY <1>3, <1>4 DEF Adds, Removals

\* The counts do not change, of what waits and what is active, in any other step.
LEMMA OtherCounts ==
    ASSUME Calm, NotClosing, TypeOK, TypeOK', [Next]_vars,
           ~Request, ~configAdd, ~configRemove, ~(HandlerDone /\ scan)
    PROVE  /\ \A d \in Elements : Adds(d)' = Adds(d) /\ Removals(d)' = Removals(d)
                                  /\ Copies(d)' = Copies(d)
           /\ UNCHANGED <<mActiveConfig, configured, asked, swapping>>
<1> DEFINE Goal == /\ \A d \in Elements : Adds(d)' = Adds(d) /\ Removals(d)' = Removals(d)
                                          /\ Copies(d)' = Copies(d)
                   /\ UNCHANGED <<mActiveConfig, configured, asked, swapping>>
<1> HIDE DEF Goal
<1>1. ASSUME UNCHANGED <<listVars, configured, requestVars>>,
             kpc = "clear" <=> kpc' = "clear"
      PROVE  Goal
  BY <1>1, UnchangedCounts, SameCounts DEF Goal, listVars, requestVars
<1>2. ASSUME MergeIncoming \/ ClearIncoming PROVE Goal
  <2>1. UNCHANGED <<mActiveConfig, configured, asked, swapping>>
    BY <1>2 DEF MergeIncoming, ClearIncoming, requestVars
  <2> QED
    BY <1>2, <2>1, MergeCounts, SameCounts DEF Goal
<1>3. ASSUME shouldCheckPending \/ PassOver \/ PassDone PROVE Goal
  BY <1>1, <1>3 DEF shouldCheckPending, PassOver, PassDone, Looking, LoopLeft
<1>4. ASSUME HandlerDone, ~scan PROVE Goal
  <2>1. mPendingConfig' = mPendingConfig \o <<>> /\ mPendingConfig \in Seq(Entries)
    BY <1>4 DEF HandlerDone, TypeOK
  <2>2. mPendingConfig' = mPendingConfig
    BY <2>1, ConcatEmptySeq
  <2>3. UNCHANGED <<mIncomingConfig, mActiveConfig, configured, kpc, requestVars>>
    BY <1>4 DEF HandlerDone
  <2> QED
    BY <1>1, <2>2, <2>3 DEF listVars
<1>5. ~ClearAll
  BY DEF ClearAll, NotClosing
<1>6. ASSUME NEW h \in Handlers,
             addConfigElementHandler(h) \/ removeConfigElementHandler(h)
      PROVE  Goal
  BY <1>1, <1>6 DEF addConfigElementHandler, removeConfigElementHandler
<1>7. ASSUME NEW attemptRemoval \in BOOLEAN PROVE ~shutdown(attemptRemoval)
  BY DEF Calm, shutdown
<1>8. ASSUME UNCHANGED vars PROVE Goal
  BY <1>1, <1>8 DEF vars
<1>9. Goal
  BY <1>2, <1>3, <1>4, <1>5, <1>6, <1>7, <1>8 DEF Next, Attempt
<1> QED
  BY <1>9 DEF Goal

\* What a request changes in what is wanted.
LEMMA AskingChangesWanted ==
    ASSUME Calm, Request, swapping \subseteq asked
    PROVE  \E t \in {"ADD", "REMOVE"}, e \in Elements :
              /\ kpc # "clear"
              /\ UNCHANGED <<mPendingConfig, mActiveConfig, kpc, configured>>
              /\ mIncomingConfig' = Append(mIncomingConfig, <<t, e>>)
              /\ (swapping \subseteq asked)'
              /\ e \in Wanted <=> t = "REMOVE"
              /\ Wanted' = IF t = "ADD" THEN Wanted \cup {e} ELSE Wanted \ {e}
<1> DEFINE Goal(t, e) ==
              /\ kpc # "clear"
              /\ UNCHANGED <<mPendingConfig, mActiveConfig, kpc, configured>>
              /\ mIncomingConfig' = Append(mIncomingConfig, <<t, e>>)
              /\ swapping' \subseteq asked'
              /\ e \in Wanted <=> t = "REMOVE"
              /\ asked' \ swapping' = IF t = "ADD" THEN Wanted \cup {e} ELSE Wanted \ {e}
<1>1. PICK e \in Elements :
         /\ kpc # "clear"
         /\ UNCHANGED <<mPendingConfig, mActiveConfig, kpc, configured>>
         /\ \/ /\ mIncomingConfig' = Append(mIncomingConfig, ADD(e))
               /\ \/ /\ e \notin asked /\ swapping = {}
                     /\ asked' = asked \cup {e} /\ swapping' = swapping
                  \/ e \in swapping /\ asked' = asked /\ swapping' = swapping \ {e}
            \/ /\ mIncomingConfig' = Append(mIncomingConfig, REMOVE(e))
               /\ e \in asked /\ swapping = {}
               /\ \/ asked' = asked \ {e} /\ swapping' = swapping
                  \/ asked' = asked /\ swapping' = swapping \cup {e}
  BY Asking
<1>2. CASE mIncomingConfig' = Append(mIncomingConfig, ADD(e))
           /\ e \notin asked /\ swapping = {}
           /\ asked' = asked \cup {e} /\ swapping' = swapping
  <2>1. Goal("ADD", e)
    BY <1>1, <1>2 DEF ADD, Wanted
  <2> QED
    BY <2>1 DEF Wanted
<1>3. CASE mIncomingConfig' = Append(mIncomingConfig, ADD(e))
           /\ e \in swapping /\ asked' = asked /\ swapping' = swapping \ {e}
  <2>1. Goal("ADD", e)
    BY <1>1, <1>3 DEF ADD, Wanted
  <2> QED
    BY <2>1 DEF Wanted
<1>4. CASE mIncomingConfig' = Append(mIncomingConfig, REMOVE(e))
           /\ e \in asked /\ swapping = {}
           /\ (\/ asked' = asked \ {e} /\ swapping' = swapping
               \/ asked' = asked /\ swapping' = swapping \cup {e})
  <2>1. Goal("REMOVE", e)
    BY <1>1, <1>4 DEF REMOVE, Wanted
  <2> QED
    BY <2>1 DEF Wanted
<1> QED
  BY <1>1, <1>2, <1>3, <1>4

\* Every step keeps the balance of requests, and what the handlers hold active.
LEMMA BalanceSteps ==
    ASSUME Calm, TypeOK, TypeOK', BalanceInv, [Next]_vars
    PROVE  Balance' /\ ConfiguredIsActive'
<1>1. \A d \in Elements :
         /\ Adds(d) \in Nat /\ Removals(d) \in Nat /\ Copies(d) \in Nat
         /\ Copies(d) > 0 <=> d \in ToSet(mActiveConfig)
         /\ Copies(d) + Adds(d) = Removals(d) + IF d \in Wanted THEN 1 ELSE 0
  BY CountsAre DEF CountFacts, BalanceInv, Balance
<1>2. ASSUME NEW d \in Elements PROVE Copies(d)' \in Nat
                                      /\ (Copies(d)' > 0 <=> d \in ToSet(mActiveConfig)')
  BY CountsAreNext DEF CountFacts
<1>3. swapping \subseteq asked /\ configured \subseteq ToSet(mActiveConfig)
      /\ configured \subseteq Elements
  BY DEF BalanceInv, Balance, ConfiguredIsActive, TypeOK
<1>4. CASE Request
  <2>1. PICK t \in {"ADD", "REMOVE"}, e \in Elements :
           /\ kpc # "clear"
           /\ UNCHANGED <<mPendingConfig, mActiveConfig, kpc, configured>>
           /\ mIncomingConfig' = Append(mIncomingConfig, <<t, e>>)
           /\ (swapping \subseteq asked)'
           /\ e \in Wanted <=> t = "REMOVE"
           /\ Wanted' = IF t = "ADD" THEN Wanted \cup {e} ELSE Wanted \ {e}
    BY <1>3, <1>4, AskingChangesWanted
  <2>2. \A d \in Elements :
           /\ Adds(d)' = Adds(d) + IF t = "ADD" /\ d = e THEN 1 ELSE 0
           /\ Removals(d)' = Removals(d) + IF t = "REMOVE" /\ d = e THEN 1 ELSE 0
           /\ Copies(d)' = Copies(d)
    BY <2>1, AskedCounts
  <2>3. ASSUME NEW d \in Elements
        PROVE  Copies(d)' + Adds(d)' = Removals(d)' + IF d \in Wanted' THEN 1 ELSE 0
    <3>1. CASE t = "ADD"
      <4>1. d \in Wanted' <=> d \in Wanted \/ d = e
        BY <2>1, <3>1
      <4>2. d = e => d \notin Wanted
        BY <2>1, <3>1
      <4> QED
        BY <1>1, <2>2, <3>1, <4>1, <4>2
    <3>2. CASE t = "REMOVE"
      <4>1. d \in Wanted' <=> d \in Wanted /\ d # e
        BY <2>1, <3>2
      <4>2. d = e => d \in Wanted
        BY <2>1, <3>2
      <4> QED
        BY <1>1, <2>2, <3>2, <4>1, <4>2
    <3> QED
      BY <3>1, <3>2
  <2> QED
    BY <1>3, <2>1, <2>3 DEF Balance, ConfiguredIsActive
<1>5. CASE configAdd
  <2>1. PICK e \in Elements : e = Element
    BY <1>5, LookedAt DEF configAdd
  <2>2. /\ \A d \in Elements :
              /\ Adds(d)' = Adds(d) - IF d = e THEN 1 ELSE 0
              /\ Removals(d)' = Removals(d)
              /\ Copies(d)' = Copies(d) + IF d = e THEN 1 ELSE 0
    BY <1>5, <2>1, AddedCounts
  <2>3. asked' = asked /\ swapping' = swapping /\ configured' = configured \cup {e}
    BY <1>5, <2>1 DEF configAdd, requestVars
  <2>4. ASSUME NEW d \in Elements
        PROVE  Copies(d)' + Adds(d)' = Removals(d)' + IF d \in Wanted THEN 1 ELSE 0
    BY <1>1, <2>2
  <2>5. ASSUME NEW d \in configured' PROVE d \in ToSet(mActiveConfig)'
    <3>1. d \in Elements /\ (d = e \/ Copies(d) > 0)
      BY <1>1, <1>3, <2>3
    <3>2. Copies(d)' > 0
      BY <1>1, <2>2, <3>1
    <3> QED
      BY <1>2, <3>1, <3>2
  <2> QED
    BY <1>3, <2>3, <2>4, <2>5 DEF Balance, ConfiguredIsActive, Wanted
<1>6. CASE configRemove
  <2>1. PICK e \in Elements : e = Element /\ e \in configured
    BY <1>6, LookedAt DEF configRemove
  <2>2. /\ \A d \in Elements :
              /\ Adds(d)' = Adds(d)
              /\ Removals(d)' = Removals(d) - IF d = e THEN 1 ELSE 0
              /\ Copies(d)' = Copies(d) - IF d = e /\ Copies(d) > 0 THEN 1 ELSE 0
    BY <1>6, <2>1, RemovedCounts
  <2>3. asked' = asked /\ swapping' = swapping /\ configured' = configured \ {e}
    BY <1>6, <2>1 DEF configRemove, requestVars
  <2>4. Copies(e) > 0
    BY <1>1, <1>3, <2>1
  <2>5. ASSUME NEW d \in Elements
        PROVE  Copies(d)' + Adds(d)' = Removals(d)' + IF d \in Wanted THEN 1 ELSE 0
    BY <1>1, <2>2, <2>4
  <2>6. ASSUME NEW d \in configured' PROVE d \in ToSet(mActiveConfig)'
    <3>1. d \in Elements /\ d # e /\ Copies(d) > 0
      BY <1>1, <1>3, <2>3
    <3>2. Copies(d)' > 0
      BY <1>1, <2>2, <3>1
    <3> QED
      BY <1>2, <3>1, <3>2
  <2> QED
    BY <1>3, <2>3, <2>5, <2>6 DEF Balance, ConfiguredIsActive, Wanted
<1>7. CASE HandlerDone /\ scan
  <2>1. \A d \in Elements :
           /\ Adds(d)' = IF isSatisfied(d) THEN Adds(d) ELSE Adds(d) + Copies(d)
           /\ Removals(d)' = IF isSatisfied(d) THEN Removals(d) ELSE Removals(d) + Copies(d)
           /\ Copies(d)' = Copies(d)
    BY <1>7, ScannedCounts
  <2>2. UNCHANGED <<mActiveConfig, configured, asked, swapping>>
    BY <1>7 DEF HandlerDone, requestVars
  <2>3. ASSUME NEW d \in Elements
        PROVE  Copies(d)' + Adds(d)' = Removals(d)' + IF d \in Wanted THEN 1 ELSE 0
    BY <1>1, <2>1
  <2> QED
    BY <1>3, <2>2, <2>3 DEF Balance, ConfiguredIsActive, Wanted
<1>8. CASE ~Request /\ ~configAdd /\ ~configRemove /\ ~(HandlerDone /\ scan)
  <2>1. /\ \A d \in Elements : Adds(d)' = Adds(d) /\ Removals(d)' = Removals(d)
                               /\ Copies(d)' = Copies(d)
        /\ UNCHANGED <<mActiveConfig, configured, asked, swapping>>
    BY <1>8, OtherCounts DEF BalanceInv
  <2> QED
    BY <1>1, <1>3, <2>1 DEF Balance, ConfiguredIsActive, Wanted
<1> QED
  BY <1>4, <1>5, <1>6, <1>7, <1>8

\* Of patient requesters, nothing is lost and nothing is carried out twice, ...
THEOREM RequestsBalance == Calm /\ Spec => []BalanceInv
<1> SUFFICES ASSUME Calm PROVE Spec => []BalanceInv
  OBVIOUS
<1>1. Init => BalanceInv
  <2> SUFFICES ASSUME Init PROVE BalanceInv
    OBVIOUS
  <2>1. ASSUME NEW e \in Elements PROVE Copies(e) = 0 /\ Adds(e) = 0 /\ Removals(e) = 0
    <3>1. Copies(e) = 0
      BY OccurrencesShort DEF Copies, Init
    <3>2. mPendingConfig = <<>> /\ mIncomingConfig = <<>> /\ WaitsAdds
      BY TypeOKInit, WaitsSum DEF Init
    <3>3. ASSUME NEW r \in Entries PROVE Waits(r) = 0
      <4>1. Occurrences(mPendingConfig, r) = 0 /\ Occurrences(mIncomingConfig, r) = 0
        BY <3>2, OccurrencesShort
      <4> QED
        BY <3>2, <4>1 DEF WaitsAdds
    <3> QED
      BY <3>1, <3>3, EntriesAreRequests DEF Adds, Removals
  <2> QED
    BY <2>1 DEF Init, BalanceInv, NotClosing, Balance, ConfiguredIsActive, Wanted
<1>2. TypeOK /\ TypeOK' /\ BalanceInv /\ [Next]_vars => BalanceInv'
  BY NotClosingSteps, BalanceSteps DEF BalanceInv
<1> QED
  BY <1>1, <1>2, TypeCorrect, PTL DEF Spec

\* ... so that what is active is what was asked for when no request is left.
THEOREM Convergence == Calm /\ Spec => []Converged
<1> SUFFICES ASSUME Calm PROVE Spec => []Converged
  OBVIOUS
<1>1. TypeOK /\ BalanceInv => Converged
  <2> SUFFICES ASSUME TypeOK, BalanceInv,
                      mIncomingConfig = <<>>, mPendingConfig = <<>>, swapping = {}
               PROVE  ToSet(mActiveConfig) = asked
    BY DEF Converged
  <2>1. ASSUME NEW e \in Elements PROVE e \in ToSet(mActiveConfig) <=> e \in asked
    <3>1. ToSet(mIncomingConfig) = {} /\ ToSet(mPendingConfig) = {}
      BY DEF ToSet
    <3>2. /\ Adds(e) \in Nat /\ Removals(e) \in Nat /\ Copies(e) \in Nat
          /\ Copies(e) > 0 <=> e \in ToSet(mActiveConfig)
          /\ ~(Removals(e) > 0) /\ ~(Adds(e) > 0)
      BY <3>1, CountsAre DEF CountFacts
    <3>3. Copies(e) + Adds(e) = Removals(e) + IF e \in asked THEN 1 ELSE 0
      BY DEF BalanceInv, Balance, Wanted
    <3> QED
      BY <3>2, <3>3
  <2>2. asked \subseteq Elements /\ ToSet(mActiveConfig) \subseteq Elements
    BY LenProperties DEF TypeOK, ToSet
  <2> QED
    BY <2>1, <2>2
<1> QED
  <2>1. Spec => []BalanceInv
    BY RequestsBalance
  <2> QED
    BY <1>1, <2>1, TypeCorrect, PTL

-----------------------------------------------------------------------------
(* ActiveIsConfigured. *)

\* The pairs of HandledTogether.
Together == CHOOSE T \in SUBSET (Elements \X Elements) : LostTogether(T)

\* On its way out; and what lost a dependency in this pass and is not yet.
Out(e)  == Removals(e) > 0
Lost(e) == e \in ToSet(mActiveConfig) /\ ~isSatisfied(e) /\ ~Out(e)

\* A removal of an element comes before an addition of it.
RemovalFirst(s) ==
    \A e \in Elements, j \in DOMAIN s :
       s[j] = ADD(e) /\ REMOVE(e) \in ToSet(s) => \E i \in 1 .. j - 1 : s[i] = REMOVE(e)

\* Handlers hold what is active.
Held == ToSet(mActiveConfig) = configured

\* A removal is of something active, and the only one of it.
RemovedOnce == \A e \in Elements : Out(e) => Removals(e) = 1 /\ Copies(e) = 1

\* What is on its way out is handled together.
OutAreTogether == \A e, f \in Elements : Out(e) /\ Out(f) => <<e, f>> \in Together

\* So will be what the scan is going to find.
LostAreTogether ==
    \A e, f \in Elements :
       /\ Lost(e) /\ Lost(f) => <<e, f>> \in Together
       /\ Lost(e) /\ Out(f) => \E d \in DependsOn[e] : <<d, f>> \in Together

\* A handler that has removed something handles all that is still to be removed.
ScanIsOfHandler ==
    scan => \A e \in Elements : Out(e) => e \in CanHandle[mElementHandlers[handler]]

\* A removal that comes in finds no other, no scan, and no addition of its element.
RemovalsComeAlone ==
    kpc # "clear" =>
       \A e \in Elements :
          REMOVE(e) \in ToSet(mIncomingConfig) =>
             /\ ~scan /\ ADD(e) \notin ToSet(mPendingConfig)
             /\ \A f \in Elements : REMOVE(f) \notin ToSet(mPendingConfig)

RemovalsFirst == RemovalFirst(mPendingConfig) /\ RemovalFirst(mIncomingConfig)

\* The removals a handler has passed over are not for it.
RemovalsPassed ==
    kpc = "pass" =>
       \A i \in 1 .. pos - 1, e \in Elements :
          i <= Len(mPendingConfig) /\ mPendingConfig[i] = REMOVE(e) =>
             /\ handler <= Len(mElementHandlers)
             /\ e \notin CanHandle[mElementHandlers[handler]]

CountInv == Held /\ RemovedOnce /\ OutAreTogether /\ LostAreTogether
ListInv  == ScanIsOfHandler /\ RemovalsComeAlone /\ RemovalsFirst /\ RemovalsPassed
HeldInv  == CountInv /\ ListInv

\* Nothing is out of order in the empty list, or in a list of one entry.
LEMMA RemovalFirstShort ==
    /\ RemovalFirst(<<>>)
    /\ \A e \in Elements : RemovalFirst(<<ADD(e)>>) /\ RemovalFirst(<<REMOVE(e)>>)
<1>1. RemovalFirst(<<>>)
  BY DEF RemovalFirst
<1>2. ASSUME NEW e \in Elements PROVE RemovalFirst(<<ADD(e)>>)
  BY DEF RemovalFirst, ToSet, ADD, REMOVE
<1>3. ASSUME NEW e \in Elements PROVE RemovalFirst(<<REMOVE(e)>>)
  BY DEF RemovalFirst, ADD, REMOVE
<1> QED
  BY <1>1, <1>2, <1>3

\* Two lists in order are, one after the other, unless the second removes what only the
\* first adds.
LEMMA RemovalFirstConcat ==
    ASSUME NEW s \in Seq(Entries), NEW t \in Seq(Entries),
           RemovalFirst(s), RemovalFirst(t),
           \A e \in Elements : REMOVE(e) \in ToSet(t) /\ ADD(e) \in ToSet(s)
                                  => REMOVE(e) \in ToSet(s)
    PROVE  RemovalFirst(s \o t)
<1> DEFINE m == Len(s)
           n == Len(t)
           u == s \o t
<1>1. /\ m \in Nat /\ n \in Nat
      /\ DOMAIN s = 1 .. m /\ DOMAIN t = 1 .. n /\ DOMAIN u = 1 .. m + n
      /\ \A i \in 1 .. m + n : u[i] = IF i <= m THEN s[i] ELSE t[i - m]
  BY LenProperties, ConcatProperties
<1>2. ToSet(u) = ToSet(s) \cup ToSet(t)
  BY ToSetConcat
<1> HIDE DEF m, n, u
<1> SUFFICES ASSUME NEW e \in Elements, NEW j \in DOMAIN u, u[j] = ADD(e),
                    REMOVE(e) \in ToSet(u)
             PROVE  \E i \in 1 .. j - 1 : u[i] = REMOVE(e)
  BY DEF RemovalFirst, u
<1>3. j \in 1 .. m + n
  BY <1>1
<1>4. ASSUME NEW i \in 1 .. m, i < j, s[i] = REMOVE(e)
      PROVE  \E k \in 1 .. j - 1 : u[k] = REMOVE(e)
  <2>1. i \in 1 .. j - 1 /\ i \in 1 .. m + n /\ i <= m
    BY <1>1, <1>3, <1>4
  <2>2. u[i] = s[i]
    BY <1>1, <2>1
  <2> QED
    BY <1>4, <2>1, <2>2
<1>5. CASE j <= m
  <2>1. j \in DOMAIN s /\ s[j] = ADD(e)
    BY <1>1, <1>3, <1>5
  <2>2. ADD(e) \in ToSet(s)
    BY <2>1 DEF ToSet
  <2>3. REMOVE(e) \in ToSet(s)
    BY <1>2, <2>2
  <2>4. PICK i \in 1 .. j - 1 : s[i] = REMOVE(e)
    BY <2>1, <2>3 DEF RemovalFirst
  <2>5. i \in 1 .. m /\ i < j
    BY <1>1, <1>3, <1>5
  <2> QED
    BY <1>4, <2>4, <2>5
<1>6. CASE j > m
  <2>1. j - m \in DOMAIN t /\ t[j - m] = ADD(e)
    <3>1. j - m \in 1 .. n /\ ~(j <= m)
      BY <1>1, <1>3, <1>6
    <3> QED
      BY <1>1, <1>3, <3>1
  <2>2. CASE REMOVE(e) \in ToSet(s)
    <3>1. PICK i \in 1 .. m : s[i] = REMOVE(e)
      BY <1>1, <2>2 DEF ToSet
    <3>2. i < j
      BY <1>1, <1>3, <1>6
    <3> QED
      BY <1>4, <3>1, <3>2
  <2>3. CASE REMOVE(e) \in ToSet(t)
    <3>1. PICK i \in 1 .. j - m - 1 : t[i] = REMOVE(e)
      BY <2>1, <2>3 DEF RemovalFirst
    <3>2. i + m \in 1 .. j - 1 /\ i + m \in 1 .. m + n /\ ~(i + m <= m) /\ i + m - m = i
      BY <1>1, <1>3, <1>6
    <3>3. u[i + m] = t[i]
      BY <1>1, <3>2
    <3> QED
      BY <3>1, <3>2, <3>3
  <2> QED
    BY <1>2, <2>2, <2>3
<1> QED
  BY <1>1, <1>3, <1>5, <1>6

\* A list in order stays so when an entry is taken away: an addition, or the last removal
\* of its element.
LEMMA RemovalFirstRemoveAt ==
    ASSUME NEW s \in Seq(Entries), NEW k \in 1 .. Len(s), RemovalFirst(s),
           \A e \in Elements : s[k] = REMOVE(e) => REMOVE(e) \notin ToSet(RemoveAt(s, k))
    PROVE  /\ RemovalFirst(RemoveAt(s, k))
           /\ ToSet(RemoveAt(s, k)) \subseteq ToSet(s)
           /\ Len(RemoveAt(s, k)) \in Nat /\ Len(RemoveAt(s, k)) <= Len(s)
           /\ \A i \in 1 .. k - 1 : i <= Len(RemoveAt(s, k)) => RemoveAt(s, k)[i] = s[i]
<1> DEFINE n == Len(s)
           u == RemoveAt(s, k)
<1>1. /\ n \in Nat /\ k \in 1 .. n /\ DOMAIN s = 1 .. n
      /\ u \in Seq(Entries) /\ Len(u) = n - 1 /\ DOMAIN u = 1 .. n - 1
      /\ \A j \in 1 .. n - 1 : u[j] = IF j < k THEN s[j] ELSE s[j + 1]
  BY LenProperties, RemoveAtProperties
<1> HIDE DEF n, u
<1>2. ASSUME NEW j \in 1 .. n - 1
      PROVE  \E i \in 1 .. n : /\ i = IF j < k THEN j ELSE j + 1
                               /\ i # k /\ u[j] = s[i]
  BY <1>1
<1>3. ASSUME NEW i \in 1 .. n, i # k
      PROVE  \E j \in 1 .. n - 1 : j = (IF i < k THEN i ELSE i - 1) /\ u[j] = s[i]
  <2>1. CASE i < k
    BY <1>1, <2>1
  <2>2. CASE i > k
    <3>1. i - 1 \in 1 .. n - 1 /\ ~(i - 1 < k) /\ i - 1 + 1 = i /\ ~(i < k)
      BY <1>1, <2>2
    <3>2. u[i - 1] = s[i]
      BY <1>1, <3>1
    <3> QED
      BY <3>1, <3>2
  <2> QED
    BY <1>1, <1>3, <2>1, <2>2
<1>4. ToSet(u) \subseteq ToSet(s)
  <2>1. ToSet(u) = {u[j] : j \in 1 .. n - 1} /\ ToSet(s) = {s[i] : i \in 1 .. n}
    BY <1>1 DEF ToSet
  <2>2. ASSUME NEW j \in 1 .. n - 1 PROVE \E i \in 1 .. n : u[j] = s[i]
    BY <1>2
  <2> QED
    BY <2>1, <2>2
<1>5. ASSUME NEW e \in Elements, NEW j \in DOMAIN u, u[j] = ADD(e), REMOVE(e) \in ToSet(u)
      PROVE  \E i \in 1 .. j - 1 : u[i] = REMOVE(e)
  <2>1. PICK p \in 1 .. n : p = (IF j < k THEN j ELSE j + 1) /\ s[p] = ADD(e)
    BY <1>1, <1>2, <1>5
  <2>2. PICK q \in 1 .. p - 1 : s[q] = REMOVE(e)
    BY <1>1, <1>4, <1>5, <2>1 DEF RemovalFirst
  <2>3. q # k
    BY <1>5, <2>2 DEF u
  <2>4. q \in 1 .. n
    BY <1>1, <2>1, <2>2
  <2>5. PICK i \in 1 .. n - 1 : i = (IF q < k THEN q ELSE q - 1) /\ u[i] = s[q]
    BY <1>3, <2>3, <2>4
  <2>6. i \in 1 .. j - 1
    <3>1. j \in 1 .. n - 1
      BY <1>1
    <3> QED
      BY <1>1, <2>1, <2>2, <2>3, <2>5, <3>1
  <2> QED
    BY <2>2, <2>5, <2>6
<1>6. RemovalFirst(u)
  BY <1>5 DEF RemovalFirst
<1>7. \A i \in 1 .. k - 1 : i <= n - 1 => u[i] = s[i]
  BY <1>1
<1>8. n - 1 \in Nat /\ n - 1 <= n
  BY <1>1
<1> QED
  BY <1>1, <1>4, <1>6, <1>7, <1>8 DEF n, u

\* In the pairs of a scan, every addition has its removal before it.
LEMMA LostInOrder ==
    ASSUME mActiveConfig \in Seq(Elements)
    PROVE  RemovalFirst(scanForLostDependencies)
<1> DEFINE n == Len(mActiveConfig)
           active == mActiveConfig
           ss == [i \in DOMAIN active |->
                    IF isSatisfied(active[i]) THEN <<>> ELSE Pair(active[i])]
           Paired(s) == \A e \in Elements, j \in DOMAIN s :
                           s[j] = ADD(e) => \E i \in 1 .. j - 1 : s[i] = REMOVE(e)
<1>1. n \in Nat /\ DOMAIN active = 1 .. n /\ \A i \in 1 .. n : active[i] \in Elements
  BY LenProperties
<1>2. \A i \in 1 .. n : ss[i] \in Seq(Entries)
  BY <1>1, PairProperties, EmptySeq
<1>3. ss \in Seq(Seq(Entries)) /\ Len(ss) = n
  <2>1. ss \in [1 .. n -> Seq(Entries)]
    BY <1>1, <1>2
  <2> HIDE DEF ss, n
  <2> QED
    BY <1>1, <2>1, SeqDef, LenProperties
<1>4. \A i \in 1 .. n :
         ss[i] = IF isSatisfied(active[i]) THEN <<>> ELSE Pair(active[i])
  BY <1>1
<1>5. scanForLostDependencies = FlattenSeq(ss)
  BY DEF scanForLostDependencies
<1> HIDE DEF n, active, ss
<1>6. PICK part \in [0 .. n -> Seq(Entries)] :
         /\ part[0] = <<>>
         /\ \A i \in 1 .. n : part[i] = part[i - 1] \o ss[i]
         /\ FlattenSeq(ss) = part[n]
  BY <1>3, FlattenSeqParts
<1>7. Paired(<<>>)
  OBVIOUS
<1>8. ASSUME NEW a \in Elements PROVE Paired(Pair(a))
  <2> SUFFICES ASSUME NEW e \in Elements, NEW j \in DOMAIN Pair(a), Pair(a)[j] = ADD(e)
               PROVE  \E i \in 1 .. j - 1 : Pair(a)[i] = REMOVE(e)
    OBVIOUS
  <2>1. DOMAIN Pair(a) = 1 .. 2 /\ Pair(a)[1] = REMOVE(a) /\ Pair(a)[2] = ADD(a)
    BY DEF Pair
  <2>2. j = 2 /\ a = e
    BY <2>1 DEF ADD, REMOVE
  <2>3. 1 \in 1 .. j - 1
    BY <2>2
  <2> QED
    BY <2>1, <2>2, <2>3
<1>9. ASSUME NEW s \in Seq(Entries), NEW t \in Seq(Entries), Paired(s), Paired(t)
      PROVE  Paired(s \o t)
  <2> DEFINE k == Len(s)
             l == Len(t)
             u == s \o t
  <2>1. /\ k \in Nat /\ l \in Nat
        /\ DOMAIN s = 1 .. k /\ DOMAIN t = 1 .. l /\ DOMAIN u = 1 .. k + l
        /\ \A i \in 1 .. k + l : u[i] = IF i <= k THEN s[i] ELSE t[i - k]
    BY LenProperties, ConcatProperties
  <2> HIDE DEF k, l, u
  <2>2. ASSUME NEW e \in Elements, NEW j \in DOMAIN u, u[j] = ADD(e)
        PROVE  \E i \in 1 .. j - 1 : u[i] = REMOVE(e)
    <3>1. j \in 1 .. k + l
      BY <2>1
    <3>2. CASE j <= k
      <4>1. j \in DOMAIN s /\ s[j] = ADD(e)
        BY <2>1, <2>2, <3>1, <3>2
      <4>2. PICK i \in 1 .. j - 1 : s[i] = REMOVE(e)
        BY <1>9, <4>1
      <4>3. i \in 1 .. k + l /\ i <= k
        BY <2>1, <3>1, <3>2
      <4> QED
        BY <2>1, <4>2, <4>3
    <3>3. CASE j > k
      <4>1. j - k \in 1 .. l /\ ~(j <= k)
        BY <2>1, <3>1, <3>3
      <4>2. j - k \in DOMAIN t /\ t[j - k] = ADD(e)
        BY <2>1, <2>2, <3>1, <4>1
      <4>3. PICK i \in 1 .. j - k - 1 : t[i] = REMOVE(e)
        BY <1>9, <4>2
      <4>4. i + k \in 1 .. j - 1 /\ i + k \in 1 .. k + l /\ ~(i + k <= k) /\ i + k - k = i
        BY <2>1, <3>1, <3>3
      <4>5. u[i + k] = t[i]
        BY <2>1, <4>4
      <4> QED
        BY <4>3, <4>4, <4>5
    <3> QED
      BY <2>1, <3>1, <3>2, <3>3
  <2> QED
    BY <2>2 DEF u
<1> HIDE DEF Paired
<1> DEFINE S == {k \in Nat : k <= n => Paired(part[k])}
<1>10. 0 \in S
  BY <1>6, <1>7
<1>11. ASSUME NEW k \in Nat, k \in S PROVE k + 1 \in S
  <2> SUFFICES ASSUME k + 1 <= n PROVE Paired(part[k + 1])
    OBVIOUS
  <2> DEFINE j == k + 1
  <2>1. j \in 1 .. n /\ j - 1 = k /\ k \in 0 .. n /\ k <= n
    BY <1>1
  <2>2. Paired(part[k])
    BY <1>11, <2>1
  <2> HIDE DEF j
  <2>3. part[j] = part[k] \o ss[j] /\ part[k] \in Seq(Entries) /\ ss[j] \in Seq(Entries)
    BY <1>2, <1>6, <2>1
  <2>4. Paired(ss[j])
    <3>1. active[j] \in Elements
      BY <1>1, <2>1
    <3>2. ss[j] = <<>> \/ ss[j] = Pair(active[j])
      BY <1>4, <2>1
    <3> QED
      BY <1>7, <1>8, <3>1, <3>2
  <2>5. Paired(part[j])
    BY <1>9, <2>2, <2>3, <2>4
  <2> QED
    BY <2>5 DEF j
<1> HIDE DEF S
<1>12. n \in S
  <2>1. \A k \in Nat : k \in S => k + 1 \in S
    BY <1>11
  <2>2. Nat \subseteq S
    BY <1>10, <2>1, NatSetInduction
  <2> QED
    BY <1>1, <2>2
<1>13. Paired(part[n])
  BY <1>1, <1>12 DEF S
<1> QED
  BY <1>5, <1>6, <1>13 DEF Paired, RemovalFirst

\* What HandledTogether says of its pairs.
LEMMA TogetherPairs ==
    ASSUME HandledTogether
    PROVE  /\ \A e \in Elements : <<e, e>> \in Together
           /\ \A d, e \in Elements : <<d, e>> \in Together =>
                 /\ <<e, d>> \in Together
                 /\ \A h \in Handlers : d \in CanHandle[h] <=> e \in CanHandle[h]
                 /\ \A f, g \in Elements :
                       d \in DependsOn[f] /\ e \in DependsOn[g] => <<f, g>> \in Together
<1>1. LostTogether(Together)
  BY DEF HandledTogether, Together
<1> QED
  BY <1>1 DEF LostTogether

\* What the counts say of a list that holds a request, and of one that does not.
LEMMA OutWaits ==
    ASSUME TypeOK, NEW e \in Elements
    PROVE  /\ Out(e) <=> \/ REMOVE(e) \in ToSet(mPendingConfig)
                         \/ kpc # "clear" /\ REMOVE(e) \in ToSet(mIncomingConfig)
           /\ Adds(e) \in Nat /\ Removals(e) \in Nat /\ Copies(e) \in Nat
           /\ Adds(e) > 0 <=> \/ ADD(e) \in ToSet(mPendingConfig)
                              \/ kpc # "clear" /\ ADD(e) \in ToSet(mIncomingConfig)
           /\ Copies(e) > 0 <=> e \in ToSet(mActiveConfig)
  BY CountsAre DEF CountFacts, Out

\* With one removal of an element at most, and that of something active, it is active once.
LEMMA ActiveAtMostOnce ==
    ASSUME TypeOK, Balance, RemovedOnce, NEW e \in Elements
    PROVE  Copies(e) <= 1 /\ (~Out(e) /\ Copies(e) = 1 => Adds(e) = 0)
                          /\ (~Out(e) /\ Adds(e) > 0 => Copies(e) = 0)
<1>1. Adds(e) \in Nat /\ Removals(e) \in Nat /\ Copies(e) \in Nat
  BY OutWaits
<1>2. Copies(e) + Adds(e) = Removals(e) + IF e \in Wanted THEN 1 ELSE 0
  BY DEF Balance
<1>3. Removals(e) > 0 => Removals(e) = 1 /\ Copies(e) = 1
  BY DEF RemovedOnce, Out
<1> QED
  BY <1>1, <1>2, <1>3 DEF Out

\* CountInv is about the counts of removals, and what is active.
LEMMA CountInvSame ==
    ASSUME CountInv, UNCHANGED <<mActiveConfig, configured>>,
           \A d \in Elements : Removals(d)' = Removals(d)
    PROVE  CountInv'
<1>1. \A d \in Elements : Copies(d)' = Copies(d)
  BY DEF Copies
<1>2. \A d \in Elements : (Out(d)' <=> Out(d)) /\ (Lost(d)' <=> Lost(d))
  BY DEF Out, Lost, isSatisfied
<1>3. Held'
  BY DEF CountInv, Held
<1>4. RemovedOnce'
  BY <1>1, <1>2 DEF CountInv, RemovedOnce
<1>5. OutAreTogether'
  BY <1>2 DEF CountInv, OutAreTogether
<1>6. LostAreTogether'
  BY <1>2 DEF CountInv, LostAreTogether
<1> QED
  BY <1>3, <1>4, <1>5, <1>6 DEF CountInv

\* What holds before a step.
Before == Calm /\ HandledTogether /\ IInv /\ TypeOK' /\ BalanceInv /\ HeldInv

\* A request leaves CountInv: nothing is on its way out, or lost, when a removal comes.
LEMMA RequestCounts == Before /\ Request => CountInv'
<1> SUFFICES ASSUME Before, Request PROVE CountInv'
  OBVIOUS
<1>1. PICK e \in Elements :
         /\ kpc # "clear"
         /\ UNCHANGED <<mPendingConfig, mActiveConfig, configured, kpc>>
         /\ \/ mIncomingConfig' = Append(mIncomingConfig, ADD(e))
            \/ /\ mIncomingConfig' = Append(mIncomingConfig, REMOVE(e))
               /\ e \in asked /\ swapping = {} /\ ~Waiting(e) /\ ~scan
               /\ \A d \in Elements : ~Removing(d)
  BY Asking DEF Before
<1>2. TypeOK /\ TypeOK' /\ CountInv /\ Balance
  BY DEF Before, IInv, HeldInv, BalanceInv
<1>3. CASE mIncomingConfig' = Append(mIncomingConfig, ADD(e))
  <2>1. \A d \in Elements : Removals(d)' = Removals(d) + IF FALSE THEN 1 ELSE 0
    BY <1>1, <1>2, <1>3, AskedCounts DEF ADD
  <2>2. ASSUME NEW d \in Elements PROVE Removals(d)' = Removals(d)
    <3>1. Removals(d) \in Nat
      BY <1>2, OutWaits
    <3> QED
      BY <2>1, <3>1
  <2> QED
    BY <1>1, <1>2, <2>2, CountInvSame
<1>4. CASE /\ mIncomingConfig' = Append(mIncomingConfig, REMOVE(e))
           /\ e \in asked /\ swapping = {} /\ ~Waiting(e) /\ ~scan
           /\ \A d \in Elements : ~Removing(d)
  <2>1. \A d \in Elements : /\ Removals(d)' = Removals(d) + IF d = e THEN 1 ELSE 0
                            /\ Copies(d)' = Copies(d)
    BY <1>1, <1>2, <1>4, AskedCounts DEF REMOVE
  <2>2. ToSet(mIncomingConfig \o mPendingConfig) =
           ToSet(mIncomingConfig) \cup ToSet(mPendingConfig)
    BY <1>2, ToSetConcat DEF TypeOK
  <2>3. \A d \in Elements : REMOVE(d) \notin ToSet(mIncomingConfig)
                            /\ REMOVE(d) \notin ToSet(mPendingConfig)
    BY <1>4, <2>2 DEF Removing
  <2>4. ADD(e) \notin ToSet(mIncomingConfig) /\ ADD(e) \notin ToSet(mPendingConfig)
    BY <1>4, <2>2 DEF Waiting, ADD
  <2>5. ASSUME NEW d \in Elements PROVE ~Out(d) /\ Removals(d) = 0
    <3>1. ~Out(d) /\ Removals(d) \in Nat
      BY <1>2, <2>3, OutWaits
    <3> QED
      BY <3>1 DEF Out
  <2>6. Copies(e) = 1
    <3>1. Adds(e) \in Nat /\ Copies(e) \in Nat /\ ~(Adds(e) > 0)
      BY <1>2, <2>4, OutWaits
    <3>2. Copies(e) + Adds(e) = Removals(e) + 1
      BY <1>2, <1>4 DEF Balance, Wanted
    <3> QED
      BY <2>5, <3>1, <3>2
  <2>7. ASSUME NEW d \in Elements
        PROVE  (Out(d)' <=> d = e) /\ (d = e => Removals(d)' = 1 /\ Copies(d)' = 1)
    BY <2>1, <2>5, <2>6 DEF Out
  <2>8. ASSUME NEW d \in Elements PROVE ~Lost(d)'
    <3>1. d \in ToSet(mActiveConfig) => isSatisfied(d)
      BY <1>4, <2>3 DEF Before, IInv, LostHaveRemovals
    <3> QED
      BY <1>1, <3>1 DEF Lost, isSatisfied
  <2>9. Held'
    BY <1>1, <1>2 DEF CountInv, Held
  <2>10. RemovedOnce'
    BY <2>7 DEF RemovedOnce
  <2>11. OutAreTogether'
    BY <2>7, TogetherPairs DEF OutAreTogether, Before
  <2>12. LostAreTogether'
    BY <2>8 DEF LostAreTogether
  <2> QED
    BY <2>9, <2>10, <2>11, <2>12 DEF CountInv
<1> QED
  BY <1>1, <1>3, <1>4

\* What a handler adds is not on its way out: it has passed over the removals before it.
LEMMA AddedIsNew ==
    ASSUME Before, configAdd, NEW e \in Elements, e = Element
    PROVE  ~Out(e) /\ Copies(e) = 0
<1>1. TypeOK /\ ListInv /\ CountInv /\ Balance
  BY DEF Before, IInv, HeldInv, BalanceInv
<1>2. /\ Looking /\ e \in CanHandle[mElementHandlers[handler]]
      /\ pos \in 1 .. Len(mPendingConfig) /\ mPendingConfig[pos] = ADD(e)
      /\ DOMAIN mPendingConfig = 1 .. Len(mPendingConfig)
  BY <1>1, LookedAt, LenProperties DEF configAdd, CanHandleIt, ADD, TypeOK
<1>3. ADD(e) \in ToSet(mPendingConfig)
  BY <1>2 DEF ToSet
<1>4. ~Out(e)
  <2> SUFFICES ASSUME Out(e) PROVE FALSE
    OBVIOUS
  <2>1. REMOVE(e) \in ToSet(mPendingConfig)
    <3>1. kpc # "clear" => REMOVE(e) \notin ToSet(mIncomingConfig)
      BY <1>1, <1>3 DEF ListInv, RemovalsComeAlone
    <3> QED
      BY <1>1, <3>1, OutWaits
  <2>2. PICK i \in 1 .. pos - 1 : mPendingConfig[i] = REMOVE(e)
    BY <1>1, <1>2, <2>1 DEF ListInv, RemovalsFirst, RemovalFirst
  <2>3. i <= Len(mPendingConfig)
    <3>1. Len(mPendingConfig) \in Nat /\ pos \in 1 .. Len(mPendingConfig)
      BY <1>1, <1>2, LenProperties DEF TypeOK
    <3> QED
      BY <3>1
  <2>4. kpc = "pass"
    BY <1>2 DEF Looking
  <2> QED
    BY <1>1, <1>2, <2>2, <2>3, <2>4 DEF ListInv, RemovalsPassed
<1>5. Adds(e) > 0
  BY <1>1, <1>3, OutWaits
<1> QED
  BY <1>1, <1>4, <1>5, ActiveAtMostOnce DEF CountInv

\* An addition leaves CountInv: fewer elements have lost something after it.
LEMMA AdditionKeepsCounts == Before /\ configAdd => CountInv'
<1> SUFFICES ASSUME Before, configAdd PROVE CountInv'
  OBVIOUS
<1>1. TypeOK /\ TypeOK' /\ CountInv
  BY DEF Before, IInv, HeldInv
<1>2. PICK e \in Elements : e = Element /\ isSatisfied(e)
  BY <1>1, LookedAt DEF configAdd
<1>3. ~Out(e) /\ Copies(e) = 0
  BY <1>2, AddedIsNew
<1>4. \A d \in Elements : /\ Removals(d)' = Removals(d)
                          /\ Copies(d)' = Copies(d) + IF d = e THEN 1 ELSE 0
  BY <1>1, <1>2, AddedCounts
<1>5. ToSet(mActiveConfig)' = ToSet(mActiveConfig) \cup {e} /\ configured' = configured \cup {e}
  <2>1. ToSet(Append(mActiveConfig, e)) = ToSet(mActiveConfig) \cup {e}
    BY <1>1, ToSetAppend DEF TypeOK
  <2>2. mActiveConfig' = Append(mActiveConfig, e) /\ configured' = configured \cup {e}
    BY <1>2 DEF configAdd
  <2> QED
    BY <2>1, <2>2
<1>6. \A d \in Elements : Out(d)' <=> Out(d)
  BY <1>4 DEF Out
<1>7. ASSUME NEW d \in Elements PROVE Lost(d)' => Lost(d)
  <2>1. isSatisfied(d) => isSatisfied(d)'
    BY <1>5 DEF isSatisfied
  <2> QED
    BY <1>2, <1>5, <1>6, <2>1 DEF Lost
<1>8. Held'
  BY <1>1, <1>5 DEF CountInv, Held
<1>9. RemovedOnce'
  <2> SUFFICES ASSUME NEW d \in Elements, Out(d)' PROVE Removals(d)' = 1 /\ Copies(d)' = 1
    BY DEF RemovedOnce
  <2>1. Removals(d) = 1 /\ Copies(d) = 1 /\ d # e
    BY <1>1, <1>3, <1>6 DEF CountInv, RemovedOnce
  <2> QED
    BY <1>4, <2>1
<1>10. OutAreTogether'
  BY <1>1, <1>6 DEF CountInv, OutAreTogether
<1>11. LostAreTogether'
  BY <1>1, <1>6, <1>7 DEF CountInv, LostAreTogether
<1> QED
  BY <1>8, <1>9, <1>10, <1>11 DEF CountInv

\* A removal leaves CountInv: what it makes lose a dependency is handled together with what
\* has lost one to a removal before it.
LEMMA RemovalKeepsCounts == Before /\ configRemove => CountInv'
<1> SUFFICES ASSUME Before, configRemove PROVE CountInv'
  OBVIOUS
<1>1. TypeOK /\ TypeOK' /\ CountInv
  BY DEF Before, IInv, HeldInv
<1>2. PICK e \in Elements : e = Element /\ configured' = configured \ {e}
  BY <1>1, LookedAt DEF configRemove
<1>3. /\ Removals(e) > 0
      /\ \A d \in Elements :
            /\ Removals(d)' = Removals(d) - IF d = e THEN 1 ELSE 0
            /\ Copies(d)' = Copies(d) - IF d = e /\ Copies(d) > 0 THEN 1 ELSE 0
  BY <1>1, <1>2, RemovedCounts
<1>4. Out(e) /\ Removals(e) = 1 /\ Copies(e) = 1
  BY <1>1, <1>3 DEF Out, CountInv, RemovedOnce
<1>5. ASSUME NEW d \in Elements
      PROVE  /\ Removals(d) \in Nat /\ Copies(d) \in Nat
             /\ Copies(d) > 0 <=> d \in ToSet(mActiveConfig)
             /\ Copies(d)' > 0 <=> d \in ToSet(mActiveConfig)'
  BY <1>1, CountsAre, CountsAreNext DEF CountFacts
<1>6. ASSUME NEW d \in Elements
      PROVE  /\ Out(d)' <=> Out(d) /\ d # e
             /\ d # e => Removals(d)' = Removals(d) /\ Copies(d)' = Copies(d)
             /\ d \in ToSet(mActiveConfig)' <=> d \in ToSet(mActiveConfig) /\ d # e
  <2>1. CASE d = e
    <3>1. Removals(d)' = 0 /\ Copies(d)' = 0
      BY <1>3, <1>4, <2>1
    <3>2. ~Out(d)' /\ ~(Copies(d)' > 0)
      BY <3>1 DEF Out
    <3> QED
      BY <1>5, <2>1, <3>2
  <2>2. CASE d # e
    <3>1. Removals(d)' = Removals(d) /\ Copies(d)' = Copies(d)
      BY <1>3, <1>5, <2>2
    <3>2. Out(d)' <=> Out(d)
      BY <3>1 DEF Out
    <3> QED
      BY <1>5, <2>2, <3>1, <3>2
  <2> QED
    BY <2>1, <2>2
<1>7. ToSet(mActiveConfig)' = ToSet(mActiveConfig) \ {e}
  <2>1. mActiveConfig \in Seq(Elements) /\ mActiveConfig' \in Seq(Elements)
    BY <1>1 DEF TypeOK
  <2>2. ToSet(mActiveConfig) \subseteq Elements /\ ToSet(mActiveConfig)' \subseteq Elements
    BY <2>1, LenProperties DEF ToSet
  <2> QED
    BY <1>6, <2>2
<1>8. ASSUME NEW d \in Elements, Lost(d)'
      PROVE  d # e /\ ~Out(d) /\ (Lost(d) \/ e \in DependsOn[d])
  <2>1. d \in ToSet(mActiveConfig) /\ d # e /\ ~Out(d)
    BY <1>6, <1>8 DEF Lost
  <2>2. ~(DependsOn[d] \subseteq ToSet(mActiveConfig) \ {e})
    BY <1>7, <1>8 DEF Lost, isSatisfied
  <2>3. ~isSatisfied(d) \/ e \in DependsOn[d]
    BY <2>2 DEF isSatisfied
  <2> QED
    BY <2>1, <2>3 DEF Lost
<1>9. /\ \A d \in Elements : DependsOn[d] \subseteq Elements
      /\ \A d \in Elements : <<d, d>> \in Together
      /\ \A d, f \in Elements : <<d, f>> \in Together =>
            /\ <<f, d>> \in Together
            /\ \A g, h \in Elements :
                  d \in DependsOn[g] /\ f \in DependsOn[h] => <<g, h>> \in Together
  BY TogetherPairs, DependsOnAssumption DEF Before
<1>10. ASSUME NEW f \in Elements, NEW g \in Elements, Lost(f), e \in DependsOn[g]
       PROVE  <<f, g>> \in Together /\ <<g, f>> \in Together
  <2>1. PICK d \in DependsOn[f] : <<d, e>> \in Together
    BY <1>1, <1>4, <1>10 DEF CountInv, LostAreTogether
  <2>2. d \in Elements
    BY <1>9
  <2>3. <<f, g>> \in Together
    BY <1>9, <1>10, <2>1, <2>2
  <2> QED
    BY <1>9, <2>3
<1>11. Held'
  BY <1>1, <1>2, <1>7 DEF CountInv, Held
<1>12. RemovedOnce'
  BY <1>1, <1>6 DEF CountInv, RemovedOnce
<1>13. OutAreTogether'
  BY <1>1, <1>6 DEF CountInv, OutAreTogether
<1>14. LostAreTogether'
  <2>1. ASSUME NEW f \in Elements, NEW g \in Elements, Lost(f)', Lost(g)'
        PROVE  <<f, g>> \in Together
    <3>1. (Lost(f) \/ e \in DependsOn[f]) /\ (Lost(g) \/ e \in DependsOn[g])
      BY <1>8, <2>1
    <3>2. CASE Lost(f) /\ Lost(g)
      BY <1>1, <3>2 DEF CountInv, LostAreTogether
    <3>3. CASE e \in DependsOn[f] /\ e \in DependsOn[g]
      BY <1>9, <3>3
    <3>4. CASE Lost(f) /\ e \in DependsOn[g]
      BY <1>10, <3>4
    <3>5. CASE Lost(g) /\ e \in DependsOn[f]
      BY <1>10, <3>5
    <3> QED
      BY <3>1, <3>2, <3>3, <3>4, <3>5
  <2>2. ASSUME NEW f \in Elements, NEW g \in Elements, Lost(f)', Out(g)'
        PROVE  \E d \in DependsOn[f] : <<d, g>> \in Together
    <3>1. (Lost(f) \/ e \in DependsOn[f]) /\ Out(g)
      BY <1>6, <1>8, <2>2
    <3>2. CASE Lost(f)
      BY <1>1, <3>1, <3>2 DEF CountInv, LostAreTogether
    <3>3. CASE e \in DependsOn[f]
      <4>1. <<e, g>> \in Together
        BY <1>1, <1>4, <3>1 DEF CountInv, OutAreTogether
      <4> QED
        BY <3>3, <4>1
    <3> QED
      BY <3>1, <3>2, <3>3
  <2> QED
    BY <2>1, <2>2 DEF LostAreTogether
<1> QED
  BY <1>11, <1>12, <1>13, <1>14 DEF CountInv

\* Nothing is left to be removed when a scan starts: the handler that has removed something
\* has been at the end of the list.
LEMMA NothingOutAtScan ==
    ASSUME Before, HandlerDone, scan, NEW e \in Elements
    PROVE  ~Out(e)
<1>1. TypeOK /\ ListInv /\ kpc = "pass" /\ pos > Len(mPendingConfig)
  BY DEF Before, IInv, HeldInv, HandlerDone
<1> SUFFICES ASSUME Out(e) PROVE FALSE
  OBVIOUS
<1>2. REMOVE(e) \notin ToSet(mIncomingConfig)
  BY <1>1 DEF ListInv, RemovalsComeAlone
<1>3. REMOVE(e) \in ToSet(mPendingConfig)
  BY <1>1, <1>2, OutWaits
<1>4. /\ Len(mPendingConfig) \in Nat /\ pos \in Nat
      /\ DOMAIN mPendingConfig = 1 .. Len(mPendingConfig)
  BY <1>1, LenProperties DEF TypeOK
<1>5. PICK i \in 1 .. Len(mPendingConfig) : mPendingConfig[i] = REMOVE(e)
  BY <1>3, <1>4 DEF ToSet
<1>6. i \in 1 .. pos - 1 /\ i <= Len(mPendingConfig)
  BY <1>1, <1>4
<1>7. e \notin CanHandle[mElementHandlers[handler]]
  BY <1>1, <1>5, <1>6 DEF ListInv, RemovalsPassed
<1> QED
  BY <1>1, <1>7 DEF ListInv, ScanIsOfHandler

\* A scan leaves CountInv: what it has removed is active once, and handled together.
LEMMA ScanKeepsCounts == Before /\ HandlerDone /\ scan => CountInv'
<1> SUFFICES ASSUME Before, HandlerDone, scan PROVE CountInv'
  OBVIOUS
<1>1. TypeOK /\ TypeOK' /\ CountInv /\ Balance
  BY DEF Before, IInv, HeldInv, BalanceInv
<1>2. \A d \in Elements :
         /\ Removals(d)' = IF isSatisfied(d) THEN Removals(d) ELSE Removals(d) + Copies(d)
         /\ Copies(d)' = Copies(d)
  BY <1>1, ScannedCounts
<1>3. UNCHANGED <<mActiveConfig, configured>>
  BY DEF HandlerDone
<1>4. ASSUME NEW d \in Elements
      PROVE  /\ Out(d)' <=> Lost(d)
             /\ Out(d)' => Removals(d)' = 1 /\ Copies(d)' = 1
             /\ ~Lost(d)'
  <2>1. ~Out(d)
    BY NothingOutAtScan
  <2>2. /\ Removals(d) \in Nat /\ Copies(d) \in Nat
        /\ Copies(d) > 0 <=> d \in ToSet(mActiveConfig)
    BY <1>1, OutWaits
  <2>3. Copies(d) <= 1
    BY <1>1, ActiveAtMostOnce DEF CountInv
  <2>4. Removals(d) = 0
    BY <2>1, <2>2 DEF Out
  <2>5. Removals(d)' = IF isSatisfied(d) THEN 0 ELSE Copies(d)
    BY <1>2, <2>2, <2>4
  <2>6. (Removals(d)' > 0 <=> ~isSatisfied(d) /\ Copies(d) > 0)
        /\ (Removals(d)' > 0 => Removals(d)' = 1 /\ Copies(d)' = 1)
    BY <1>2, <2>2, <2>3, <2>5
  <2>7. Out(d)' <=> Lost(d)
    BY <2>1, <2>2, <2>6 DEF Out, Lost
  <2>8. Lost(d)' => Lost(d)
    BY <1>3, <2>1 DEF Lost, isSatisfied
  <2>9. ~Lost(d)'
    BY <2>7, <2>8 DEF Lost
  <2> QED
    BY <2>6, <2>7, <2>9 DEF Out
<1>5. Held'
  BY <1>1, <1>3 DEF CountInv, Held
<1>6. RemovedOnce'
  BY <1>4 DEF RemovedOnce
<1>7. OutAreTogether'
  BY <1>1, <1>4 DEF CountInv, LostAreTogether, OutAreTogether
<1>8. LostAreTogether'
  BY <1>4 DEF LostAreTogether
<1> QED
  BY <1>5, <1>6, <1>7, <1>8 DEF CountInv

\* Every step keeps CountInv.
LEMMA CountSteps == Before /\ [Next]_vars => CountInv'
<1>1. ASSUME Before, [Next]_vars,
             ~Request, ~configAdd, ~configRemove, ~(HandlerDone /\ scan)
      PROVE  CountInv'
  <2>1. Calm /\ NotClosing /\ TypeOK /\ TypeOK' /\ CountInv
    BY <1>1 DEF Before, IInv, HeldInv, BalanceInv
  <2>2. /\ \A d \in Elements : Removals(d)' = Removals(d)
        /\ UNCHANGED <<mActiveConfig, configured>>
    BY <1>1, <2>1, OtherCounts
  <2> QED
    BY <2>1, <2>2, CountInvSame
<1> QED
  BY <1>1, RequestCounts, AdditionKeepsCounts, RemovalKeepsCounts, ScanKeepsCounts

\* ListInv is about the two lists, what is to be removed, and where the pass is.
LEMMA ListInvSame ==
    ASSUME ListInv,
           UNCHANGED <<mIncomingConfig, mPendingConfig, mElementHandlers, handler>>,
           scan' = FALSE \/ scan' = scan,
           \A d \in Elements : Out(d)' <=> Out(d),
           kpc' = "clear" \/ kpc # "clear",
           kpc' # "pass" \/ pos' = 1 \/ (kpc = "pass" /\ pos' = pos)
    PROVE  ListInv'
<1>1. ScanIsOfHandler'
  BY DEF ListInv, ScanIsOfHandler
<1>2. RemovalsComeAlone'
  BY DEF ListInv, RemovalsComeAlone
<1>3. RemovalsFirst'
  BY DEF ListInv, RemovalsFirst
<1>4. RemovalsPassed'
  BY DEF ListInv, RemovalsPassed
<1> QED
  BY <1>1, <1>2, <1>3, <1>4 DEF ListInv

\* A request leaves ListInv: a removal is asked for when nothing else is on its way.
LEMMA RequestKeepsLists == Before /\ Request => ListInv'
<1> SUFFICES ASSUME Before, Request PROVE ListInv'
  OBVIOUS
<1>1. TypeOK /\ TypeOK' /\ ListInv
  BY DEF Before, IInv, HeldInv
<1>2. PICK e \in Elements :
         /\ kpc # "clear"
         /\ UNCHANGED <<mPendingConfig, mElementHandlers, kpc, handler, pos, scan>>
         /\ \/ mIncomingConfig' = Append(mIncomingConfig, ADD(e))
            \/ /\ mIncomingConfig' = Append(mIncomingConfig, REMOVE(e))
               /\ ~Waiting(e) /\ ~scan /\ \A d \in Elements : ~Removing(d)
  BY Asking DEF Before
<1>3. mIncomingConfig \in Seq(Entries) /\ mPendingConfig \in Seq(Entries)
      /\ ADD(e) \in Entries /\ REMOVE(e) \in Entries
      /\ RemovalFirst(mIncomingConfig) /\ RemovalFirst(mPendingConfig)
  BY <1>1, EntriesAreRequests DEF TypeOK, ListInv, RemovalsFirst
<1>4. RemovalsPassed'
  BY <1>1, <1>2 DEF ListInv, RemovalsPassed
<1>5. CASE mIncomingConfig' = Append(mIncomingConfig, ADD(e))
  <2>1. ToSet(mIncomingConfig') = ToSet(mIncomingConfig) \cup {ADD(e)}
    BY <1>3, <1>5, ToSetAppend
  <2>2. \A d \in Elements : REMOVE(d) \in ToSet(mIncomingConfig')
                               <=> REMOVE(d) \in ToSet(mIncomingConfig)
    BY <2>1, EntriesDiffer
  <2>3. \A d \in Elements : Out(d)' <=> Out(d)
    <3>1. \A d \in Elements : Removals(d)' = Removals(d) + IF FALSE THEN 1 ELSE 0
      <4>1. UNCHANGED mActiveConfig
        BY Asking DEF Before
      <4> QED
        BY <1>1, <1>2, <1>5, <4>1, AskedCounts DEF ADD
    <3>2. \A d \in Elements : Removals(d) \in Nat
      BY <1>1, OutWaits
    <3> QED
      BY <3>1, <3>2 DEF Out
  <2>4. ScanIsOfHandler'
    BY <1>1, <1>2, <2>3 DEF ListInv, ScanIsOfHandler
  <2>5. RemovalsComeAlone'
    BY <1>1, <1>2, <2>2 DEF ListInv, RemovalsComeAlone
  <2>6. RemovalsFirst'
    <3>1. <<ADD(e)>> \in Seq(Entries) /\ mIncomingConfig' = mIncomingConfig \o <<ADD(e)>>
      <4>1. <<ADD(e)>> \in Seq(Entries)
        BY <1>3
      <4>2. Append(mIncomingConfig, ADD(e)) = mIncomingConfig \o <<ADD(e)>>
        BY <1>3, AppendIsConcat
      <4> QED
        BY <1>5, <4>1, <4>2
    <3>2. RemovalFirst(<<ADD(e)>>)
      BY RemovalFirstShort
    <3>3. \A d \in Elements : REMOVE(d) \notin ToSet(<<ADD(e)>>)
      BY DEF ToSet, ADD, REMOVE
    <3>4. RemovalFirst(mIncomingConfig \o <<ADD(e)>>)
      BY <1>3, <3>1, <3>2, <3>3, RemovalFirstConcat
    <3>5. RemovalFirst(mIncomingConfig') /\ RemovalFirst(mPendingConfig')
      BY <1>2, <1>3, <3>1, <3>4
    <3> QED
      BY <3>5 DEF RemovalsFirst, RemovalFirst
  <2> QED
    BY <1>4, <2>4, <2>5, <2>6 DEF ListInv
<1>6. CASE /\ mIncomingConfig' = Append(mIncomingConfig, REMOVE(e))
           /\ ~Waiting(e) /\ ~scan /\ \A d \in Elements : ~Removing(d)
  <2>1. ToSet(mIncomingConfig \o mPendingConfig) =
           ToSet(mIncomingConfig) \cup ToSet(mPendingConfig)
    BY <1>3, ToSetConcat
  <2>2. \A d \in Elements : REMOVE(d) \notin ToSet(mIncomingConfig)
                            /\ REMOVE(d) \notin ToSet(mPendingConfig)
    BY <1>6, <2>1 DEF Removing
  <2>3. ADD(e) \notin ToSet(mIncomingConfig) /\ ADD(e) \notin ToSet(mPendingConfig)
    BY <1>6, <2>1 DEF Waiting, ADD
  <2>4. ToSet(mIncomingConfig') = ToSet(mIncomingConfig) \cup {REMOVE(e)}
    BY <1>3, <1>6, ToSetAppend
  <2>5. \A d \in Elements : REMOVE(d) \in ToSet(mIncomingConfig') => d = e
    BY <2>2, <2>4, EntriesDiffer
  <2>6. ScanIsOfHandler'
    BY <1>2, <1>6 DEF ScanIsOfHandler
  <2>7. RemovalsComeAlone'
    BY <1>2, <1>6, <2>2, <2>3, <2>5 DEF RemovalsComeAlone
  <2>8. RemovalsFirst'
    <3>1. /\ <<REMOVE(e)>> \in Seq(Entries)
          /\ mIncomingConfig' = mIncomingConfig \o <<REMOVE(e)>>
      <4>1. <<REMOVE(e)>> \in Seq(Entries)
        BY <1>3
      <4>2. Append(mIncomingConfig, REMOVE(e)) = mIncomingConfig \o <<REMOVE(e)>>
        BY <1>3, AppendIsConcat
      <4> QED
        BY <1>6, <4>1, <4>2
    <3>2. RemovalFirst(<<REMOVE(e)>>)
      BY RemovalFirstShort
    <3>3. \A d \in Elements : REMOVE(d) \in ToSet(<<REMOVE(e)>>) => d = e
      BY DEF ToSet, REMOVE
    <3>4. RemovalFirst(mIncomingConfig \o <<REMOVE(e)>>)
      BY <1>3, <2>3, <3>1, <3>2, <3>3, RemovalFirstConcat
    <3>5. RemovalFirst(mIncomingConfig') /\ RemovalFirst(mPendingConfig')
      BY <1>2, <1>3, <3>1, <3>4
    <3> QED
      BY <3>5 DEF RemovalsFirst, RemovalFirst
  <2> QED
    BY <1>4, <2>6, <2>7, <2>8 DEF ListInv
<1> QED
  BY <1>2, <1>5, <1>6

\* mergeIncomingToPending() leaves ListInv: what comes in removes nothing that is only
\* added before it.
LEMMA MergeKeepsLists == Before /\ (MergeIncoming \/ ClearIncoming) => ListInv'
<1> SUFFICES ASSUME Before, MergeIncoming \/ ClearIncoming PROVE ListInv'
  OBVIOUS
<1>1. TypeOK /\ TypeOK' /\ ListInv /\ ~scan
  BY DEF Before, IInv, HeldInv, ScanIsOfPass, MergeIncoming, ClearIncoming
<1>2. mIncomingConfig \in Seq(Entries) /\ mPendingConfig \in Seq(Entries)
      /\ RemovalFirst(mIncomingConfig) /\ RemovalFirst(mPendingConfig)
  BY <1>1 DEF TypeOK, ListInv, RemovalsFirst
<1>3. ~scan' /\ kpc' # "pass"
  BY <1>1 DEF MergeIncoming, ClearIncoming, passVars
<1>4. ScanIsOfHandler' /\ RemovalsPassed'
  BY <1>3 DEF ScanIsOfHandler, RemovalsPassed
<1>5. CASE MergeIncoming
  <2>1. /\ kpc # "clear" /\ kpc' = "clear" /\ mIncomingConfig' = mIncomingConfig
        /\ mPendingConfig' = mPendingConfig \o mIncomingConfig
    BY <1>5 DEF MergeIncoming
  <2>2. \A d \in Elements : REMOVE(d) \in ToSet(mIncomingConfig)
                               => ADD(d) \notin ToSet(mPendingConfig)
    BY <1>1, <2>1 DEF ListInv, RemovalsComeAlone
  <2>3. RemovalFirst(mPendingConfig \o mIncomingConfig)
    BY <1>2, <2>2, RemovalFirstConcat
  <2>4. RemovalFirst(mIncomingConfig') /\ RemovalFirst(mPendingConfig')
    BY <1>2, <2>1, <2>3
  <2>5. RemovalsFirst' /\ RemovalsComeAlone'
    BY <2>1, <2>4 DEF RemovalsFirst, RemovalFirst, RemovalsComeAlone
  <2> QED
    BY <1>4, <2>5 DEF ListInv
<1>6. CASE ClearIncoming
  <2>1. mIncomingConfig' = <<>> /\ mPendingConfig' = mPendingConfig
    BY <1>6 DEF ClearIncoming
  <2>2. RemovalFirst(mIncomingConfig') /\ RemovalFirst(mPendingConfig')
    BY <1>2, <2>1, RemovalFirstShort
  <2>3. ToSet(mIncomingConfig') = {}
    BY <2>1 DEF ToSet
  <2>4. RemovalsFirst' /\ RemovalsComeAlone'
    BY <2>2, <2>3 DEF RemovalsFirst, RemovalFirst, RemovalsComeAlone
  <2> QED
    BY <1>4, <2>4 DEF ListInv
<1> QED
  BY <1>5, <1>6

\* An entry of another handler, or that cannot be carried out, is no removal for this one.
LEMMA PassOverKeepsLists == Before /\ PassOver => ListInv'
<1> SUFFICES ASSUME Before, PassOver PROVE ListInv'
  OBVIOUS
<1>1. TypeOK /\ TypeOK' /\ ListInv /\ CountInv
  BY DEF Before, IInv, HeldInv
<1>2. /\ UNCHANGED <<mIncomingConfig, mPendingConfig, mElementHandlers, handler, scan, kpc>>
      /\ kpc = "pass" /\ handler <= Len(mElementHandlers) /\ pos' = pos + 1
  BY DEF PassOver, Looking, listVars
<1>3. \A d \in Elements : Out(d)' <=> Out(d)
  <2>1. UNCHANGED listVars
    BY DEF PassOver
  <2>2. \A d \in Elements : Removals(d)' = Removals(d)
    BY <1>1, <1>2, <2>1, UnchangedCounts, SameCounts
  <2> QED
    BY <2>2 DEF Out
<1>4. ScanIsOfHandler' /\ RemovalsComeAlone' /\ RemovalsFirst'
  BY <1>1, <1>2, <1>3 DEF ListInv, ScanIsOfHandler, RemovalsComeAlone, RemovalsFirst
<1>5. ASSUME NEW i \in 1 .. pos, NEW e \in Elements,
             i <= Len(mPendingConfig), mPendingConfig[i] = REMOVE(e)
      PROVE  e \notin CanHandle[mElementHandlers[handler]]
  <2>1. pos \in 1 .. Len(mPendingConfig) /\ mPendingConfig[pos] = <<Type, Element>>
        /\ DOMAIN mPendingConfig = 1 .. Len(mPendingConfig)
    BY <1>1, LookedAt, LenProperties DEF PassOver, TypeOK
  <2>2. CASE i = pos
    <3>1. Type = "REMOVE" /\ Element = e
      BY <1>5, <2>1, <2>2 DEF REMOVE
    <3>2. REMOVE(e) \in ToSet(mPendingConfig)
      BY <1>5, <2>1, <2>2 DEF ToSet
    <3>3. Out(e)
      BY <1>1, <3>2, OutWaits
    <3>4. Copies(e) = 1
      BY <1>1, <3>3 DEF CountInv, RemovedOnce
    <3>5. e \in ToSet(mActiveConfig)
      BY <1>1, <3>4, OutWaits
    <3>6. e \in configured
      BY <1>1, <3>5 DEF CountInv, Held
    <3> QED
      BY <3>1, <3>6 DEF PassOver, CanHandleIt
  <2>3. CASE i # pos
    <3>1. i \in 1 .. pos - 1
      BY <2>1, <2>3
    <3> QED
      BY <1>1, <1>2, <1>5, <3>1 DEF ListInv, RemovalsPassed
  <2> QED
    BY <2>2, <2>3
<1>6. RemovalsPassed'
  <2>1. pos' - 1 = pos
    BY <1>1, <1>2 DEF TypeOK
  <2> QED
    BY <1>2, <1>5, <2>1 DEF RemovalsPassed
<1> QED
  BY <1>4, <1>6 DEF ListInv

\* Taking the entry a handler is at off the pending list leaves the order, and what the
\* handler has passed over.
LEMMA TakenKeepsOrder ==
    ASSUME Before, Looking, removePending, UNCHANGED <<mIncomingConfig, mElementHandlers,
           kpc, handler, pos>>,
           \A e \in Elements : mPendingConfig[pos] = REMOVE(e) => ~Out(e)'
    PROVE  /\ RemovalsFirst' /\ RemovalsPassed'
           /\ ToSet(mPendingConfig') \subseteq ToSet(mPendingConfig)
<1>1. TypeOK /\ TypeOK' /\ ListInv
  BY DEF Before, IInv, HeldInv
<1>2. /\ mPendingConfig \in Seq(Entries) /\ pos \in 1 .. Len(mPendingConfig)
      /\ mPendingConfig' = RemoveAt(mPendingConfig, pos)
      /\ RemovalFirst(mPendingConfig) /\ RemovalFirst(mIncomingConfig)
      /\ kpc = "pass" /\ Len(mPendingConfig) \in Nat /\ pos \in Nat
  BY <1>1, LookedAt, LenProperties
     DEF TypeOK, removePending, ListInv, RemovalsFirst, Looking
<1>3. ASSUME NEW e \in Elements, mPendingConfig[pos] = REMOVE(e)
      PROVE  REMOVE(e) \notin ToSet(mPendingConfig')
  <2>1. REMOVE(e) \in ToSet(mPendingConfig') => Out(e)'
    BY <1>1, CountsAreNext DEF CountFacts, Out
  <2> QED
    BY <1>3, <2>1
<1>4. /\ RemovalFirst(RemoveAt(mPendingConfig, pos))
      /\ ToSet(RemoveAt(mPendingConfig, pos)) \subseteq ToSet(mPendingConfig)
      /\ Len(RemoveAt(mPendingConfig, pos)) \in Nat
      /\ Len(RemoveAt(mPendingConfig, pos)) <= Len(mPendingConfig)
      /\ \A i \in 1 .. pos - 1 : i <= Len(RemoveAt(mPendingConfig, pos))
                                    => RemoveAt(mPendingConfig, pos)[i] = mPendingConfig[i]
  BY <1>2, <1>3, RemovalFirstRemoveAt
<1>5. RemovalsFirst'
  <2>1. RemovalFirst(mIncomingConfig') /\ RemovalFirst(mPendingConfig')
    BY <1>2, <1>4
  <2> QED
    BY <2>1 DEF RemovalsFirst, RemovalFirst
<1>6. RemovalsPassed'
  <2> SUFFICES ASSUME NEW i \in 1 .. pos - 1, NEW e \in Elements,
                      i <= Len(mPendingConfig'), mPendingConfig'[i] = REMOVE(e)
               PROVE  /\ handler <= Len(mElementHandlers)
                      /\ e \notin CanHandle[mElementHandlers[handler]]
    BY DEF RemovalsPassed
  <2>1. mPendingConfig[i] = REMOVE(e)
    BY <1>2, <1>4
  <2>2. i <= Len(mPendingConfig)
    <3>1. i \in Nat /\ i <= pos - 1
      BY <1>2
    <3>2. pos <= Len(mPendingConfig)
      BY <1>2
    <3> QED
      BY <1>2, <3>1, <3>2
  <2> QED
    BY <1>1, <1>2, <2>1, <2>2 DEF ListInv, RemovalsPassed
<1> QED
  BY <1>2, <1>4, <1>5, <1>6

\* An addition leaves ListInv.
LEMMA AdditionKeepsLists == Before /\ configAdd => ListInv'
<1> SUFFICES ASSUME Before, configAdd PROVE ListInv'
  OBVIOUS
<1>1. TypeOK /\ TypeOK' /\ ListInv
  BY DEF Before, IInv, HeldInv
<1>2. /\ Looking /\ removePending
      /\ UNCHANGED <<mIncomingConfig, mElementHandlers, kpc, handler, pos, scan>>
      /\ mPendingConfig[pos] = ADD(Element) /\ Element \in Elements
  BY <1>1, LookedAt DEF configAdd, ADD
<1>3. \A d \in Elements : Out(d)' <=> Out(d)
  BY <1>1, <1>2, AddedCounts DEF Out
<1>4. /\ RemovalsFirst' /\ RemovalsPassed'
      /\ ToSet(mPendingConfig') \subseteq ToSet(mPendingConfig)
  BY <1>2, EntriesDiffer, TakenKeepsOrder
<1>5. ScanIsOfHandler'
  BY <1>1, <1>2, <1>3 DEF ListInv, ScanIsOfHandler
<1>6. RemovalsComeAlone'
  BY <1>1, <1>2, <1>4 DEF ListInv, RemovalsComeAlone
<1> QED
  BY <1>4, <1>5, <1>6 DEF ListInv

\* A removal leaves ListInv: the same handler is to remove what else is on its way out.
LEMMA RemovalKeepsLists == Before /\ configRemove => ListInv'
<1> SUFFICES ASSUME Before, configRemove PROVE ListInv'
  OBVIOUS
<1>1. TypeOK /\ TypeOK' /\ ListInv /\ CountInv
  BY DEF Before, IInv, HeldInv
<1>2. PICK e \in Elements : e = Element
  BY <1>1, LookedAt DEF configRemove
<1>3. /\ Looking /\ removePending
      /\ UNCHANGED <<mIncomingConfig, mElementHandlers, kpc, handler, pos>>
      /\ scan' = TRUE /\ kpc = "pass"
      /\ mPendingConfig[pos] = REMOVE(e) /\ e \in CanHandle[mElementHandlers[handler]]
  BY <1>1, <1>2, LookedAt DEF configRemove, REMOVE, CanHandleIt, Looking
<1>4. REMOVE(e) \in ToSet(mPendingConfig)
  <2>1. pos \in DOMAIN mPendingConfig
    BY <1>1, <1>3, LookedAt, LenProperties DEF TypeOK
  <2> QED
    BY <1>3, <2>1 DEF ToSet
<1>5. ASSUME NEW d \in Elements PROVE Out(d)' <=> Out(d) /\ d # e
  <2>1. /\ Removals(d)' = Removals(d) - IF d = e THEN 1 ELSE 0
        /\ Removals(e) > 0
    BY <1>1, <1>2, RemovedCounts
  <2>2. Removals(d) \in Nat /\ (Removals(d) > 0 => Removals(d) = 1)
    BY <1>1, OutWaits DEF CountInv, RemovedOnce, Out
  <2> QED
    BY <2>1, <2>2 DEF Out
<1>6. Out(e)
  BY <1>1, <1>4, OutWaits
<1>7. \A d \in Elements : mPendingConfig[pos] = REMOVE(d) => ~Out(d)'
  BY <1>3, <1>5, EntriesDiffer
<1>8. /\ RemovalsFirst' /\ RemovalsPassed'
      /\ ToSet(mPendingConfig') \subseteq ToSet(mPendingConfig)
  BY <1>3, <1>7, TakenKeepsOrder
<1>9. ScanIsOfHandler'
  <2>1. mElementHandlers[handler] \in Handlers
    <3>1. handler \in 1 .. Len(mElementHandlers) /\ mElementHandlers \in Seq(Handlers)
      BY <1>1, <1>3, LenProperties DEF Looking, TypeOK
    <3> QED
      BY <3>1, ElementOfSeq
  <2>2. ASSUME NEW d \in Elements, Out(d)' PROVE d \in CanHandle[mElementHandlers[handler]]
    <3>1. <<e, d>> \in Together
      BY <1>1, <1>5, <1>6, <2>2 DEF CountInv, OutAreTogether
    <3> QED
      BY <1>3, <2>1, <3>1, TogetherPairs DEF Before
  <2> QED
    BY <1>3, <2>2 DEF ScanIsOfHandler
<1>10. RemovalsComeAlone'
  BY <1>1, <1>2, <1>3, <1>4 DEF ListInv, RemovalsComeAlone
<1> QED
  BY <1>8, <1>9, <1>10 DEF ListInv

\* The end of a handler's list leaves ListInv: nothing that a scan has removed is waiting
\* to be added.
LEMMA HandlerDoneKeepsLists == Before /\ HandlerDone => ListInv'
<1> SUFFICES ASSUME Before, HandlerDone PROVE ListInv'
  OBVIOUS
<1>1. TypeOK /\ TypeOK' /\ ListInv /\ CountInv /\ Balance
  BY DEF Before, IInv, HeldInv, BalanceInv
<1>2. /\ UNCHANGED <<mIncomingConfig, mElementHandlers, kpc>> /\ kpc = "pass"
      /\ pos' = 1 /\ scan' = FALSE
      /\ mPendingConfig \in Seq(Entries) /\ mActiveConfig \in Seq(Elements)
      /\ RemovalFirst(mPendingConfig) /\ RemovalFirst(mIncomingConfig)
  BY <1>1 DEF HandlerDone, TypeOK, ListInv, RemovalsFirst
<1>3. ScanIsOfHandler' /\ RemovalsPassed'
  BY <1>2 DEF ScanIsOfHandler, RemovalsPassed
<1>4. CASE scan
  <2>1. mPendingConfig' = mPendingConfig \o scanForLostDependencies
    BY <1>4 DEF HandlerDone
  <2>2. /\ scanForLostDependencies \in Seq(Entries)
        /\ RemovalFirst(scanForLostDependencies)
    BY <1>2, LostPairs, LostInOrder
  <2>3. ASSUME NEW e \in Elements, REMOVE(e) \in ToSet(scanForLostDependencies)
        PROVE  ADD(e) \notin ToSet(mPendingConfig)
    <3>1. Occurrences(scanForLostDependencies, REMOVE(e)) > 0
      BY <2>2, <2>3, OccurrencesType
    <3>2. Occurrences(scanForLostDependencies, REMOVE(e)) =
             IF isSatisfied(e) THEN 0 ELSE Copies(e)
      BY <1>2, LostPairs DEF REMOVE
    <3>3. Copies(e) > 0
      BY <3>1, <3>2
    <3>4. Copies(e) = 1
      <4>1. Copies(e) \in Nat /\ Copies(e) <= 1
        BY <1>1, OutWaits, ActiveAtMostOnce DEF CountInv
      <4> QED
        BY <3>3, <4>1
    <3>5. ~Out(e)
      BY <1>4, NothingOutAtScan
    <3>6. Adds(e) = 0
      BY <1>1, <3>4, <3>5, ActiveAtMostOnce DEF CountInv
    <3>7. ~(Adds(e) > 0)
      BY <3>6
    <3> QED
      BY <1>1, <3>7, OutWaits
  <2>4. RemovalFirst(mPendingConfig \o scanForLostDependencies)
    BY <1>2, <2>2, <2>3, RemovalFirstConcat
  <2>5. RemovalFirst(mIncomingConfig') /\ RemovalFirst(mPendingConfig')
    BY <1>2, <2>1, <2>4
  <2>6. RemovalsFirst'
    BY <2>5 DEF RemovalsFirst, RemovalFirst
  <2>7. \A e \in Elements : REMOVE(e) \notin ToSet(mIncomingConfig')
    BY <1>1, <1>2, <1>4 DEF ListInv, RemovalsComeAlone
  <2>8. RemovalsComeAlone'
    BY <2>7 DEF RemovalsComeAlone
  <2> QED
    BY <1>3, <2>6, <2>8 DEF ListInv
<1>5. CASE ~scan
  <2>1. mPendingConfig' = mPendingConfig \o <<>>
    BY <1>5 DEF HandlerDone
  <2>2. mPendingConfig' = mPendingConfig
    BY <1>2, <2>1, ConcatEmptySeq
  <2>3. RemovalsFirst' /\ RemovalsComeAlone'
    BY <1>1, <1>2, <2>2 DEF ListInv, RemovalsFirst, RemovalsComeAlone
  <2> QED
    BY <1>3, <2>3 DEF ListInv
<1> QED
  BY <1>4, <1>5

\* Handlers come and go, and passes begin and end, when no scan is due.
LEMMA BetweenKeepsLists ==
    ASSUME Before,
           \/ shouldCheckPending \/ PassDone \/ UNCHANGED vars
           \/ \E h \in Handlers : addConfigElementHandler(h) \/ removeConfigElementHandler(h)
    PROVE  ListInv'
<1>1. TypeOK /\ TypeOK' /\ ListInv /\ ScanIsOfPass
  BY DEF Before, IInv, HeldInv
<1>2. UNCHANGED listVars /\ (kpc = "clear" <=> kpc' = "clear")
  BY DEF shouldCheckPending, PassDone, LoopLeft, vars, addConfigElementHandler,
     removeConfigElementHandler
<1>3. \A d \in Elements : Out(d)' <=> Out(d)
  <2>1. \A d \in Elements : Removals(d)' = Removals(d)
    BY <1>1, <1>2, UnchangedCounts, SameCounts
  <2> QED
    BY <2>1 DEF Out
<1>4. CASE UNCHANGED vars
  BY <1>1, <1>2, <1>3, <1>4, ListInvSame DEF vars, listVars, passVars
<1>5. ASSUME ~scan', kpc' # "pass" \/ pos' = 1, scan' = scan \/ kpc # "clear"
      PROVE  ListInv'
  <2>1. ScanIsOfHandler' /\ RemovalsPassed'
    BY <1>5 DEF ScanIsOfHandler, RemovalsPassed
  <2>2. RemovalsFirst' /\ RemovalsComeAlone'
    BY <1>1, <1>2, <1>5 DEF ListInv, RemovalsFirst, RemovalsComeAlone, listVars
  <2> QED
    BY <2>1, <2>2 DEF ListInv
<1>6. CASE shouldCheckPending
  BY <1>5, <1>6 DEF shouldCheckPending
<1>7. CASE PassDone
  <2>1. ~scan
    <3>1. Len(mElementHandlers) \in Nat /\ handler \in Nat
      BY <1>1, LenProperties DEF TypeOK
    <3> QED
      BY <1>1, <1>7, <3>1 DEF PassDone, ScanIsOfPass
  <2>2. scan' = scan /\ kpc' # "pass"
    BY <1>7 DEF PassDone, LoopLeft
  <2> QED
    BY <1>5, <2>1, <2>2
<1>8. ASSUME NEW h \in Handlers, addConfigElementHandler(h) \/ removeConfigElementHandler(h)
      PROVE  ListInv'
  <2>1. ~scan /\ scan' = scan /\ kpc' # "pass"
    BY <1>1, <1>8 DEF addConfigElementHandler, removeConfigElementHandler, ScanIsOfPass,
       passVars
  <2> QED
    BY <1>5, <2>1
<1> QED
  BY <1>4, <1>6, <1>7, <1>8

\* Every step keeps ListInv.
LEMMA ListSteps == Before /\ [Next]_vars => ListInv'
<1> SUFFICES ASSUME Before, [Next]_vars PROVE ListInv'
  OBVIOUS
<1>1. ~ClearAll
  BY DEF ClearAll, Before, BalanceInv, NotClosing
<1>2. ASSUME NEW attemptRemoval \in BOOLEAN PROVE ~shutdown(attemptRemoval)
  BY DEF Before, Calm, shutdown
<1>3. \/ Request \/ Attempt \/ UNCHANGED vars
      \/ \E h \in Handlers : addConfigElementHandler(h) \/ removeConfigElementHandler(h)
  BY <1>1, <1>2 DEF Next
<1> QED
  BY <1>3, RequestKeepsLists, MergeKeepsLists, PassOverKeepsLists, AdditionKeepsLists,
     RemovalKeepsLists, HandlerDoneKeepsLists, BetweenKeepsLists DEF Attempt

\* Of patient requesters, and elements that are handled together, the conjuncts of HeldInv
\* hold together in every state.
THEOREM HeldInvariance == Calm /\ HandledTogether /\ Spec => []HeldInv
<1> SUFFICES ASSUME Calm, HandledTogether PROVE Spec => []HeldInv
  OBVIOUS
<1>1. Init => HeldInv
  <2> SUFFICES ASSUME Init PROVE HeldInv
    OBVIOUS
  <2>1. TypeOK /\ ToSet(mIncomingConfig) = {} /\ ToSet(mPendingConfig) = {}
        /\ ToSet(mActiveConfig) = {}
    BY TypeOKInit DEF Init, ToSet
  <2>2. \A d \in Elements : ~Out(d) /\ ~Lost(d)
    BY <2>1, OutWaits DEF Lost
  <2>3. CountInv
    BY <2>1, <2>2 DEF Init, CountInv, Held, RemovedOnce, OutAreTogether, LostAreTogether
  <2>4. RemovalsFirst
    BY RemovalFirstShort DEF Init, RemovalsFirst
  <2>5. ListInv
    BY <2>1, <2>4
       DEF Init, ListInv, ScanIsOfHandler, RemovalsComeAlone, RemovalsPassed
  <2> QED
    BY <2>3, <2>5 DEF HeldInv
<1>2. IInv /\ TypeOK' /\ BalanceInv /\ HeldInv /\ [Next]_vars => HeldInv'
  BY CountSteps, ListSteps DEF Before, HeldInv
<1>3. Spec => []BalanceInv
  BY RequestsBalance
<1> QED
  BY <1>1, <1>2, <1>3, Invariance, TypeCorrect, PTL DEF Spec

\* configProcessPending() against the handlers' own state: the active list has everything a
\* handler has configured, once, and nothing else, at any moment of a pass and whatever the
\* dependencies are that are handled together.
THEOREM ActiveAndConfigured == Calm /\ HandledTogether /\ Spec => []ActiveIsConfigured
<1> SUFFICES ASSUME Calm, HandledTogether PROVE Spec => []ActiveIsConfigured
  OBVIOUS
<1>1. TypeOK /\ BalanceInv /\ HeldInv => ActiveIsConfigured
  <2> SUFFICES ASSUME TypeOK, BalanceInv, HeldInv PROVE ActiveIsConfigured
    OBVIOUS
  <2>1. Balance /\ RemovedOnce /\ Held
    BY DEF BalanceInv, HeldInv, CountInv
  <2>2. ASSUME NEW e \in configured PROVE Copies(e) = 1
    <3>1. e \in Elements /\ e \in ToSet(mActiveConfig)
      BY <2>1 DEF Held, TypeOK
    <3>2. Copies(e) \in Nat /\ Copies(e) > 0 /\ Copies(e) <= 1
      BY <2>1, <3>1, OutWaits, ActiveAtMostOnce
    <3> QED
      BY <3>2
  <2> QED
    BY <2>1, <2>2 DEF Held, ActiveIsConfigured
<1>2. Spec => []BalanceInv
  BY RequestsBalance
<1>3. Spec => []HeldInv
  BY HeldInvariance
<1> QED
  BY <1>1, <1>2, <1>3, TypeCorrect, PTL

===============================================================================
