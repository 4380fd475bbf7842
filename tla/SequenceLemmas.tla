---------------------------- MODULE SequenceLemmas ----------------------------
(***************************************************************************)
(* Facts about natural numbers and sequences that the proofs about the     *)
(* components rest on.  Induction is stated for sets of natural numbers,   *)
(* so that no lemma has an operator for a parameter.                       *)
(***************************************************************************)
EXTENDS Integers, SequencesExt, FunctionTheorems, FiniteSetTheorems, SequenceTheorems,
        WellFoundedInduction, TLAPS

\* A set of natural numbers that is not empty has a least element.
LEMMA LeastNat ==
    ASSUME NEW T \in SUBSET Nat, T # {}
    PROVE  \E x \in T : \A y \in T : x <= y
<1> DEFINE R == {p \in Nat \X Nat : p[1] < p[2]}
<1>1. IsWellFoundedOn(R, Nat)
  BY NatLessThanWellFounded DEF OpToRel
<1> HIDE DEF R
<1>2. PICK x \in T : \A y \in T : ~(<<y, x>> \in R)
  BY <1>1, WFMin
<1>3. ASSUME NEW y \in T PROVE x <= y
  <2>1. ~(<<y, x>> \in R)
    BY <1>2
  <2>2. x \in Nat /\ y \in Nat
    OBVIOUS
  <2>3. ~(y < x)
    BY <2>1, <2>2 DEF R
  <2> QED
    BY <2>2, <2>3
<1> QED
  BY <1>3

\* Induction: a set with 0 and the successors of its numbers has all of them.
LEMMA NatSetInduction ==
    ASSUME NEW S, 0 \in S, \A n \in Nat : n \in S => n + 1 \in S
    PROVE  Nat \subseteq S
<1> DEFINE T == Nat \ S
<1> SUFFICES ASSUME T # {} PROVE FALSE
  OBVIOUS
<1>1. PICK x \in T : \A y \in T : x <= y
  BY LeastNat
<1>2. x - 1 \in Nat /\ x - 1 \in S
  BY <1>1
<1> QED
  BY <1>1, <1>2

\* Min of FiniteSetsExt is the least element.
LEMMA MinIsLeast ==
    ASSUME NEW T \in SUBSET Nat, T # {}
    PROVE  Min(T) \in T /\ \A y \in T : Min(T) <= y
  BY LeastNat DEF Min

\* The elements of a concatenation.
LEMMA ToSetConcat ==
    ASSUME NEW X, NEW s \in Seq(X), NEW t \in Seq(X)
    PROVE  ToSet(s \o t) = ToSet(s) \cup ToSet(t)
<1> DEFINE m == Len(s)
           n == Len(t)
           u == s \o t
<1>1. /\ m \in Nat /\ n \in Nat
      /\ DOMAIN s = 1 .. m /\ DOMAIN t = 1 .. n /\ DOMAIN u = 1 .. m + n
      /\ \A i \in 1 .. m + n : u[i] = IF i <= m THEN s[i] ELSE t[i - m]
  BY LenProperties, ConcatProperties
<1> HIDE DEF m, n, u
<1>2. ASSUME NEW i \in 1 .. m + n PROVE u[i] \in ToSet(s) \cup ToSet(t)
  <2>1. CASE i <= m
    <3>1. i \in DOMAIN s /\ u[i] = s[i]
      BY <1>1, <2>1
    <3> QED
      BY <3>1 DEF ToSet
  <2>2. CASE i > m
    <3>1. i - m \in DOMAIN t /\ u[i] = t[i - m]
      BY <1>1, <2>2
    <3> QED
      BY <3>1 DEF ToSet
  <2> QED
    BY <1>1, <2>1, <2>2
<1>3. ASSUME NEW i \in 1 .. m PROVE s[i] \in ToSet(u)
  <2>1. i \in 1 .. m + n /\ u[i] = s[i]
    BY <1>1
  <2> QED
    BY <1>1, <2>1 DEF ToSet
<1>4. ASSUME NEW i \in 1 .. n PROVE t[i] \in ToSet(u)
  <2>1. i + m \in 1 .. m + n /\ u[i + m] = t[i]
    BY <1>1
  <2> QED
    BY <1>1, <2>1 DEF ToSet
<1>5. ToSet(u) = ToSet(s) \cup ToSet(t)
  <2>1. /\ ToSet(s) = {s[i] : i \in 1 .. m} /\ ToSet(t) = {t[i] : i \in 1 .. n}
        /\ ToSet(u) = {u[i] : i \in 1 .. m + n}
    BY <1>1 DEF ToSet
  <2>2. ToSet(s) \subseteq ToSet(u) /\ ToSet(t) \subseteq ToSet(u)
    BY <1>3, <1>4, <2>1
  <2>3. ToSet(u) \subseteq ToSet(s) \cup ToSet(t)
    BY <1>2, <2>1
  <2> QED
    BY <2>2, <2>3
<1> QED
  BY <1>5 DEF u

\* The elements of a sequence one longer.
LEMMA ToSetAppend ==
    ASSUME NEW X, NEW s \in Seq(X), NEW x \in X
    PROVE  ToSet(Append(s, x)) = ToSet(s) \cup {x}
<1>1. <<x>> \in Seq(X)
  OBVIOUS
<1>2. ToSet(<<x>>) = {x}
  BY DEF ToSet
<1>3. Append(s, x) = s \o <<x>>
  BY AppendIsConcat
<1>4. ToSet(s \o <<x>>) = ToSet(s) \cup ToSet(<<x>>)
  BY <1>1, ToSetConcat
<1> QED
  BY <1>2, <1>3, <1>4, Zenon

\* The end of a sequence, from its place k on.
LEMMA SuffixProperties ==
    ASSUME NEW X, NEW s \in Seq(X), NEW k \in 1 .. Len(s)
    PROVE  /\ SubSeq(s, k, Len(s)) \in Seq(X)
           /\ Len(SubSeq(s, k, Len(s))) = Len(s) - k + 1
           /\ \A i \in 1 .. Len(s) - k + 1 : SubSeq(s, k, Len(s))[i] = s[k + i - 1]
<1> DEFINE n == Len(s)
           b == SubSeq(s, k, n)
<1>1. n \in Nat /\ k \in 1 .. n /\ \A i \in k .. n : s[i] \in X
  BY LenProperties
<1>2. k \in Int /\ n \in Int /\ k <= n
  BY <1>1
<1> HIDE DEF n
<1>3. /\ b \in Seq(X) /\ Len(b) = IF k <= n THEN n - k + 1 ELSE 0
      /\ \A i \in 1 .. n - k + 1 : b[i] = s[k + i - 1]
  BY <1>1, <1>2, SubSeqProperties
<1> HIDE DEF b
<1>4. b \in Seq(X) /\ Len(b) = n - k + 1 /\ \A i \in 1 .. n - k + 1 : b[i] = s[k + i - 1]
  BY <1>2, <1>3
<1> QED
  BY <1>4 DEF n, b

\* RemoveAt leaves the other entries, in their order.
LEMMA RemoveAtProperties ==
    ASSUME NEW X, NEW s \in Seq(X), NEW i \in 1 .. Len(s)
    PROVE  /\ RemoveAt(s, i) \in Seq(X)
           /\ Len(RemoveAt(s, i)) = Len(s) - 1
           /\ \A j \in 1 .. Len(s) - 1 :
                 RemoveAt(s, i)[j] = IF j < i THEN s[j] ELSE s[j + 1]
<1> DEFINE n == Len(s)
           a == SubSeq(s, 1, i - 1)
           b == SubSeq(s, i + 1, n)
<1>1. n \in Nat /\ DOMAIN s = 1 .. n /\ i \in 1 .. n /\ \A j \in 1 .. n : s[j] \in X
  BY LenProperties
<1>2. /\ a \in Seq(X) /\ Len(a) = i - 1
      /\ \A j \in 1 .. i - 1 : a[j] = s[j]
  <2>1. 1 \in Int /\ i - 1 \in Int /\ \A j \in 1 .. i - 1 : s[j] \in X
    BY <1>1
  <2>2. /\ a \in Seq(X) /\ Len(a) = IF 1 <= i - 1 THEN i - 1 - 1 + 1 ELSE 0
        /\ \A j \in 1 .. i - 1 - 1 + 1 : a[j] = s[1 + j - 1]
    BY <2>1, SubSeqProperties
  <2> HIDE DEF a
  <2> QED
    BY <1>1, <2>2
<1>3. /\ b \in Seq(X) /\ Len(b) = n - i
      /\ \A j \in 1 .. n - i : b[j] = s[i + j]
  <2>1. i + 1 \in Int /\ n \in Int /\ \A j \in i + 1 .. n : s[j] \in X
    BY <1>1
  <2> HIDE DEF n
  <2>2. /\ b \in Seq(X) /\ Len(b) = IF i + 1 <= n THEN n - (i + 1) + 1 ELSE 0
        /\ \A j \in 1 .. n - (i + 1) + 1 : b[j] = s[i + 1 + j - 1]
    BY <2>1, SubSeqProperties
  <2> HIDE DEF b
  <2>3. (IF i + 1 <= n THEN n - (i + 1) + 1 ELSE 0) = n - i /\ n - (i + 1) + 1 = n - i
    BY <1>1
  <2>4. \A j \in 1 .. n - i : i + 1 + j - 1 = i + j
    BY <1>1
  <2> QED
    BY <2>2, <2>3, <2>4
<1>4. /\ RemoveAt(s, i) = a \o b
      /\ a \o b \in Seq(X) /\ Len(a \o b) = Len(a) + Len(b)
      /\ \A j \in 1 .. Len(a) + Len(b) :
            (a \o b)[j] = IF j <= Len(a) THEN a[j] ELSE b[j - Len(a)]
  BY <1>2, <1>3, ConcatProperties DEF RemoveAt
<1> HIDE DEF n, a, b
<1>5. Len(a) + Len(b) = n - 1
  BY <1>1, <1>2, <1>3
<1>6. ASSUME NEW j \in 1 .. n - 1
      PROVE  (a \o b)[j] = IF j < i THEN s[j] ELSE s[j + 1]
  <2>1. CASE j < i
    BY <1>1, <1>2, <1>3, <1>4, <1>5, <2>1
  <2>2. CASE j >= i
    <3>1. j - (i - 1) \in 1 .. n - i
      BY <1>1, <2>2
    <3>2. b[j - (i - 1)] = s[i + (j - (i - 1))]
      BY <1>3, <3>1
    <3>3. i + (j - (i - 1)) = j + 1
      BY <1>1
    <3>4. (a \o b)[j] = b[j - (i - 1)]
      BY <1>1, <1>2, <1>4, <1>5, <2>2
    <3> QED
      BY <1>1, <2>2, <3>2, <3>3, <3>4
  <2>3. j < i \/ j >= i
    BY <1>1
  <2> QED
    BY <2>1, <2>2, <2>3
<1> QED
  BY <1>4, <1>5, <1>6 DEF n

\* FlattenSeq is what a loop over the sequences leaves that appends one after the other.
LEMMA FlattenSeqParts ==
    ASSUME NEW X, NEW ss \in Seq(Seq(X))
    PROVE  \E part \in [0 .. Len(ss) -> Seq(X)] :
              /\ part[0] = <<>>
              /\ \A i \in 1 .. Len(ss) : part[i] = part[i - 1] \o ss[i]
              /\ FlattenSeq(ss) = part[Len(ss)]
<1> DEFINE n == Len(ss)
           Step(g, i) == IF i = 1 THEN ss[i] ELSE g[i - 1] \o ss[i]
<1>1. n \in Nat /\ \A i \in 1 .. n : ss[i] \in Seq(X)
  BY LenProperties
<1>2. CASE n = 0
  <2>1. ss = <<>> /\ FlattenSeq(ss) = <<>>
    BY <1>2, EmptySeq DEF FlattenSeq
  <2> DEFINE part == [i \in 0 .. n |-> <<>>]
  <2>2. part \in [0 .. n -> Seq(X)] /\ part[0] = <<>>
    BY <1>1, EmptySeq
  <2>3. 1 .. n = {}
    BY <1>2
  <2> HIDE DEF part
  <2> QED
    BY <1>2, <2>1, <2>2, <2>3
<1>3. CASE n # 0
  <2> DEFINE Prefix(f, k) == f \in [1 .. k + 1 -> Seq(X)]
                             /\ \A i \in 1 .. k + 1 : f[i] = Step(f, i)
             S == {k \in Nat : k + 1 <= n => \E f : Prefix(f, k)}
  <2> HIDE DEF n
  <2>1. 0 \in S
    <3>1. ss[1] \in Seq(X)
      BY <1>1, <1>3
    <3>2. Prefix([i \in 1 .. 1 |-> ss[1]], 0)
      BY <3>1
    <3> QED
      BY <3>2
  <2>2. ASSUME NEW k \in Nat, k \in S PROVE k + 1 \in S
    <3> HIDE DEF Prefix
    <3> SUFFICES ASSUME k + 1 + 1 <= n PROVE \E f : Prefix(f, k + 1)
      BY k + 1 \in Nat
    <3>1. k + 1 <= n
      BY <1>1
    <3>2. PICK f : Prefix(f, k)
      BY <2>2, <3>1
    <3> USE DEF Prefix
    <3> DEFINE m == k + 1 + 1
               g == [i \in 1 .. m |-> IF i = m THEN f[k + 1] \o ss[m] ELSE f[i]]
    <3>3. f[k + 1] \o ss[m] \in Seq(X)
      <4>1. f[k + 1] \in Seq(X)
        BY <3>2
      <4>2. ss[m] \in Seq(X)
        BY <1>1
      <4> HIDE DEF m
      <4> QED
        BY <4>1, <4>2, ConcatProperties
    <3>4. g \in [1 .. m -> Seq(X)]
      BY <3>2, <3>3
    <3>5. ASSUME NEW i \in 1 .. m PROVE g[i] = Step(g, i)
      <4>1. CASE i = m
        <5>1. m # 1 /\ m - 1 = k + 1 /\ k + 1 \in 1 .. m /\ m \in 1 .. m /\ k + 1 # m
          OBVIOUS
        <5> HIDE DEF m
        <5>2. g[m] = f[k + 1] \o ss[m] /\ g[k + 1] = f[k + 1]
          BY <5>1
        <5> HIDE DEF g
        <5> QED
          BY <4>1, <5>1, <5>2
      <4>2. CASE i # m
        <5>1. i \in 1 .. k + 1 /\ g[i] = f[i] /\ (i # 1 => g[i - 1] = f[i - 1])
          BY <4>2
        <5>2. f[i] = Step(f, i)
          BY <3>2, <5>1
        <5> HIDE DEF g, m
        <5> QED
          BY <5>1, <5>2
      <4> QED
        BY <4>1, <4>2
    <3>6. Prefix(g, k + 1)
      BY <3>4, <3>5
    <3> QED
      BY <3>6
  <2>3. n - 1 \in S
    <3>1. n - 1 \in Nat
      BY <1>1, <1>3
    <3>2. \A k \in Nat : k \in S => k + 1 \in S
      BY <2>2
    <3> HIDE DEF S
    <3>3. Nat \subseteq S
      BY <2>1, <3>2, NatSetInduction
    <3> QED
      BY <3>1, <3>3
  <2>4. n - 1 + 1 = n /\ n - 1 + 1 <= n
    BY <1>1
  <2>5. PICK f : Prefix(f, n - 1)
    BY <2>3, <2>4
  <2>6. f = [i \in 1 .. n |-> IF i = 1 THEN ss[i] ELSE f[i - 1] \o ss[i]]
    BY <2>4, <2>5
  <2> DEFINE G == CHOOSE g : g = [i \in 1 .. n |-> IF i = 1 THEN ss[i]
                                                   ELSE g[i - 1] \o ss[i]]
  <2>7. \A i \in 1 .. n : G[i] = IF i = 1 THEN ss[i] ELSE G[i - 1] \o ss[i]
    <3>1. G = [i \in 1 .. n |-> IF i = 1 THEN ss[i] ELSE G[i - 1] \o ss[i]]
      BY <2>6
    <3> HIDE DEF G
    <3> QED
      BY <3>1
  <2>8. FlattenSeq(ss) = G[n]
    BY <1>3 DEF FlattenSeq, n
  <2> HIDE DEF G
  <2> DEFINE Typed == {k \in Nat : k + 1 <= n => G[k + 1] \in Seq(X)}
  <2>9. 0 \in Typed
    BY <1>1, <2>7
  <2>10. ASSUME NEW k \in Nat, k \in Typed PROVE k + 1 \in Typed
    <3> SUFFICES ASSUME k + 1 + 1 <= n PROVE G[k + 1 + 1] \in Seq(X)
      OBVIOUS
    <3>1. G[k + 1] \in Seq(X) /\ ss[k + 1 + 1] \in Seq(X)
      BY <1>1, <2>10
    <3> DEFINE j == k + 1 + 1
    <3>2. j \in 1 .. n /\ j # 1 /\ j - 1 = k + 1
      BY <1>1
    <3>3. G[j] = G[k + 1] \o ss[j]
      <4> HIDE DEF j
      <4> QED
        BY <2>7, <3>2
    <3> QED
      BY <3>1, <3>3, ConcatProperties
  <2>11. Nat \subseteq Typed
    <3> HIDE DEF Typed
    <3> QED
      BY <2>9, <2>10, NatSetInduction
  <2>12. ASSUME NEW i \in 1 .. n PROVE G[i] \in Seq(X)
    <3>1. i - 1 \in Typed /\ i - 1 + 1 = i /\ i - 1 + 1 <= n
      BY <1>1, <2>11
    <3> QED
      BY <3>1
  <2> DEFINE part == [i \in 0 .. n |-> IF i = 0 THEN <<>> ELSE G[i]]
  <2>13. part \in [0 .. n -> Seq(X)]
    BY <2>12, EmptySeq
  <2>14. part[0] = <<>> /\ FlattenSeq(ss) = part[n]
    BY <1>1, <1>3, <2>8
  <2>15. ASSUME NEW i \in 1 .. n PROVE part[i] = part[i - 1] \o ss[i]
    <3>1. CASE i = 1
      <4>1. part[1] = ss[1] /\ part[0] = <<>> /\ ss[1] \in Seq(X)
        BY <1>1, <1>3, <2>7
      <4> HIDE DEF part
      <4>2. <<>> \o ss[1] = ss[1]
        BY <4>1, ConcatEmptySeq
      <4>3. i = 1 /\ i - 1 = 0
        BY <3>1
      <4> QED
        BY <4>1, <4>2, <4>3
    <3>2. CASE i # 1
      <4>1. i \in 0 .. n /\ i - 1 \in 0 .. n /\ i # 0 /\ i - 1 # 0
        <5>1. n \in Nat /\ i \in 1 .. n
          BY <1>1
        <5> HIDE DEF n, part
        <5> QED
          BY <3>2, <5>1
      <4>2. part[i] = G[i] /\ part[i - 1] = G[i - 1]
        BY <4>1
      <4>3. G[i] = G[i - 1] \o ss[i]
        BY <2>7, <3>2
      <4> QED
        BY <4>2, <4>3
    <3> QED
      BY <3>1, <3>2
  <2> QED
    BY <2>13, <2>14, <2>15 DEF n
<1> QED
  BY <1>2, <1>3

===============================================================================
