------------------------ MODULE ClusterNetwork_proofs ------------------------
(***************************************************************************)
(* Proofs about ClusterNetwork, for any number of slaves and frames.       *)
(***************************************************************************)
EXTENDS ClusterNetwork, FiniteSetTheorems, SequenceTheorems, TLAPS

-----------------------------------------------------------------------------
(* Nodes, links and sequences. *)

\* A node's peers are finitely many other nodes, and each link has two ends.
LEMMA PeersOf ==
  /\ IsFiniteSet(Slaves) /\ Nodes = Slaves \cup {Master}
  /\ \A n \in Nodes :
        /\ Peers(n) \subseteq Nodes /\ n \notin Peers(n)
        /\ IsFiniteSet(Peers(n)) /\ Cardinality(Peers(n)) \in Nat /\ Peers(n) # {}
        /\ \A p \in Peers(n) : n \in Peers(p) /\ <<n, p>> \in Links /\ <<p, n>> \in Links
  /\ \A l \in Links : /\ l[1] \in Nodes /\ l[2] \in Nodes /\ l = <<l[1], l[2]>>
                      /\ l[2] \in Peers(l[1]) /\ l[1] \in Peers(l[2]) /\ l[1] # l[2]
  /\ Cardinality(Peers(Master)) = Cardinality(Slaves)
<1>1. Master \notin Slaves /\ Slaves # {} /\ IsFiniteSet(Slaves)
  BY NodesAssumption
<1>2. IsFiniteSet({Master}) /\ Cardinality({Master}) = 1
  BY FS_Singleton
<1>3. Cardinality(Slaves) \in Nat /\ Cardinality({Master}) \in Nat
  BY <1>1, <1>2, FS_CardinalityType
<1>4. ASSUME NEW n \in Nodes
      PROVE  IsFiniteSet(Peers(n)) /\ Cardinality(Peers(n)) \in Nat
  BY <1>1, <1>2, <1>3 DEF Peers
<1>5. Nodes = Slaves \cup {Master}
  BY DEF Nodes
<1>6. \A n \in Nodes : /\ Peers(n) \subseteq Nodes /\ n \notin Peers(n) /\ Peers(n) # {}
                       /\ \A p \in Peers(n) : n \in Peers(p)
  BY <1>1 DEF Nodes, Peers
<1>7. \A n \in Nodes : \A p \in Peers(n) : <<n, p>> \in Links /\ <<p, n>> \in Links
  BY <1>6 DEF Links
<1>8. \A l \in Links : /\ l[1] \in Nodes /\ l[2] \in Nodes /\ l = <<l[1], l[2]>>
                       /\ l[2] \in Peers(l[1]) /\ l[1] \in Peers(l[2]) /\ l[1] # l[2]
  BY <1>6 DEF Links
<1> QED BY <1>1, <1>4, <1>5, <1>6, <1>7, <1>8 DEF Peers

\* The blocks a link can hold: those of update() are of frames that began.
Begun == {b \in Blocks : b.kind \in {"preDraw", "postPostFrame"} => b.frame <= MaxFrames}

\* What remains of the blocks of a node that ended are no more blocks, of the same kinds.
LEMMA RemainsOf ==
  ASSUME NEW q \in Seq(Begun), NEW r \in Remains(q)
  PROVE  r \in Seq(Begun) /\ Len(r) <= Len(q)
<1> DEFINE c == [kind |-> "cut", frame |-> 0]
<1>1. c \in Begun
  BY BoundsAssumption DEF Begun, Blocks
<1>2. Len(q) \in Nat
  BY LenProperties
<1>3. ASSUME NEW i \in 0 .. Len(q)
      PROVE  SubSeq(q, 1, i) \in Seq(Begun) /\ Len(SubSeq(q, 1, i)) = i
  BY <1>2, SubSeqProperties
<1>4. ASSUME NEW i \in 0 .. Len(q) - 1
      PROVE  Append(SubSeq(q, 1, i), c) \in Seq(Begun) /\ Len(Append(SubSeq(q, 1, i), c)) = i + 1
  <2>1. SubSeq(q, 1, i) \in Seq(Begun) /\ Len(SubSeq(q, 1, i)) = i
    BY <1>2, <1>3
  <2> HIDE DEF c
  <2> QED BY <1>1, <2>1, AppendProperties
<1>5. \/ r = q
      \/ \E i \in 0 .. Len(q) : r = SubSeq(q, 1, i)
      \/ \E i \in 0 .. Len(q) - 1 : r = Append(SubSeq(q, 1, i), c)
  BY DEF Remains
<1> HIDE DEF c
<1> QED BY <1>2, <1>3, <1>4, <1>5

-----------------------------------------------------------------------------
(* The invariant. *)

\* The blocks that are on their way over a link, or wait in its corked socket.
Load(l) == Len(chan[l]) + Len(held[l])

TypeInv == TypeOK /\ chan \in [Links -> Seq(Begun)] /\ held \in [Links -> Seq(Begun)]

\* Where a node can be: frames are counted in the loop only, and updateAllNodes() is
\* called by barrier() and, with plug-ins, by update().
PlaceInv ==
    \A n \in Nodes :
        /\ InFrame(n) <=> frame[n] >= 1
        /\ frame[n] > MaxFrames => phase[n] = "preDraw" /\ n \notin updating
        /\ n \in updating =>
              /\ phase[n] \notin {"connect", "window"}
              /\ phase[n] \in {"preDraw", "postPostFrame"} => HasPlugins
              /\ phase[n] = "draw" => SwapLock

\* The blocks a node has sent each peer, and those it has read of one: a slave sends its
\* own when it comes to a synchronisation, the master at barriers when it leaves them.
Sent(n) == IF n = Master /\ phase[n] \notin {"preDraw", "postPostFrame"} THEN Left(n)
           ELSE Left(n) + Count(n \in updating)
Recv(n, p) == Left(n) + Count(n \in updating /\ p \in mUpdated[n])

\* No more blocks are read and under way than were sent.
LinkInv ==
    \A n \in Nodes : \A p \in Peers(n) :
        p \in connected[n] \/ phase[n] = "connect" => Recv(n, p) + Load(<<p, n>>) <= Sent(p)

\* The peers whose block of this synchronisation was read, in whole or in part.
Got(n) == {p \in Peers(n) : (p \in mUpdated[n] \/ p \notin connected[n]) /\ Sent(p) > Left(n)}

\* updateAllNodes() counts nobody twice, and waits for every peer of a node that has any.
GotInv == \A n \in updating : completed[n] <= Cardinality(Got(n))
NumInv == \A n \in updating :
    state[n] = "up" /\ (n = Master \/ connected[n] # {}) => numNodes[n] = Cardinality(Peers(n))

\* The master leaves no slave behind.
BehindInv == \A s \in Slaves : Left(Master) <= Sent(s)

Inv == TypeInv /\ PlaceInv /\ LinkInv /\ GotInv /\ NumInv /\ BehindInv

-----------------------------------------------------------------------------
(* Counting synchronisations. *)

LEMMA SetupOf ==
  ASSUME TypeInv
  PROVE  /\ HasPlugins \in BOOLEAN /\ SwapLock \in BOOLEAN /\ CorkHolds \in BOOLEAN
         /\ Count(HasPlugins) \in {0, 1} /\ Count(SwapLock) \in {0, 1}
         /\ PerFrame = 2 * Count(HasPlugins) + Count(SwapLock)
BY SetupsAssumption DEF TypeInv, TypeOK, HasPlugins, SwapLock, CorkHolds, Count, PerFrame

\* The synchronisations between a node's phase and the next.
Syncs(n) ==
    CASE phase[n] \in {"start", "first"}           -> 1
      [] phase[n] \in {"preDraw", "postPostFrame"} -> Count(HasPlugins)
      [] phase[n] = "draw"                         -> Count(SwapLock)
      [] OTHER                                     -> 0

\* Left(n) is a natural number that Advance(n) raises by the synchronisations of the phase.
LEMMA LeftNat ==
  ASSUME TypeInv, PlaceInv, NEW n \in Nodes
  PROVE  Left(n) \in Nat
<1>1. phase[n] \in Phases /\ frame[n] \in Nat /\ PerFrame \in Nat
  BY SetupOf, BoundsAssumption DEF TypeInv, TypeOK
<1>2. InFrame(n) => frame[n] - 1 \in Nat
  BY <1>1 DEF PlaceInv
<1>3. InFrame(n) => (frame[n] - 1) * PerFrame \in Nat
  BY <1>1, <1>2
<1>4. CASE InFrame(n)
  <2> DEFINE k == (frame[n] - 1) * PerFrame
  <2>1. Left(n) = 2 + k + (IF phase[n] = "preDraw" THEN 0 ELSE Count(HasPlugins))
                  + (IF phase[n] = "postPostFrame" THEN Count(SwapLock) ELSE 0)
    BY <1>4 DEF Left, InFrame
  <2>2. k \in Nat
    BY <1>3, <1>4
  <2> HIDE DEF k
  <2> QED BY <2>1, <2>2, SetupOf
<1>5. CASE ~InFrame(n)
  BY <1>1, <1>5 DEF Left, InFrame, Phases
<1> QED BY <1>4, <1>5

LEMMA LeftAdvances ==
  ASSUME TypeInv, PlaceInv, setup' = setup,
         NEW n \in Nodes, phase[n] \notin {"connect", "window"}, Advance(n)
  PROVE  /\ Left(n)' = Left(n) + Syncs(n)
         /\ \A m \in Nodes \ {n} : Left(m)' = Left(m)
<1>1. /\ phase[n] \in Phases /\ frame[n] \in Nat
      /\ phase'[n] = NextPhase(n)
      /\ frame'[n] = IF NextPhase(n) = "preDraw" THEN frame[n] + 1 ELSE frame[n]
      /\ \A m \in Nodes \ {n} : phase'[m] = phase[m] /\ frame'[m] = frame[m]
  BY BoundsAssumption DEF Advance, TypeInv, TypeOK
<1>2. /\ HasPlugins' = HasPlugins /\ SwapLock' = SwapLock /\ PerFrame' = PerFrame
      /\ Count(HasPlugins)' = Count(HasPlugins) /\ Count(SwapLock)' = Count(SwapLock)
  BY DEF HasPlugins, SwapLock, PerFrame
<1>3. \A m \in Nodes \ {n} : Left(m)' = Left(m)
  BY <1>1, <1>2 DEF Left
<1> DEFINE h == Count(HasPlugins)
           k == Count(SwapLock)
           f == frame[n]
           b == (f - 1) * PerFrame
           c == f * PerFrame
<1>4. h \in {0, 1} /\ k \in {0, 1} /\ PerFrame = 2 * h + k /\ f \in Nat
  BY <1>1, SetupOf
<1>5. b \in Int /\ c = b + 2 * h + k
  <2>1. PerFrame \in {0, 1, 2, 3}
    BY <1>4
  <2>2. b \in Int /\ c = b + PerFrame
    BY <1>4, <2>1
  <2> QED BY <1>4, <2>2
<1>6. CASE phase[n] = "start"
  BY <1>1, <1>3, <1>6 DEF Left, Syncs, NextPhase
<1>7. CASE phase[n] = "first"
  <2>1. f = 0 /\ Left(n) = 1 /\ Syncs(n) = 1 /\ phase'[n] = "preDraw" /\ frame'[n] = 1
    BY <1>1, <1>7 DEF PlaceInv, InFrame, Left, Syncs, NextPhase
  <2>2. PerFrame' \in {0, 1, 2, 3}
    BY <1>2, <1>4
  <2>3. Left(n)' = 2 + (frame'[n] - 1) * PerFrame' + 0 + 0
    BY <2>1 DEF Left
  <2>4. \A z \in {0, 1, 2, 3} : (1 - 1) * z = 0
    OBVIOUS
  <2>5. (frame'[n] - 1) * PerFrame' = 0
    BY <2>1, <2>2, <2>4
  <2> QED BY <1>3, <2>1, <2>3, <2>5
<1>8. CASE phase[n] = "preDraw"
  <2>1. frame'[n] = f /\ phase'[n] = "draw" /\ Syncs(n) = h
    BY <1>1, <1>8 DEF NextPhase, Syncs
  <2>2. Left(n) = 2 + b + 0 + 0
    BY <1>8 DEF Left
  <2>3. Left(n)' = 2 + b + h + 0
    BY <1>2, <2>1 DEF Left
  <2> HIDE DEF b, h
  <2> QED BY <1>3, <1>4, <1>5, <2>1, <2>2, <2>3
<1>9. CASE phase[n] = "draw"
  <2>1. frame'[n] = f /\ phase'[n] = "postPostFrame" /\ Syncs(n) = k
    BY <1>1, <1>9 DEF NextPhase, Syncs
  <2>2. Left(n) = 2 + b + h + 0
    BY <1>9 DEF Left
  <2>3. Left(n)' = 2 + b + h + k
    BY <1>2, <2>1 DEF Left
  <2> HIDE DEF b, h, k
  <2> QED BY <1>3, <1>4, <1>5, <2>1, <2>2, <2>3
<1>10. CASE phase[n] = "postPostFrame"
  <2>1. frame'[n] = f + 1 /\ frame'[n] - 1 = f /\ phase'[n] = "preDraw" /\ Syncs(n) = h
    BY <1>1, <1>10 DEF NextPhase, Syncs
  <2>2. Left(n) = 2 + b + h + k
    BY <1>10 DEF Left
  <2>3. Left(n)' = 2 + c + 0 + 0
    BY <1>2, <2>1 DEF Left
  <2> HIDE DEF b, c, h, k
  <2> QED BY <1>3, <1>4, <1>5, <2>1, <2>2, <2>3
<1> QED BY <1>1, <1>3, <1>6, <1>7, <1>8, <1>9, <1>10 DEF Phases

-----------------------------------------------------------------------------
(* Links. *)

LEMMA Sums ==
  \A a, b \in Nat : a + b \in Nat /\ \A c, d \in Nat : a <= c /\ b <= d => a + b <= c + d
OBVIOUS

LEMMA Plus ==
  \A a, b, c \in Nat : /\ a + (b + c) = (a + b) + c /\ (a + c) + b = (a + b) + c
                       /\ a + 0 = a /\ 0 + a = a
OBVIOUS

LEMMA LoadNat ==
  ASSUME TypeInv, NEW l \in Links
  PROVE  /\ chan[l] \in Seq(Begun) /\ held[l] \in Seq(Begun)
         /\ Len(chan[l]) \in Nat /\ Len(held[l]) \in Nat /\ Load(l) \in Nat
<1>1. chan[l] \in Seq(Begun) /\ held[l] \in Seq(Begun)
  BY DEF TypeInv
<1>2. Len(chan[l]) \in Nat /\ Len(held[l]) \in Nat
  BY <1>1, LenProperties
<1> QED BY <1>1, <1>2, Sums DEF Load

\* A node that writes its block adds no more than that one to its links.
LEMMA Writing ==
  ASSUME TypeInv, NEW n \in Nodes, NEW ps \in SUBSET Peers(n), Block(n) \in Begun,
         Write(n, ps) \/ WriteAndUncork(n, ps)
  PROVE  /\ chan' \in [Links -> Seq(Begun)] /\ held' \in [Links -> Seq(Begun)]
         /\ \A l \in Links : Load(l)' <= Load(l) + Count(l[1] = n /\ l[2] \in ps)
<1> DEFINE b == Block(n)
           w == [l \in Links |-> IF l[1] = n /\ l[2] \in ps THEN <<b>> ELSE <<>>]
<1>1. \A l \in Links : /\ w[l] \in Seq(Begun)
                       /\ Len(w[l]) = Count(l[1] = n /\ l[2] \in ps)
                       /\ Len(w[l]) \in {0, 1}
  <2>1. <<b>> \in Seq(Begun) /\ <<>> \in Seq(Begun) /\ Len(<<b>>) = 1 /\ Len(<<>>) = 0
    OBVIOUS
  <2> HIDE DEF b
  <2> QED BY <2>1 DEF Count
<1> HIDE DEF b, w
<1>2. \A l \in Links : \A q \in Seq(Begun) :
         q \o w[l] \in Seq(Begun) /\ Len(q \o w[l]) = Len(q) + Len(w[l])
  BY <1>1, ConcatProperties
<1>3. CASE Write(n, ps)
  <2>1. IF n \in corked THEN held' = [l \in Links |-> held[l] \o w[l]] /\ chan' = chan
                        ELSE chan' = [l \in Links |-> chan[l] \o w[l]] /\ held' = held
    BY <1>3 DEF Write, w, b
  <2>2. ASSUME NEW l \in Links
        PROVE  /\ chan'[l] \in Seq(Begun) /\ held'[l] \in Seq(Begun)
               /\ Load(l)' = Load(l) + Len(w[l])
    <3>0. Len(w[l]) \in Nat
      BY <1>1
    <3>1. CASE n \in corked
      <4>1. chan'[l] = chan[l] /\ held'[l] = held[l] \o w[l]
        BY <2>1, <3>1
      <4>2. held'[l] \in Seq(Begun) /\ Len(held'[l]) = Len(held[l]) + Len(w[l])
        BY <1>2, <4>1, LoadNat
      <4>3. Load(l)' = Len(chan[l]) + (Len(held[l]) + Len(w[l]))
        BY <4>1, <4>2 DEF Load
      <4>4. Load(l)' = Load(l) + Len(w[l])
        <5> DEFINE a == Len(chan[l])
                   b1 == Len(held[l])
                   c == Len(w[l])
        <5>1. a \in Nat /\ b1 \in Nat /\ c \in Nat /\ Load(l) = a + b1
          BY <3>0, LoadNat DEF Load
        <5>2. Load(l)' = a + (b1 + c)
          BY <4>3
        <5> HIDE DEF a, b1, c
        <5>3. Load(l)' = Load(l) + c
          BY <5>1, <5>2
        <5> QED BY <5>3 DEF c
      <4> QED BY <4>1, <4>2, <4>4, LoadNat
    <3>2. CASE n \notin corked
      <4>1. held'[l] = held[l] /\ chan'[l] = chan[l] \o w[l]
        BY <2>1, <3>2
      <4>2. chan'[l] \in Seq(Begun) /\ Len(chan'[l]) = Len(chan[l]) + Len(w[l])
        BY <1>2, <4>1, LoadNat
      <4>3. Load(l)' = (Len(chan[l]) + Len(w[l])) + Len(held[l])
        BY <4>1, <4>2 DEF Load
      <4>4. Load(l)' = Load(l) + Len(w[l])
        <5> DEFINE a == Len(chan[l])
                   b1 == Len(held[l])
                   c == Len(w[l])
        <5>1. a \in Nat /\ b1 \in Nat /\ c \in Nat /\ Load(l) = a + b1
          BY <3>0, LoadNat DEF Load
        <5>2. Load(l)' = (a + c) + b1
          BY <4>3
        <5> HIDE DEF a, b1, c
        <5>3. Load(l)' = Load(l) + c
          BY <5>1, <5>2
        <5> QED BY <5>3 DEF c
      <4> QED BY <4>1, <4>2, <4>4, LoadNat
    <3> QED BY <3>1, <3>2
  <2>3. chan' \in [Links -> Seq(Begun)] /\ held' \in [Links -> Seq(Begun)]
    BY <2>1, <2>2 DEF TypeInv
  <2> QED BY <1>1, <2>2, <2>3, LoadNat
<1>4. CASE WriteAndUncork(n, ps)
  <2>1. /\ chan' = [l \in Links |-> IF l[1] = n /\ l[2] \in ps
                                    THEN Append(chan[l] \o held[l], b) ELSE chan[l]]
        /\ held' = [l \in Links |-> IF l[1] = n /\ l[2] \in ps THEN <<>> ELSE held[l]]
    BY <1>4 DEF WriteAndUncork, b
  <2>2. ASSUME NEW l \in Links
        PROVE  /\ chan'[l] \in Seq(Begun) /\ held'[l] \in Seq(Begun)
               /\ Load(l)' = Load(l) + Len(w[l])
    <3>1. CASE l[1] = n /\ l[2] \in ps
      <4>1. chan[l] \o held[l] \in Seq(Begun) /\ Len(chan[l] \o held[l]) = Load(l)
        BY LoadNat, ConcatProperties DEF Load
      <4>2. b \in Begun /\ Len(w[l]) = 1
        BY <1>1, <3>1 DEF b, Count
      <4>3. chan'[l] = Append(chan[l] \o held[l], b) /\ held'[l] = <<>>
        BY <2>1, <3>1
      <4>4. chan'[l] \in Seq(Begun) /\ Len(chan'[l]) = Load(l) + 1
        <5> DEFINE q == chan[l] \o held[l]
        <5>1. q \in Seq(Begun) /\ Len(q) = Load(l) /\ b \in Begun /\ chan'[l] = Append(q, b)
          BY <4>1, <4>2, <4>3
        <5> HIDE DEF q
        <5>2. Append(q, b) \in Seq(Begun) /\ Len(Append(q, b)) = Len(q) + 1
          BY <5>1
        <5> QED BY <5>1, <5>2, Zenon
      <4>5. held'[l] \in Seq(Begun) /\ Len(held'[l]) = 0
        BY <4>3
      <4> QED BY <4>2, <4>4, <4>5, LoadNat DEF Load
    <3>2. CASE ~(l[1] = n /\ l[2] \in ps)
      <4>1. chan'[l] = chan[l] /\ held'[l] = held[l] /\ Len(w[l]) = 0
        BY <1>1, <2>1, <3>2 DEF Count
      <4>2. Load(l)' = Load(l)
        BY <4>1 DEF Load
      <4> QED BY <4>1, <4>2, LoadNat
    <3> QED BY <3>1, <3>2
  <2>3. chan' \in [Links -> Seq(Begun)] /\ held' \in [Links -> Seq(Begun)]
    BY <2>1, <2>2
  <2> QED BY <1>1, <2>2, <2>3, LoadNat
<1> QED BY <1>3, <1>4

\* A step that ends nodes or moves blocks on, and nothing else.
Still ==
    /\ UNCHANGED <<nodeVars, updateVars, connected, data>>
    /\ state' \in [Nodes -> {"up", "ended", "signalled", "dead"}]
    /\ \A n \in Nodes : state'[n] = "up" => state[n] = "up"
    /\ lost' \subseteq Nodes /\ corked' \subseteq Nodes
    /\ chan' \in [Links -> Seq(Begun)] /\ held' \in [Links -> Seq(Begun)]
    /\ \A l \in Links : Load(l)' <= Load(l)

LEMMA Dies ==
  ASSUME TypeInv, NEW n \in Nodes, Die(n), lost' \subseteq Nodes
  PROVE  Still
<1>1. PICK r \in [Peers(n) -> UNION {Remains(chan[<<n, p>>]) : p \in Peers(n)}] :
         /\ \A p \in Peers(n) : r[p] \in Remains(chan[<<n, p>>])
         /\ chan' = [l \in Links |-> IF l[1] = n THEN r[l[2]]
                                     ELSE IF l[2] = n THEN <<>> ELSE chan[l]]
  BY DEF Die
<1>2. ASSUME NEW l \in Links
      PROVE  /\ chan'[l] \in Seq(Begun) /\ held'[l] \in Seq(Begun)
             /\ Len(chan'[l]) <= Len(chan[l]) /\ Len(held'[l]) <= Len(held[l])
             /\ Len(chan'[l]) \in Nat /\ Len(held'[l]) \in Nat
  <2>1. <<>> \in Seq(Begun) /\ Len(<<>>) = 0
    OBVIOUS
  <2>2. /\ held'[l] \in Seq(Begun) /\ Len(held'[l]) <= Len(held[l])
        /\ Len(held'[l]) \in Nat
    <3>1. CASE held'[l] = <<>>
      BY <2>1, <3>1, LoadNat
    <3>2. CASE held'[l] = held[l]
      BY <3>2, LoadNat
    <3> QED BY <3>1, <3>2 DEF Die
  <2>3. /\ chan'[l] \in Seq(Begun) /\ Len(chan'[l]) <= Len(chan[l])
        /\ Len(chan'[l]) \in Nat
    <3>1. CASE l[1] = n
      <4>1. chan'[l] \in Remains(chan[l])
        BY <1>1, <3>1, PeersOf
      <4>2. chan'[l] \in Seq(Begun) /\ Len(chan'[l]) <= Len(chan[l])
        BY <4>1, LoadNat, RemainsOf
      <4>3. Len(chan'[l]) \in Nat
        BY <4>2, LenProperties
      <4> QED BY <4>2, <4>3
    <3>2. CASE chan'[l] = <<>>
      BY <2>1, <3>2, LoadNat
    <3>3. CASE chan'[l] = chan[l]
      BY <3>3, LoadNat
    <3> QED BY <1>1, <3>1, <3>2, <3>3
  <2> QED BY <2>2, <2>3
<1>3. chan' \in [Links -> Seq(Begun)] /\ held' \in [Links -> Seq(Begun)]
  BY <1>1, <1>2 DEF Die
<1>4. \A l \in Links : Load(l)' <= Load(l)
  BY <1>2, LoadNat, Sums DEF Load
<1> QED BY <1>3, <1>4 DEF Die, Still, TypeInv, TypeOK

LEMMA Throws ==
  ASSUME TypeInv, NEW n \in Nodes, Throw(n)
  PROVE  Still
<1>1. lost' \subseteq Nodes
  BY DEF Throw, TypeInv, TypeOK
<1>2. CASE phase[n] \in {"connect", "start"}
  BY <1>1, <1>2, Dies DEF Throw
<1>3. CASE phase[n] \notin {"connect", "start"}
  <2>1. /\ UNCHANGED <<nodeVars, updateVars, connected, data, linkVars, corked>>
        /\ state' = [state EXCEPT ![n] = "ended"]
    BY <1>3 DEF Throw
  <2>2. \A l \in Links : Load(l)' = Load(l)
    BY <2>1 DEF Load, linkVars
  <2> QED BY <1>1, <2>1, <2>2, LoadNat DEF Still, TypeInv, TypeOK, linkVars
<1> QED BY <1>2, <1>3

LEMMA Flushes ==
  ASSUME TypeInv, NEW l \in Links, Flush(l)
  PROVE  Still
<1>1. chan[l] \o held[l] \in Seq(Begun) /\ Len(chan[l] \o held[l]) = Load(l)
  BY LoadNat, ConcatProperties DEF Load
<1>2. /\ chan' = [chan EXCEPT ![l] = chan[l] \o held[l]]
      /\ held' = [held EXCEPT ![l] = <<>>]
  BY DEF Flush
<1>3. chan' \in [Links -> Seq(Begun)] /\ held' \in [Links -> Seq(Begun)]
  BY <1>1, <1>2 DEF TypeInv
<1>4. ASSUME NEW k \in Links PROVE Load(k)' <= Load(k)
  <2>1. CASE k = l
    <3>1. chan'[k] = chan[l] \o held[l] /\ held'[k] = <<>>
      BY <1>2, <2>1 DEF TypeInv
    <3> QED BY <1>1, <2>1, <3>1, LoadNat DEF Load
  <2>2. CASE k # l
    <3>1. chan'[k] = chan[k] /\ held'[k] = held[k]
      BY <1>2, <2>2 DEF TypeInv
    <3> QED BY <3>1, LoadNat DEF Load
  <2> QED BY <2>1, <2>2
<1> QED BY <1>3, <1>4 DEF Flush, Still, TypeInv, TypeOK, fateVars

-----------------------------------------------------------------------------
(* Types and places. *)

\* A node ends, or the system sends what it kept.
Quiet ==
    \/ \E n \in Nodes : Die(n) /\ lost' \subseteq Nodes
    \/ \E n \in Nodes : Throw(n) /\ state[n] = "up"
    \/ \E l \in Links : Flush(l)

\* A node goes on, whether its writes fail or not.
Loop(n) ==
    \/ windowOpened(n) \/ NoUpdate(n) \/ NoSwapBarrier(n)
    \/ n = Master /\ MasterBarrier
    \/ n \in Slaves /\ SlaveBarrier(n)
    \/ update(n) \/ UpdateFails(n)
    \/ Return(n)
    \/ n = Master /\ GoFails
    \/ \E p \in Peers(n) : recvBlock(n, p)

LEMMA QuietIsStill ==
  ASSUME TypeInv, Quiet
  PROVE  Still
BY Dies, Throws, Flushes DEF Quiet

\* Every step ends a node, moves blocks on, connects a slave, or is a node's own.
LEMMA Steps ==
  ASSUME TypeInv, Next
  PROVE  \/ Quiet
         \/ \E s \in Slaves : connectTo(s)
         \/ \E n \in Nodes : Loop(n)
<1>1. ASSUME NEW s \in Slaves, ConnectFails(s)
      PROVE  Quiet
  BY <1>1, PeersOf DEF ConnectFails, Quiet, Idle
<1>2. ASSUME NEW n \in Nodes, Fail(n)
      PROVE  Quiet \/ Loop(n)
  <2>1. ASSUME Die(n), UNCHANGED lost PROVE Quiet
    BY <2>1 DEF TypeInv, TypeOK, Quiet
  <2>2. CASE Lose(n)
    <3>1. lost' \subseteq Nodes
      BY <2>2 DEF Lose, TypeInv, TypeOK
    <3> QED BY <2>2, <3>1 DEF Lose, Quiet
  <2>3. CASE BrokenPipe(n)
    BY <2>1, <2>3 DEF BrokenPipe
  <2>4. CASE UpdateFails(n) \/ (n = Master /\ GoFails)
    BY <2>4 DEF Loop
  <2>5. CASE NullSocket(n)
    BY <2>1, <2>5 DEF NullSocket
  <2>6. CASE SelectFails(n)
    BY <2>6 DEF SelectFails, Waiting, Quiet
  <2>7. CASE \E p \in Peers(n) : EndOfFile(n, p)
    BY <2>7 DEF EndOfFile, Readable, Waiting, Quiet
  <2>8. CASE Killed(n)
    BY <2>1, <2>8 DEF Killed
  <2> QED BY <1>2, <2>2, <2>3, <2>4, <2>5, <2>6, <2>7, <2>8 DEF Fail
<1>3. ASSUME NEW n \in Nodes, Proceed(n)
      PROVE  Loop(n)
  BY <1>3 DEF Proceed, Loop
<1>4. ASSUME NEW l \in Links, Flush(l)
      PROVE  Quiet
  BY <1>4 DEF Quiet
<1> QED BY <1>1, <1>2, <1>3, <1>4 DEF Next

\* A phase a node leaves, and the one it comes to.
LEMMA PlaceOf ==
  ASSUME TypeInv, PlaceInv, NEW n \in Nodes, phase[n] \notin {"connect", "window"}, Advance(n),
         phase[n] \in {"preDraw", "postPostFrame"} => frame[n] <= MaxFrames
  PROVE  /\ phase' \in [Nodes -> Phases] /\ frame' \in [Nodes -> 0 .. MaxFrames + 1]
         /\ phase'[n] # "connect"
         /\ InFrame(n)' <=> frame'[n] >= 1
         /\ frame'[n] > MaxFrames => phase'[n] = "preDraw"
         /\ \A m \in Nodes \ {n} : phase'[m] = phase[m] /\ frame'[m] = frame[m]
<1>1. /\ phase[n] \in Phases /\ frame[n] \in 0 .. MaxFrames + 1 /\ MaxFrames \in Nat
      /\ phase' = [phase EXCEPT ![n] = NextPhase(n)]
      /\ frame' = [frame EXCEPT ![n] = IF NextPhase(n) = "preDraw" THEN frame[n] + 1 ELSE frame[n]]
  BY BoundsAssumption DEF Advance, TypeInv, TypeOK
<1>2. /\ phase'[n] = NextPhase(n)
      /\ frame'[n] = IF NextPhase(n) = "preDraw" THEN frame[n] + 1 ELSE frame[n]
      /\ \A m \in Nodes \ {n} : phase'[m] = phase[m] /\ frame'[m] = frame[m]
  BY <1>1 DEF TypeInv, TypeOK
<1>3. /\ InFrame(n) <=> frame[n] >= 1
      /\ frame[n] > MaxFrames => phase[n] = "preDraw"
  BY DEF PlaceInv
<1>4. NextPhase(n) \in {"window", "preDraw", "draw", "postPostFrame"}
  BY <1>1 DEF NextPhase, Phases
<1>5. frame'[n] \in 0 .. MaxFrames + 1 /\ (InFrame(n)' <=> frame'[n] >= 1)
  <2>1. CASE phase[n] = "start"
    BY <1>1, <1>2, <1>3, <2>1 DEF NextPhase, InFrame
  <2>2. CASE phase[n] = "first"
    BY <1>1, <1>2, <1>3, <2>2 DEF NextPhase, InFrame
  <2>3. CASE phase[n] = "preDraw"
    BY <1>1, <1>2, <1>3, <2>3 DEF NextPhase, InFrame
  <2>4. CASE phase[n] = "draw"
    BY <1>1, <1>2, <1>3, <2>4 DEF NextPhase, InFrame
  <2>5. CASE phase[n] = "postPostFrame"
    BY <1>1, <1>2, <1>3, <2>5 DEF NextPhase, InFrame
  <2> QED BY <1>1, <2>1, <2>2, <2>3, <2>4, <2>5 DEF Phases
<1>6. frame'[n] > MaxFrames => phase'[n] = "preDraw"
  BY <1>1, <1>2, <1>3
<1>7. phase' \in [Nodes -> Phases] /\ frame' \in [Nodes -> 0 .. MaxFrames + 1]
  BY <1>1, <1>2, <1>4, <1>5 DEF TypeInv, TypeOK, Phases
<1> QED BY <1>2, <1>4, <1>5, <1>6, <1>7

LEMMA CardsOf ==
  ASSUME NEW n \in Nodes, NEW S \in SUBSET Peers(n)
  PROVE  IsFiniteSet(S) /\ Cardinality(S) \in Nat /\ Cardinality(S) <= Cardinality(Peers(n))
<1>1. IsFiniteSet(S) /\ Cardinality(S) <= Cardinality(Peers(n))
  BY PeersOf, FS_Subset
<1> QED BY <1>1, FS_CardinalityType

\* What updateAllNodes() does to the types.
LEMMA UpdateTypes ==
  ASSUME TypeInv, NEW n \in Nodes, NEW count \in 0 .. Cardinality(Peers(n)),
         UpdateAllNodes(n, count)
  PROVE  /\ updating' \subseteq Nodes /\ mUpdated' \in [Nodes -> SUBSET Nodes]
         /\ completed' \in [Nodes -> Nat] /\ numNodes' \in [Nodes -> Nat]
         /\ \A m \in Nodes : /\ mUpdated'[m] \subseteq Peers(m)
                             /\ completed'[m] <= numNodes'[m]
                             /\ numNodes'[m] <= Cardinality(Peers(m))
<1>1. Cardinality(Peers(n)) \in Nat
  BY PeersOf
<1>2. count \in Nat /\ count <= Cardinality(Peers(n))
  BY <1>1
<1> QED BY <1>2 DEF UpdateAllNodes, TypeInv, TypeOK

LEMMA BlockOf ==
  ASSUME TypeInv, PlaceInv, NEW n \in Nodes,
         phase[n] \in {"preDraw", "postPostFrame"} => frame[n] <= MaxFrames
  PROVE  Block(n) \in Begun
BY DEF TypeInv, TypeOK, Block, Begun, Blocks, Phases

\* A node that is not in updateAllNodes() goes on.
Moves(n) == windowOpened(n) \/ NoUpdate(n) \/ NoSwapBarrier(n)

LEMMA MovesTypes ==
  ASSUME TypeInv, PlaceInv, NEW n \in Nodes, Moves(n)
  PROVE  TypeInv' /\ PlaceInv'
<1>1. UNCHANGED <<setup, fateVars, updateVars, linkVars, data, connected>>
  BY DEF Moves, windowOpened, NoUpdate, NoSwapBarrier
<1>2. corked' \subseteq Nodes /\ n \notin updating
  BY DEF Moves, windowOpened, NoUpdate, NoSwapBarrier, AtUpdate, Idle, TypeInv, TypeOK
<1>3. /\ phase' \in [Nodes -> Phases] /\ frame' \in [Nodes -> 0 .. MaxFrames + 1]
      /\ InFrame(n)' <=> frame'[n] >= 1
      /\ frame'[n] > MaxFrames => phase'[n] = "preDraw"
      /\ \A m \in Nodes \ {n} : phase'[m] = phase[m] /\ frame'[m] = frame[m]
  <2>1. CASE windowOpened(n)
    <3>1. phase[n] = "window" /\ phase' = [phase EXCEPT ![n] = "first"] /\ frame' = frame
      BY <2>1 DEF windowOpened
    <3>2. phase' \in [Nodes -> Phases] /\ phase'[n] = "first"
      BY <3>1 DEF TypeInv, TypeOK, Phases
    <3> QED BY <3>1, <3>2 DEF TypeInv, TypeOK, PlaceInv, InFrame
  <2>2. CASE NoUpdate(n) \/ NoSwapBarrier(n)
    <3>1. /\ Advance(n) /\ phase[n] \in {"preDraw", "draw", "postPostFrame"}
          /\ phase[n] \in {"preDraw", "postPostFrame"} => frame[n] <= MaxFrames
      BY <2>2 DEF NoUpdate, NoSwapBarrier, AtUpdate
    <3> QED BY <3>1, PlaceOf
  <2> QED BY <2>1, <2>2 DEF Moves
<1>4. TypeInv'
  BY <1>1, <1>2, <1>3 DEF TypeInv, TypeOK, fateVars, updateVars, linkVars
<1>5. PlaceInv'
  BY <1>1, <1>2, <1>3 DEF PlaceInv, InFrame, updateVars, HasPlugins, SwapLock
<1> QED BY <1>4, <1>5

LEMMA ConnectTypes ==
  ASSUME TypeInv, PlaceInv, NEW s \in Slaves, connectTo(s)
  PROVE  TypeInv' /\ PlaceInv'
<1>1. s \in Nodes /\ Master \in Nodes /\ s # Master /\ Peers(s) = {Master} /\ Peers(Master) = Slaves
  BY NodesAssumption DEF Nodes, Peers
<1>2. /\ UNCHANGED <<setup, frame, fateVars, updateVars, linkVars, data, corked>>
      /\ connected' = [connected EXCEPT ![Master] = @ \cup {s}, ![s] = {Master}]
      /\ phase' = [phase EXCEPT ![s] = "start",
                      ![Master] = IF connected'[Master] = Slaves THEN "start" ELSE "connect"]
      /\ phase[s] = "connect" /\ phase[Master] = "connect"
      /\ s \notin updating /\ Master \notin updating
  BY DEF connectTo, Idle
<1>3. /\ connected' \in [Nodes -> SUBSET Nodes]
      /\ \A n \in Nodes : connected'[n] \subseteq Peers(n)
  BY <1>1, <1>2 DEF TypeInv, TypeOK
<1>4. /\ phase' \in [Nodes -> Phases]
      /\ phase'[s] = "start" /\ phase'[Master] \in {"connect", "start"}
      /\ \A n \in Nodes \ {s, Master} : phase'[n] = phase[n]
  BY <1>1, <1>2 DEF TypeInv, TypeOK, Phases
<1>5. TypeInv'
  BY <1>2, <1>3, <1>4 DEF TypeInv, TypeOK, fateVars, updateVars, linkVars
<1>6. \A n \in Nodes : InFrame(n)' <=> InFrame(n)
  BY <1>1, <1>2, <1>4 DEF InFrame
<1>7. PlaceInv'
  BY <1>1, <1>2, <1>4, <1>6 DEF PlaceInv, updateVars, HasPlugins, SwapLock, InFrame
<1> QED BY <1>5, <1>7

\* A node comes to a synchronisation for count nodes, having written its block to those in ps.
Enters(n, count, ps) ==
    /\ state[n] = "up" /\ n \notin updating /\ phase[n] \notin {"connect", "window"}
    /\ phase[n] \in {"preDraw", "postPostFrame"} => HasPlugins /\ frame[n] <= MaxFrames
    /\ phase[n] = "draw" => SwapLock
    /\ UpdateAllNodes(n, count) /\ count \in 0 .. Cardinality(Peers(n))
    /\ ps \in SUBSET Peers(n) /\ connected'[n] \subseteq connected[n]
    /\ \A m \in Nodes \ {n} : connected'[m] = connected[m]
    /\ connected' \in [Nodes -> SUBSET Nodes]
    /\ Write(n, ps) \/ WriteAndUncork(n, ps)
    /\ UNCHANGED <<nodeVars, lost, data>>
    /\ corked' \subseteq corked
    /\ state' \in [Nodes -> {"up", "ended", "signalled", "dead"}]
    /\ state'[n] = "up" /\ (n = Master \/ connected'[n] # {}) => count = Cardinality(Peers(n))
    /\ \A m \in Nodes \ {n} : state'[m] = state[m]

\* barrier() and update() come to it, whether their writes fail or not.
LEMMA Entering ==
  ASSUME TypeInv, PlaceInv, NEW n \in Nodes,
         \/ n = Master /\ MasterBarrier
         \/ n \in Slaves /\ SlaveBarrier(n)
         \/ update(n) \/ UpdateFails(n)
  PROVE  \E count \in 0 .. Cardinality(Peers(n)), ps \in SUBSET Peers(n) :
            /\ Enters(n, count, ps)
            /\ n = Master /\ phase[n] \notin {"preDraw", "postPostFrame"} => ps = {}
            /\ phase[n] \in {"preDraw", "postPostFrame"} =>
                  /\ Whole(n) /\ connected' = connected
                  /\ state'[n] = "up" => ps = Peers(n)
<1>1. Cardinality(Peers(n)) \in Nat /\ {} \in SUBSET Peers(n)
  BY PeersOf
<1>2. TypeInv => /\ connected \in [Nodes -> SUBSET Nodes] /\ connected[n] \subseteq Peers(n)
                 /\ state \in [Nodes -> {"up", "ended", "signalled", "dead"}] /\ corked \subseteq Nodes
  BY DEF TypeInv, TypeOK
<1>3. CASE n = Master /\ MasterBarrier
  <2> DEFINE c == Cardinality(Slaves)
  <2>1. c \in 0 .. Cardinality(Peers(n)) /\ c = Cardinality(Peers(n))
    BY <1>1, <1>3, PeersOf
  <2>2. AtBarrier(n) /\ UpdateAllNodes(n, c)
        /\ UNCHANGED <<nodeVars, fateVars, linkVars, data, connected, corked>>
    BY <1>3 DEF MasterBarrier
  <2>3. Write(n, {})
    <3>1. \A l \in Links : chan[l] \o <<>> = chan[l] /\ held[l] \o <<>> = held[l]
      BY LoadNat, ConcatEmptySeq
    <3>2. /\ [l \in Links |-> chan[l] \o <<>>] = chan
          /\ [l \in Links |-> held[l] \o <<>>] = held
      BY <3>1 DEF TypeInv
    <3> QED BY <2>2, <3>2 DEF Write, linkVars
  <2>4. /\ Idle(n) /\ (phase[n] \in {"start", "first"} \/ (phase[n] = "draw" /\ SwapLock))
        /\ state[n] = "up" /\ n \notin updating
    BY <2>2 DEF AtBarrier, Idle
  <2> HIDE DEF c
  <2>5. Enters(n, c, {})
    BY <1>1, <1>2, <2>1, <2>2, <2>3, <2>4 DEF Enters, fateVars
  <2> QED BY <1>1, <2>1, <2>4, <2>5
<1>4. CASE n \in Slaves /\ SlaveBarrier(n)
  <2>1. PICK failed \in SUBSET Broken(n) :
           /\ connected' = [connected EXCEPT ![n] = @ \ failed]
           /\ Write(n, connected'[n])
           /\ UpdateAllNodes(n, Cardinality(connected'[n]))
    BY <1>4 DEF SlaveBarrier
  <2> DEFINE c == Cardinality(connected'[n])
  <2>2. connected'[n] \subseteq connected[n] /\ connected'[n] \in SUBSET Peers(n)
    BY <1>2, <2>1
  <2>3. c \in 0 .. Cardinality(Peers(n))
    BY <1>1, <2>2, CardsOf
  <2>4. /\ state[n] = "up" /\ n \notin updating
        /\ phase[n] \in {"start", "first"} \/ (phase[n] = "draw" /\ SwapLock)
        /\ UNCHANGED <<nodeVars, fateVars, data, corked>>
    BY <1>4 DEF SlaveBarrier, AtBarrier, Idle
  <2>5. connected'[n] # {} => c = Cardinality(Peers(n))
    BY <1>4, <2>2, NodesAssumption DEF Peers
  <2>6. n # Master
    BY <1>4, NodesAssumption
  <2>7. UpdateAllNodes(n, c) /\ Write(n, connected'[n])
    BY <2>1
  <2>8. /\ connected' \in [Nodes -> SUBSET Nodes]
        /\ \A m \in Nodes \ {n} : connected'[m] = connected[m]
    BY <1>2, <2>1
  <2> HIDE DEF c
  <2>9. Enters(n, c, connected'[n])
    BY <1>2, <2>2, <2>3, <2>4, <2>5, <2>6, <2>7, <2>8 DEF Enters, fateVars
  <2> QED BY <2>2, <2>3, <2>4, <2>6, <2>9
<1>5. CASE update(n)
  <2> DEFINE c == Cardinality(Peers(n))
  <2>1. /\ AtUpdate(n) /\ HasPlugins /\ connected[n] = Peers(n)
        /\ WriteAndUncork(n, Peers(n)) /\ UpdateAllNodes(n, c)
        /\ UNCHANGED <<nodeVars, fateVars, data, connected>>
    BY <1>5 DEF update
  <2>2. c \in 0 .. Cardinality(Peers(n)) /\ Peers(n) \in SUBSET Peers(n)
    BY <1>1
  <2>3. /\ state[n] = "up" /\ n \notin updating /\ phase[n] \in {"preDraw", "postPostFrame"}
        /\ frame[n] <= MaxFrames
    BY <2>1 DEF AtUpdate, Idle
  <2>4. corked' \subseteq corked
    BY <1>2, <2>1 DEF WriteAndUncork
  <2>5. Enters(n, c, Peers(n))
    BY <1>2, <2>1, <2>2, <2>3, <2>4 DEF Enters, fateVars
  <2> QED BY <2>1, <2>2, <2>3, <2>5 DEF Whole
<1>6. CASE UpdateFails(n)
  <2>1. /\ AtUpdate(n) /\ HasPlugins /\ connected[n] = Peers(n)
        /\ \E ps \in SUBSET (Peers(n) \ Broken(n)) : WriteAndUncork(n, ps)
        /\ \E end \in {"ended", "signalled"} : state' = [state EXCEPT ![n] = end]
        /\ UpdateAllNodes(n, 0)
        /\ UNCHANGED <<nodeVars, lost, data, connected>>
    BY <1>6 DEF UpdateFails
  <2>2. PICK ps \in SUBSET Peers(n) : WriteAndUncork(n, ps)
    BY <2>1
  <2>3. /\ state[n] = "up" /\ n \notin updating /\ phase[n] \in {"preDraw", "postPostFrame"}
        /\ frame[n] <= MaxFrames /\ 0 \in 0 .. Cardinality(Peers(n))
    BY <1>1, <2>1 DEF AtUpdate, Idle
  <2>4. corked' \subseteq corked
    BY <1>2, <2>2 DEF WriteAndUncork
  <2>5. /\ state' \in [Nodes -> {"up", "ended", "signalled", "dead"}] /\ state'[n] # "up"
        /\ \A m \in Nodes \ {n} : state'[m] = state[m]
    BY <1>2, <2>1
  <2>6. Enters(n, 0, ps)
    BY <1>2, <2>1, <2>2, <2>3, <2>4, <2>5 DEF Enters
  <2>7. ps \in SUBSET Peers(n) /\ state'[n] # "up" /\ 0 \in 0 .. Cardinality(Peers(n))
    BY <2>3, <2>5
  <2> QED BY <2>1, <2>3, <2>6, <2>7 DEF Whole
<1> QED BY <1>3, <1>4, <1>5, <1>6

LEMMA EntersTypes ==
  ASSUME TypeInv, PlaceInv, NEW n \in Nodes, NEW count, NEW ps, Enters(n, count, ps)
  PROVE  TypeInv' /\ PlaceInv'
<1>1. count \in 0 .. Cardinality(Peers(n)) /\ ps \in SUBSET Peers(n) /\ UpdateAllNodes(n, count)
  BY DEF Enters
<1>2. Block(n) \in Begun
  BY BlockOf DEF Enters
<1>3. chan' \in [Links -> Seq(Begun)] /\ held' \in [Links -> Seq(Begun)]
  BY <1>1, <1>2, Writing DEF Enters
<1>4. /\ updating' \subseteq Nodes /\ mUpdated' \in [Nodes -> SUBSET Nodes]
      /\ completed' \in [Nodes -> Nat] /\ numNodes' \in [Nodes -> Nat]
      /\ \A m \in Nodes : /\ mUpdated'[m] \subseteq Peers(m)
                          /\ completed'[m] <= numNodes'[m]
                          /\ numNodes'[m] <= Cardinality(Peers(m))
  BY <1>1, UpdateTypes
<1>5. /\ connected' \in [Nodes -> SUBSET Nodes]
      /\ \A m \in Nodes : connected'[m] \subseteq Peers(m)
  BY DEF Enters, TypeInv, TypeOK
<1>6. Seq(Begun) \subseteq Seq(Blocks)
  BY SeqMonotonic DEF Begun
<1>7. chan' \in [Links -> Seq(Blocks)] /\ held' \in [Links -> Seq(Blocks)]
  BY <1>3, <1>6
<1>8. TypeInv'
  BY <1>3, <1>4, <1>5, <1>7 DEF Enters, TypeInv, TypeOK, nodeVars
<1>9. ASSUME NEW m \in Nodes
      PROVE  /\ InFrame(m)' <=> frame'[m] >= 1
             /\ frame'[m] > MaxFrames => phase'[m] = "preDraw" /\ m \notin updating'
             /\ m \in updating' =>
                   /\ phase'[m] \notin {"connect", "window"}
                   /\ phase'[m] \in {"preDraw", "postPostFrame"} => HasPlugins'
                   /\ phase'[m] = "draw" => SwapLock'
  <2>1. updating' = updating \cup {n} /\ phase' = phase /\ frame' = frame /\ setup' = setup
    BY DEF Enters, UpdateAllNodes, nodeVars
  <2>2. CASE m = n
    <3>1. frame[n] > MaxFrames => phase[n] = "preDraw"
      BY DEF PlaceInv
    <3>2. frame[n] \in Nat /\ MaxFrames \in Nat
      BY BoundsAssumption DEF TypeInv, TypeOK
    <3>3. ~(frame[n] > MaxFrames)
      BY <3>1, <3>2 DEF Enters
    <3> QED BY <2>1, <2>2, <3>3 DEF Enters, PlaceInv, InFrame, HasPlugins, SwapLock
  <2>3. CASE m # n
    BY <2>1, <2>3 DEF PlaceInv, InFrame, HasPlugins, SwapLock
  <2> QED BY <2>2, <2>3
<1>10. PlaceInv'
  BY <1>9 DEF PlaceInv
<1> QED BY <1>8, <1>10

\* A node leaves a synchronisation; the master of a barrier writes its block to those in ps.
Leaves(n, ps) ==
    /\ Returns(n) /\ phase[n] \notin {"connect", "window"} /\ frame[n] <= MaxFrames
    /\ updating' = updating \ {n}
    /\ connected'[n] \subseteq connected[n] /\ connected' \in [Nodes -> SUBSET Nodes]
    /\ \A m \in Nodes \ {n} : connected'[m] = connected[m]
    /\ ps \in SUBSET Peers(n) /\ ps \subseteq connected[n]
    /\ IF n = Master /\ AtGo THEN Write(n, ps) ELSE UNCHANGED linkVars /\ ps = {}
    /\ Advance(n)
    /\ state' \in [Nodes -> {"up", "ended", "signalled", "dead"}]
    /\ \A m \in Nodes \ {n} : state'[m] = state[m]
    /\ UNCHANGED <<setup, lost, mUpdated, numNodes, completed, data, corked>>

LEMMA Leaving ==
  ASSUME TypeInv, PlaceInv, NEW n \in Nodes, Return(n) \/ (n = Master /\ GoFails)
  PROVE  \E ps : /\ Leaves(n, ps)
                 /\ n = Master /\ AtGo /\ state'[n] = "up" => ps = connected'[n]
<1>1. n \in updating /\ phase[n] \notin {"connect", "window"} /\ frame[n] <= MaxFrames
  <2>1. frame[n] \in Nat /\ MaxFrames \in Nat
    BY BoundsAssumption DEF TypeInv, TypeOK
  <2>2. Returns(n)
    BY DEF Return, GoFails, AtGo
  <2> QED BY <2>1, <2>2 DEF Returns, PlaceInv
<1>2. CASE Return(n) /\ n = Master /\ AtGo
  <2>1. PICK failed \in SUBSET Broken(n) :
           connected' = [connected EXCEPT ![n] = @ \ failed] /\ Write(n, connected'[n])
    BY <1>2 DEF Return
  <2>2. /\ connected'[n] \subseteq connected[n] /\ connected' \in [Nodes -> SUBSET Nodes]
        /\ \A m \in Nodes \ {n} : connected'[m] = connected[m]
        /\ connected'[n] \in SUBSET Peers(n)
    BY <2>1 DEF TypeInv, TypeOK
  <2>3. Leaves(n, connected'[n])
    BY <1>1, <1>2, <2>1, <2>2 DEF Leaves, Return, fateVars, TypeInv, TypeOK
  <2> QED BY <2>3
<1>3. CASE Return(n) /\ ~(n = Master /\ AtGo)
  <2>1. Leaves(n, {})
    BY <1>1, <1>3 DEF Leaves, Return, fateVars, TypeInv, TypeOK
  <2> QED BY <1>3, <2>1
<1>4. CASE n = Master /\ GoFails
  <2>1. PICK ps \in SUBSET (connected[n] \ Broken(n)) : Write(n, ps)
    BY <1>4 DEF GoFails
  <2>2. /\ connected' = connected /\ connected \in [Nodes -> SUBSET Nodes]
        /\ ps \in SUBSET Peers(n) /\ ps \subseteq connected[n] /\ AtGo /\ Returns(n)
    BY <1>4, <2>1 DEF GoFails, AtGo, TypeInv, TypeOK
  <2>3. /\ state' \in [Nodes -> {"up", "ended", "signalled", "dead"}] /\ state'[n] # "up"
        /\ \A m \in Nodes \ {n} : state'[m] = state[m]
    BY <1>4 DEF GoFails, TypeInv, TypeOK
  <2>4. Leaves(n, ps)
    BY <1>1, <1>4, <2>1, <2>2, <2>3 DEF Leaves, GoFails
  <2> QED BY <2>3, <2>4
<1> QED BY <1>2, <1>3, <1>4

LEMMA LeavesTypes ==
  ASSUME TypeInv, PlaceInv, NEW n \in Nodes, NEW ps, Leaves(n, ps)
  PROVE  TypeInv' /\ PlaceInv'
<1>1. chan' \in [Links -> Seq(Begun)] /\ held' \in [Links -> Seq(Begun)]
  <2>1. CASE n = Master /\ AtGo
    <3>1. Block(n) \in Begun
      BY BlockOf DEF Leaves
    <3> QED BY <2>1, <3>1, Writing DEF Leaves
  <2>2. CASE ~(n = Master /\ AtGo)
    BY <2>2 DEF Leaves, linkVars, TypeInv
  <2> QED BY <2>1, <2>2
<1>2. Seq(Begun) \subseteq Seq(Blocks)
  BY SeqMonotonic DEF Begun
<1>3. chan' \in [Links -> Seq(Blocks)] /\ held' \in [Links -> Seq(Blocks)]
  BY <1>1, <1>2
<1>4. /\ phase' \in [Nodes -> Phases] /\ frame' \in [Nodes -> 0 .. MaxFrames + 1]
      /\ InFrame(n)' <=> frame'[n] >= 1
      /\ frame'[n] > MaxFrames => phase'[n] = "preDraw"
      /\ \A m \in Nodes \ {n} : phase'[m] = phase[m] /\ frame'[m] = frame[m]
  BY PlaceOf DEF Leaves
<1>5. \A m \in Nodes : connected'[m] \subseteq Peers(m)
  <2>1. \A m \in Nodes : connected[m] \subseteq Peers(m)
    BY DEF TypeInv, TypeOK
  <2> QED BY <2>1 DEF Leaves
<1>6. TypeInv'
  BY <1>1, <1>3, <1>4, <1>5 DEF Leaves, TypeInv, TypeOK
<1>7. PlaceInv'
  BY <1>4 DEF Leaves, PlaceInv, InFrame, HasPlugins, SwapLock
<1> QED BY <1>6, <1>7

LEMMA RecvTypes ==
  ASSUME TypeInv, PlaceInv, NEW n \in Nodes, NEW p \in Peers(n), recvBlock(n, p)
  PROVE  /\ TypeInv' /\ PlaceInv'
         /\ \A l \in Links : Load(l)' = Load(l) - Count(l = <<p, n>>)
<1> DEFINE k == <<p, n>>
           b == Head(chan[k])
<1>1. k \in Links /\ chan[k] \in Seq(Begun) /\ chan[k] # <<>>
  BY PeersOf, LoadNat DEF recvBlock
<1>2. b \in Begun /\ Tail(chan[k]) \in Seq(Begun) /\ Len(Tail(chan[k])) = Len(chan[k]) - 1
  BY <1>1, HeadTailProperties
<1>3. chan' = [chan EXCEPT ![k] = Tail(chan[k])] /\ held' = held
  BY DEF recvBlock
<1>4. chan' \in [Links -> Seq(Begun)] /\ held' \in [Links -> Seq(Begun)]
  BY <1>2, <1>3 DEF TypeInv
<1>5. Seq(Begun) \subseteq Seq(Blocks)
  BY SeqMonotonic DEF Begun
<1>6. chan' \in [Links -> Seq(Blocks)] /\ held' \in [Links -> Seq(Blocks)]
  BY <1>4, <1>5
<1>7. /\ completed' \in [Nodes -> Nat]
      /\ \A m \in Nodes : completed'[m] <= numNodes[m]
  BY DEF recvBlock, Readable, Waiting, TypeInv, TypeOK
<1>8. /\ connected' \in [Nodes -> SUBSET Nodes] /\ mUpdated' \in [Nodes -> SUBSET Nodes]
      /\ \A m \in Nodes : connected'[m] \subseteq Peers(m) /\ mUpdated'[m] \subseteq Peers(m)
  <2>1. /\ connected \in [Nodes -> SUBSET Nodes] /\ mUpdated \in [Nodes -> SUBSET Nodes]
        /\ \A m \in Nodes : connected[m] \subseteq Peers(m) /\ mUpdated[m] \subseteq Peers(m)
        /\ p \in Nodes
    BY PeersOf DEF TypeInv, TypeOK
  <2>2. CASE b.kind = "cut"
    <3>1. connected' = [connected EXCEPT ![n] = @ \ {p}] /\ mUpdated' = mUpdated
      BY <2>2 DEF recvBlock
    <3> QED BY <2>1, <3>1
  <2>3. CASE b.kind # "cut"
    <3>1. mUpdated' = [mUpdated EXCEPT ![n] = @ \cup {p}] /\ connected' = connected
      BY <2>3 DEF recvBlock
    <3> QED BY <2>1, <3>1
  <2> QED BY <2>2, <2>3
<1>9. data' \in [Slaves -> [config : BOOLEAN, app : 0 .. MaxFrames, device : 0 .. MaxFrames]]
  <2>1. data \in [Slaves -> [config : BOOLEAN, app : 0 .. MaxFrames, device : 0 .. MaxFrames]]
    BY DEF TypeInv, TypeOK
  <2>2. ASSUME NEW d \in [config : BOOLEAN, app : 0 .. MaxFrames, device : 0 .. MaxFrames]
        PROVE  Received(d, b) \in [config : BOOLEAN, app : 0 .. MaxFrames, device : 0 .. MaxFrames]
    <3>1. b.kind \in {"preDraw", "postPostFrame"} => b.frame \in 0 .. MaxFrames
      BY <1>2, BoundsAssumption DEF Begun, Blocks
    <3> HIDE DEF b
    <3> QED BY <3>1 DEF Received
  <2>3. data' = data \/ (n \in Slaves /\ data' = [data EXCEPT ![n] = Received(@, b)])
    BY DEF recvBlock
  <2> HIDE DEF b
  <2> QED BY <2>1, <2>2, <2>3
<1>10. UNCHANGED <<nodeVars, fateVars, updating, numNodes, held, corked>>
  BY DEF recvBlock
<1>11. TypeInv'
  BY <1>4, <1>6, <1>7, <1>8, <1>9, <1>10 DEF TypeInv, TypeOK, nodeVars, fateVars
<1>12. PlaceInv'
  BY <1>10 DEF PlaceInv, InFrame, HasPlugins, SwapLock, nodeVars
<1>13. ASSUME NEW l \in Links PROVE Load(l)' = Load(l) - Count(l = <<p, n>>)
  <2>1. CASE l = k
    <3>1. chan'[l] = Tail(chan[k]) /\ held'[l] = held[k]
      BY <1>1, <1>3, <2>1 DEF TypeInv
    <3> DEFINE a == Len(chan[k])
               c == Len(held[k])
    <3>2. a \in Nat /\ c \in Nat /\ Load(l)' = (a - 1) + c /\ Load(l) = a + c
      BY <1>1, <1>2, <2>1, <3>1, LoadNat DEF Load
    <3>3. Count(l = <<p, n>>) = 1
      BY <2>1 DEF Count
    <3> HIDE DEF a, c, k
    <3> QED BY <3>2, <3>3
  <2>2. CASE l # k
    <3>1. chan'[l] = chan[l] /\ held'[l] = held[l]
      BY <1>1, <1>3, <2>2 DEF TypeInv
    <3>2. Load(l)' = Load(l) /\ Count(l = <<p, n>>) = 0
      BY <2>2, <3>1 DEF Load, Count
    <3> QED BY <3>2, LoadNat
  <2> QED BY <2>1, <2>2
<1> QED BY <1>11, <1>12, <1>13

-----------------------------------------------------------------------------
(* Blocks sent, read and under way. *)

LEMMA CountsOf ==
  ASSUME TypeInv, PlaceInv, NEW n \in Nodes
  PROVE  /\ Left(n) \in Nat /\ Sent(n) \in Nat /\ Sent(n) \in {Left(n), Left(n) + 1}
         /\ n \notin updating => Sent(n) = Left(n)
         /\ \A p : /\ Recv(n, p) \in Nat
                   /\ Recv(n, p) = IF n \in updating /\ p \in mUpdated[n]
                                   THEN Left(n) + 1 ELSE Left(n)
<1>1. Left(n) \in Nat
  BY LeftNat
<1>2. Count(n \in updating) = IF n \in updating THEN 1 ELSE 0
  BY DEF Count
<1>3. Sent(n) \in {Left(n), Left(n) + 1} /\ (n \notin updating => Sent(n) = Left(n))
  BY <1>1, <1>2 DEF Sent
<1>4. ASSUME NEW p
      PROVE  Recv(n, p) = IF n \in updating /\ p \in mUpdated[n] THEN Left(n) + 1 ELSE Left(n)
  BY <1>1 DEF Recv, Count
<1> QED BY <1>1, <1>3, <1>4

\* The same of the next state.
LEMMA CountsNext ==
  TypeInv' /\ PlaceInv' =>
      /\ \A n \in Nodes : (/\ Left(n) \in Nat /\ Sent(n) \in Nat
                           /\ n \notin updating => Sent(n) = Left(n))'
      /\ \A l \in Links : Load(l)' \in Nat
<1>1. TypeInv /\ PlaceInv =>
         /\ \A n \in Nodes : /\ Left(n) \in Nat /\ Sent(n) \in Nat
                             /\ n \notin updating => Sent(n) = Left(n)
         /\ \A l \in Links : Load(l) \in Nat
  BY CountsOf, LoadNat
<1>2. (TypeInv /\ PlaceInv =>
         /\ \A n \in Nodes : /\ Left(n) \in Nat /\ Sent(n) \in Nat
                             /\ n \notin updating => Sent(n) = Left(n)
         /\ \A l \in Links : Load(l) \in Nat)'
  BY <1>1, PTL
<1> QED BY <1>2

\* A node's count of the blocks it read stays within those that came for it.
LEMMA GotKept ==
  ASSUME TypeInv, NEW n \in Nodes, Left(n)' = Left(n), Left(n) \in Nat,
         \A p \in Nodes : Sent(p) \in Nat /\ Sent(p)' \in Nat /\ Sent(p)' >= Sent(p),
         mUpdated'[n] = mUpdated[n], connected'[n] \subseteq connected[n],
         completed'[n] = completed[n], completed[n] <= Cardinality(Got(n))
  PROVE  completed'[n] <= Cardinality(Got(n)')
<1>1. Got(n) \subseteq Got(n)' /\ Got(n)' \subseteq Peers(n)
  BY PeersOf DEF Got
<1>2. IsFiniteSet(Got(n)') /\ Cardinality(Got(n)') \in Nat
  BY <1>1, CardsOf
<1>3. Cardinality(Got(n)) \in Nat /\ Cardinality(Got(n)) <= Cardinality(Got(n)')
  <2>1. Got(n) \in SUBSET Got(n)' /\ Got(n) \in SUBSET Peers(n)
    BY <1>1
  <2> QED BY <1>2, <2>1, CardsOf, FS_Subset
<1>4. completed[n] \in Nat
  BY DEF TypeInv, TypeOK
<1> QED BY <1>2, <1>3, <1>4

LEMMA StillStep ==
  ASSUME Inv, Still
  PROVE  Inv'
<1> USE DEF Inv
<1>1. UNCHANGED <<setup, phase, frame, updating, mUpdated, numNodes, completed, connected, data>>
  BY DEF Still, nodeVars, updateVars
<1>2. \A n \in Nodes : /\ Left(n)' = Left(n) /\ Sent(n)' = Sent(n) /\ Got(n)' = Got(n)
                       /\ \A p : Recv(n, p)' = Recv(n, p)
  <2>1. \A n \in Nodes : Left(n)' = Left(n)
    BY <1>1 DEF Left, PerFrame, HasPlugins, SwapLock
  <2>2. \A n \in Nodes : Sent(n)' = Sent(n) /\ \A p : Recv(n, p)' = Recv(n, p)
    BY <1>1, <2>1 DEF Sent, Recv
  <2> QED BY <1>1, <2>1, <2>2, PeersOf DEF Got
<1>3. TypeInv'
  <2>1. Seq(Begun) \subseteq Seq(Blocks)
    BY SeqMonotonic DEF Begun
  <2>2. chan' \in [Links -> Seq(Blocks)] /\ held' \in [Links -> Seq(Blocks)]
    BY <2>1 DEF Still
  <2> QED BY <1>1, <2>2 DEF Still, TypeInv, TypeOK
<1>4. PlaceInv'
  BY <1>1 DEF PlaceInv, InFrame, HasPlugins, SwapLock
<1>5. LinkInv'
  <2> SUFFICES ASSUME NEW n \in Nodes, NEW p \in Peers(n),
                      p \in connected[n] \/ phase[n] = "connect"
               PROVE  Recv(n, p) + Load(<<p, n>>)' <= Sent(p)
    BY <1>1, <1>2, PeersOf DEF LinkInv
  <2>1. <<p, n>> \in Links /\ p \in Nodes
    BY PeersOf
  <2>2. Recv(n, p) + Load(<<p, n>>) <= Sent(p)
    BY DEF LinkInv
  <2>3. Load(<<p, n>>)' <= Load(<<p, n>>)
    BY <2>1 DEF Still
  <2>4. Load(<<p, n>>) \in Nat /\ Load(<<p, n>>)' \in Nat /\ Recv(n, p) \in Nat /\ Sent(p) \in Nat
    BY <1>3, <1>4, <2>1, LoadNat, CountsOf, CountsNext
  <2> QED BY <2>2, <2>3, <2>4
<1>6. GotInv' /\ NumInv' /\ BehindInv'
  <2>1. updating \subseteq Nodes /\ Slaves \subseteq Nodes /\ Master \in Nodes
    BY PeersOf DEF TypeInv, TypeOK
  <2>2. \A n \in Nodes : state'[n] = "up" => state[n] = "up"
    BY DEF Still
  <2> QED BY <1>1, <1>2, <2>1, <2>2 DEF GotInv, NumInv, BehindInv
<1> QED BY <1>3, <1>4, <1>5, <1>6

LEMMA MovesCounts ==
  ASSUME TypeInv, PlaceInv, TypeInv', PlaceInv', NEW n \in Nodes, Moves(n)
  PROVE  /\ phase[n] # "connect" /\ phase'[n] # "connect"
         /\ \A m \in Nodes : /\ Left(m)' = Left(m) /\ Sent(m)' = Sent(m)
                             /\ m # n => phase'[m] = phase[m]
                             /\ \A p : Recv(m, p)' = Recv(m, p)
<1>1. /\ n \notin updating
      /\ UNCHANGED <<setup, fateVars, updateVars, linkVars, data, connected>>
  BY DEF Moves, windowOpened, NoUpdate, NoSwapBarrier, AtUpdate, Idle
<1>2. /\ phase[n] # "connect" /\ phase'[n] # "connect"
      /\ \A m \in Nodes : Left(m)' = Left(m) /\ (m # n => phase'[m] = phase[m])
  <2>1. CASE windowOpened(n)
    <3>1. phase[n] = "window" /\ phase' = [phase EXCEPT ![n] = "first"] /\ frame' = frame
      BY <2>1 DEF windowOpened
    <3>2. phase'[n] = "first" /\ \A m \in Nodes \ {n} : phase'[m] = phase[m]
      BY <3>1 DEF TypeInv, TypeOK
    <3> QED BY <1>1, <3>1, <3>2 DEF Left, PerFrame, HasPlugins, SwapLock
  <2>2. CASE NoUpdate(n) \/ NoSwapBarrier(n)
    <3>1. /\ Advance(n) /\ phase[n] \in {"preDraw", "draw", "postPostFrame"}
          /\ phase[n] \in {"preDraw", "postPostFrame"} => frame[n] <= MaxFrames /\ ~HasPlugins
          /\ phase[n] = "draw" => ~SwapLock
      BY <2>2 DEF NoUpdate, NoSwapBarrier, AtUpdate
    <3>2. Syncs(n) = 0
      BY <3>1 DEF Syncs, Count
    <3>3. Left(n)' = Left(n) + Syncs(n) /\ \A m \in Nodes \ {n} : Left(m)' = Left(m)
      BY <1>1, <3>1, LeftAdvances
    <3> QED BY <3>1, <3>2, <3>3, LeftNat, PlaceOf
  <2> QED BY <2>1, <2>2 DEF Moves
<1>3. \A m \in Nodes : Sent(m)' = Sent(m)
  <2>1. Sent(n)' = Left(n)' /\ Sent(n) = Left(n)
    BY <1>1, CountsOf, CountsNext DEF updateVars
  <2>2. \A m \in Nodes \ {n} : Sent(m)' = Sent(m)
    BY <1>1, <1>2 DEF Sent, updateVars
  <2> QED BY <1>2, <2>1, <2>2
<1>4. \A m \in Nodes : \A p : Recv(m, p)' = Recv(m, p)
  BY <1>1, <1>2 DEF Recv, updateVars
<1> QED BY <1>2, <1>3, <1>4

LEMMA MovesStep ==
  ASSUME Inv, NEW n \in Nodes, Moves(n)
  PROVE  Inv'
<1> USE DEF Inv
<1>1. TypeInv' /\ PlaceInv'
  BY MovesTypes
<1>2. /\ phase[n] # "connect" /\ phase'[n] # "connect"
      /\ \A m \in Nodes : /\ Left(m)' = Left(m) /\ Sent(m)' = Sent(m)
                          /\ m # n => phase'[m] = phase[m]
                          /\ \A p : Recv(m, p)' = Recv(m, p)
  BY <1>1, MovesCounts
<1>3. UNCHANGED <<state, updating, mUpdated, numNodes, completed, chan, held, connected>>
  BY DEF Moves, windowOpened, NoUpdate, NoSwapBarrier, fateVars, updateVars, linkVars
<1>4. \A l : Load(l)' = Load(l)
  BY <1>3 DEF Load
<1>5. LinkInv'
  BY <1>2, <1>3, <1>4, PeersOf DEF LinkInv
<1>6. \A m \in Nodes : Got(m)' = Got(m)
  BY <1>2, <1>3, PeersOf DEF Got
<1>7. GotInv' /\ NumInv' /\ BehindInv'
  <2>1. updating \subseteq Nodes /\ Slaves \subseteq Nodes /\ Master \in Nodes
    BY PeersOf DEF TypeInv, TypeOK
  <2> QED BY <1>2, <1>3, <1>6, <2>1 DEF GotInv, NumInv, BehindInv
<1> QED BY <1>1, <1>5, <1>7

LEMMA ConnectStep ==
  ASSUME Inv, NEW s \in Slaves, connectTo(s)
  PROVE  Inv'
<1> USE DEF Inv
<1>1. TypeInv' /\ PlaceInv'
  BY ConnectTypes
<1>2. s \in Nodes /\ Master \in Nodes /\ s # Master /\ Peers(s) = {Master} /\ Peers(Master) = Slaves
  BY NodesAssumption DEF Nodes, Peers
<1>3. /\ UNCHANGED <<setup, frame, state, updating, mUpdated, numNodes, completed, chan, held>>
      /\ connected' = [connected EXCEPT ![Master] = @ \cup {s}, ![s] = {Master}]
      /\ phase' = [phase EXCEPT ![s] = "start",
                      ![Master] = IF connected'[Master] = Slaves THEN "start" ELSE "connect"]
      /\ phase[s] = "connect" /\ phase[Master] = "connect"
      /\ s \notin updating /\ Master \notin updating
  BY DEF connectTo, Idle, fateVars, updateVars, linkVars
<1>4. /\ phase'[s] = "start" /\ phase'[Master] \in {"connect", "start"}
      /\ connected'[Master] = connected[Master] \cup {s}
      /\ \A n \in Nodes \ {s, Master} : phase'[n] = phase[n] /\ connected'[n] = connected[n]
  BY <1>2, <1>3 DEF TypeInv, TypeOK
<1>5. \A n \in Nodes : Left(n)' = Left(n)
  BY <1>2, <1>3, <1>4 DEF Left, PerFrame, HasPlugins, SwapLock
<1>6. \A n \in Nodes : Sent(n)' = Sent(n) /\ \A p : Recv(n, p)' = Recv(n, p)
  <2>1. \A n \in Nodes \ {s, Master} : Sent(n)' = Sent(n)
    BY <1>3, <1>4, <1>5 DEF Sent
  <2>2. Sent(s)' = Sent(s) /\ Sent(Master)' = Sent(Master)
    BY <1>1, <1>2, <1>3, <1>5, CountsOf, CountsNext
  <2> QED BY <1>3, <1>5, <2>1, <2>2 DEF Recv
<1>7. \A l : Load(l)' = Load(l)
  BY <1>3 DEF Load
<1>8. LinkInv'
  <2> SUFFICES ASSUME NEW n \in Nodes, NEW p \in Peers(n), p \in connected'[n] \/ phase'[n] = "connect"
               PROVE  p \in connected[n] \/ phase[n] = "connect"
    BY <1>6, <1>7, PeersOf DEF LinkInv
  <2> QED BY <1>3, <1>4
<1>9. \A n \in updating : Got(n)' = Got(n) /\ connected'[n] = connected[n]
  <2>1. updating \subseteq Nodes \ {s, Master}
    BY <1>3 DEF TypeInv, TypeOK
  <2>2. ASSUME NEW n \in updating
        PROVE  Got(n)' = Got(n) /\ connected'[n] = connected[n]
    <3>1. n \in Nodes /\ connected'[n] = connected[n] /\ mUpdated' = mUpdated /\ Left(n)' = Left(n)
      BY <1>3, <1>4, <1>5, <2>1
    <3>2. \A p \in Peers(n) : Sent(p)' = Sent(p)
      BY <1>6, <3>1, PeersOf
    <3> QED BY <3>1, <3>2 DEF Got
  <2> QED BY <2>2
<1>10. GotInv' /\ NumInv' /\ BehindInv'
  <2>1. updating \subseteq Nodes /\ Slaves \subseteq Nodes /\ Master \in Nodes
    BY PeersOf DEF TypeInv, TypeOK
  <2> QED BY <1>3, <1>5, <1>6, <1>9, <2>1 DEF GotInv, NumInv, BehindInv
<1> QED BY <1>1, <1>8, <1>10

\* Coming to a synchronisation is a block more of a slave, and of the master in update().
LEMMA EntersCounts ==
  ASSUME TypeInv, PlaceInv, NEW n \in Nodes, NEW count, NEW ps, Enters(n, count, ps)
  PROVE  /\ updating' = updating \cup {n} /\ n \notin updating
         /\ \A m \in Nodes : /\ Left(m)' = Left(m)
                             /\ m # n => /\ Sent(m)' = Sent(m)
                                         /\ \A p : Recv(m, p)' = Recv(m, p)
         /\ Sent(n)' = IF n = Master /\ phase[n] \notin {"preDraw", "postPostFrame"}
                       THEN Sent(n) ELSE Sent(n) + 1
         /\ \A p : Recv(n, p)' = Recv(n, p)
<1>1. /\ updating' = updating \cup {n} /\ n \notin updating
      /\ mUpdated' = [mUpdated EXCEPT ![n] = {}]
      /\ setup' = setup /\ phase' = phase /\ frame' = frame
  BY DEF Enters, UpdateAllNodes, nodeVars
<1>2. \A m \in Nodes : Left(m)' = Left(m)
  BY <1>1 DEF Left, PerFrame, HasPlugins, SwapLock
<1>3. /\ mUpdated'[n] = {} /\ n \in updating'
      /\ \A m \in Nodes \ {n} : mUpdated'[m] = mUpdated[m] /\ (m \in updating' <=> m \in updating)
  BY <1>1 DEF TypeInv, TypeOK
<1>4. \A m \in Nodes \ {n} : Sent(m)' = Sent(m) /\ \A p : Recv(m, p)' = Recv(m, p)
  BY <1>1, <1>2, <1>3 DEF Sent, Recv, Count
<1>5. \A p : Recv(n, p)' = Recv(n, p)
  BY <1>1, <1>2, <1>3 DEF Recv, Count
<1>6. Left(n) \in Nat /\ Sent(n) = Left(n)
  BY <1>1, CountsOf
<1>7. Sent(n)' = IF n = Master /\ phase[n] \notin {"preDraw", "postPostFrame"}
                 THEN Left(n) ELSE Left(n) + 1
  BY <1>1, <1>2, <1>3, <1>6 DEF Sent, Count
<1> QED BY <1>1, <1>2, <1>4, <1>5, <1>6, <1>7

LEMMA EntersStep ==
  ASSUME Inv, NEW n \in Nodes, NEW count, NEW ps, Enters(n, count, ps),
         n = Master /\ phase[n] \notin {"preDraw", "postPostFrame"} => ps = {}
  PROVE  Inv'
<1> USE DEF Inv
<1>1. TypeInv' /\ PlaceInv'
  BY EntersTypes
<1>2. /\ updating' = updating \cup {n} /\ n \notin updating
      /\ \A m \in Nodes : Left(m)' = Left(m) /\ \A p : Recv(m, p)' = Recv(m, p)
      /\ \A m \in Nodes \ {n} : Sent(m)' = Sent(m)
      /\ Sent(n)' = IF n = Master /\ phase[n] \notin {"preDraw", "postPostFrame"}
                    THEN Sent(n) ELSE Sent(n) + 1
  BY EntersCounts
<1>3. \A m \in Nodes : /\ Left(m) \in Nat /\ Sent(m) \in Nat /\ Sent(m)' \in Nat
                       /\ Sent(m)' >= Sent(m)
  BY <1>1, <1>2, CountsOf, CountsNext
<1>4. /\ ps \in SUBSET Peers(n) /\ phase' = phase
      /\ \A m \in Nodes : connected'[m] \subseteq connected[m]
      /\ \A m \in Nodes \ {n} : connected'[m] = connected[m] /\ state'[m] = state[m]
  BY DEF Enters, nodeVars
<1>5. \A l \in Links : Load(l)' <= Load(l) + Count(l[1] = n /\ l[2] \in ps)
  <2>1. Block(n) \in Begun
    BY BlockOf DEF Enters
  <2> QED BY <1>4, <2>1, Writing DEF Enters
<1>6. LinkInv'
  <2> SUFFICES ASSUME NEW m \in Nodes, NEW p \in Peers(m),
                      p \in connected'[m] \/ phase'[m] = "connect"
               PROVE  Recv(m, p)' + Load(<<p, m>>)' <= Sent(p)'
    BY DEF LinkInv
  <2>1. <<p, m>> \in Links /\ p \in Nodes
    BY PeersOf
  <2>2. Recv(m, p) + Load(<<p, m>>) <= Sent(p) /\ Recv(m, p)' = Recv(m, p)
    BY <1>2, <1>4 DEF LinkInv
  <2>3. /\ Load(<<p, m>>) \in Nat /\ Load(<<p, m>>)' \in Nat
        /\ Recv(m, p) \in Nat /\ Sent(p) \in Nat
    BY <1>1, <2>1, LoadNat, CountsOf, CountsNext
  <2>4. CASE p # n \/ m \notin ps
    <3>1. Count(<<p, m>>[1] = n /\ <<p, m>>[2] \in ps) = 0
      BY <2>4 DEF Count
    <3>2. Load(<<p, m>>)' <= Load(<<p, m>>) + 0
      BY <1>5, <2>1, <3>1
    <3> QED BY <1>3, <2>1, <2>2, <2>3, <3>2
  <2>5. CASE p = n /\ m \in ps
    <3>1. Count(<<p, m>>[1] = n /\ <<p, m>>[2] \in ps) = 1
      BY <2>5 DEF Count
    <3>2. Load(<<p, m>>)' <= Load(<<p, m>>) + 1
      BY <1>5, <2>1, <3>1
    <3>3. Sent(p)' = Sent(p) + 1
      BY <1>2, <2>5
    <3> QED BY <2>2, <2>3, <3>2, <3>3
  <2> QED BY <2>4, <2>5
<1>7. /\ mUpdated' = [mUpdated EXCEPT ![n] = {}]
      /\ numNodes' = [numNodes EXCEPT ![n] = count]
      /\ completed' = [completed EXCEPT ![n] = 0]
      /\ updating \subseteq Nodes
  BY DEF Enters, UpdateAllNodes, TypeInv, TypeOK
<1>8. GotInv'
  <2>1. ASSUME NEW m \in updating, m # n
        PROVE  completed'[m] <= Cardinality(Got(m)')
    <3>1. /\ m \in Nodes /\ mUpdated'[m] = mUpdated[m] /\ completed'[m] = completed[m]
          /\ completed[m] <= Cardinality(Got(m))
      BY <1>7, <2>1 DEF TypeInv, TypeOK, GotInv
    <3> QED BY <1>2, <1>3, <1>4, <2>1, <3>1, GotKept
  <2>2. completed'[n] <= Cardinality(Got(n)')
    <3>1. completed'[n] = 0
      BY <1>7 DEF TypeInv, TypeOK
    <3>2. Got(n)' \in SUBSET Peers(n)
      BY DEF Got
    <3>3. Cardinality(Got(n)') \in Nat
      BY <3>2, CardsOf
    <3> QED BY <3>1, <3>3
  <2> QED BY <1>2, <2>1, <2>2 DEF GotInv
<1>9. NumInv'
  <2>1. ASSUME NEW m \in updating, m # n, state'[m] = "up", m = Master \/ connected'[m] # {}
        PROVE  numNodes'[m] = Cardinality(Peers(m))
    BY <1>4, <1>7, <2>1 DEF TypeInv, TypeOK, NumInv
  <2>2. ASSUME state'[n] = "up", n = Master \/ connected'[n] # {}
        PROVE  numNodes'[n] = Cardinality(Peers(n))
    BY <1>7, <2>2 DEF Enters, TypeInv, TypeOK
  <2> QED BY <1>2, <2>1, <2>2 DEF NumInv
<1>10. BehindInv'
  <2>1. Slaves \subseteq Nodes /\ Master \in Nodes
    BY PeersOf
  <2> QED BY <1>2, <1>3, <2>1 DEF BehindInv
<1> QED BY <1>1, <1>6, <1>8, <1>9, <1>10

\* A node reads its peer's block, or what is left of it.
LEMMA RecvStep ==
  ASSUME Inv, NEW n \in Nodes, NEW p \in Peers(n), recvBlock(n, p)
  PROVE  Inv'
<1> USE DEF Inv
<1>1. TypeInv' /\ PlaceInv' /\ \A l \in Links : Load(l)' = Load(l) - Count(l = <<p, n>>)
  BY RecvTypes
<1>2. /\ UNCHANGED <<setup, phase, frame, state, updating, numNodes>>
      /\ n \in updating /\ completed[n] # numNodes[n] /\ p \in connected[n] /\ p \notin mUpdated[n]
      /\ completed' = [completed EXCEPT ![n] = @ + 1]
      /\ chan[<<p, n>>] # <<>>
  BY DEF recvBlock, Readable, Waiting, nodeVars, fateVars
<1>3. /\ p \in Nodes /\ p # n /\ phase[n] # "connect"
      /\ \A m \in Nodes : connected[m] \subseteq Peers(m)
  BY <1>2, PeersOf DEF PlaceInv, TypeInv, TypeOK
<1>4. \/ /\ connected' = [connected EXCEPT ![n] = @ \ {p}] /\ mUpdated' = mUpdated
      \/ /\ mUpdated' = [mUpdated EXCEPT ![n] = @ \cup {p}] /\ connected' = connected
  BY DEF recvBlock
<1>5. /\ connected'[n] \subseteq connected[n]
      /\ mUpdated'[n] \subseteq mUpdated[n] \cup {p} /\ mUpdated[n] \subseteq mUpdated'[n]
      /\ p \in mUpdated'[n] \/ p \notin connected'[n]
      /\ \A m \in Nodes \ {n} : connected'[m] = connected[m] /\ mUpdated'[m] = mUpdated[m]
  BY <1>4 DEF TypeInv, TypeOK
<1>6. \A m \in Nodes : Left(m)' = Left(m)
  BY <1>2 DEF Left, PerFrame, HasPlugins, SwapLock
<1>7. /\ \A m \in Nodes : Sent(m)' = Sent(m)
      /\ \A m \in Nodes : \A q : <<m, q>> # <<n, p>> => Recv(m, q)' = Recv(m, q)
  BY <1>2, <1>5, <1>6 DEF Sent, Recv, Count
<1>8. /\ Left(n) \in Nat /\ Recv(n, p) = Left(n)
      /\ Recv(n, p)' \in {Recv(n, p), Recv(n, p) + 1}
  <2>1. Left(n) \in Nat /\ Recv(n, p) = Left(n)
    BY <1>2, CountsOf
  <2>2. Recv(n, p)' \in {Left(n), Left(n) + 1}
    BY <1>6, <2>1 DEF Recv, Count
  <2> QED BY <2>1, <2>2
<1>9. \A m \in Nodes : \A q \in Peers(m) : <<q, m>> \in Links /\ q \in Nodes
  BY PeersOf
<1>10. Load(<<p, n>>) \in Nat /\ Load(<<p, n>>) >= 1 /\ Load(<<p, n>>)' = Load(<<p, n>>) - 1
  <2>1. <<p, n>> \in Links /\ chan[<<p, n>>] \in Seq(Begun) /\ Len(held[<<p, n>>]) \in Nat
    BY <1>9, LoadNat
  <2>2. Len(chan[<<p, n>>]) \in Nat \ {0}
    BY <1>2, <2>1, EmptySeq
  <2> DEFINE a == Len(chan[<<p, n>>])
             c == Len(held[<<p, n>>])
  <2>3. a \in Nat \ {0} /\ c \in Nat /\ Load(<<p, n>>) = a + c
    BY <2>1, <2>2 DEF Load
  <2>4. Load(<<p, n>>)' = Load(<<p, n>>) - 1
    BY <1>1, <2>1 DEF Count
  <2> HIDE DEF a, c
  <2> QED BY <2>3, <2>4
<1>11. LinkInv'
  <2> SUFFICES ASSUME NEW m \in Nodes, NEW q \in Peers(m),
                      q \in connected'[m] \/ phase'[m] = "connect"
               PROVE  Recv(m, q)' + Load(<<q, m>>)' <= Sent(q)'
    BY DEF LinkInv
  <2>1. Recv(m, q) + Load(<<q, m>>) <= Sent(q)
    BY <1>2, <1>5 DEF LinkInv
  <2>2. /\ Recv(m, q) \in Nat /\ Sent(q) \in Nat /\ Load(<<q, m>>) \in Nat
        /\ Sent(q)' = Sent(q)
    BY <1>7, <1>9, CountsOf, LoadNat
  <2>3. CASE <<m, q>> = <<n, p>>
    <3>1. m = n /\ q = p
      BY <2>3
    <3> HIDE DEF Inv
    <3> QED BY <1>8, <1>10, <2>1, <2>2, <3>1
  <2>4. CASE <<m, q>> # <<n, p>>
    <3>1. Load(<<q, m>>)' = Load(<<q, m>>)
      BY <1>1, <1>9, <2>2, <2>4 DEF Count
    <3> QED BY <1>7, <2>1, <2>2, <2>4, <3>1
  <2> QED BY <2>3, <2>4
<1>12. Sent(p) > Left(n)
  <2>1. Recv(n, p) + Load(<<p, n>>) <= Sent(p)
    BY <1>2 DEF LinkInv
  <2>2. Sent(p) \in Nat
    BY <1>3, CountsOf
  <2> QED BY <1>8, <1>10, <2>1, <2>2
<1>13. completed'[n] <= Cardinality(Got(n)')
  <2>1. p \notin Got(n) /\ Got(n) \in SUBSET Peers(n) /\ Got(n)' \in SUBSET Peers(n)
    BY <1>2 DEF Got
  <2>2. \A q \in Peers(n) : Sent(q)' = Sent(q)
    BY <1>7, <1>9
  <2>3. Got(n) \cup {p} \subseteq Got(n)'
    BY <1>5, <1>6, <1>12, <2>2 DEF Got
  <2>4. /\ IsFiniteSet(Got(n)) /\ Cardinality(Got(n)) \in Nat
        /\ IsFiniteSet(Got(n)') /\ Cardinality(Got(n)') \in Nat
    BY <2>1, CardsOf
  <2>5. Cardinality(Got(n) \cup {p}) = Cardinality(Got(n)) + 1
    BY <2>1, <2>4, FS_AddElement
  <2>6. Cardinality(Got(n) \cup {p}) <= Cardinality(Got(n)')
    <3>1. Got(n) \cup {p} \in SUBSET Got(n)'
      BY <2>3
    <3> QED BY <2>4, <3>1, FS_Subset
  <2>7. completed'[n] = completed[n] + 1 /\ completed[n] \in Nat /\ completed[n] <= Cardinality(Got(n))
    BY <1>2 DEF TypeInv, TypeOK, GotInv
  <2> QED BY <2>4, <2>5, <2>6, <2>7
<1>14. GotInv'
  <2>1. ASSUME NEW m \in updating, m # n
        PROVE  completed'[m] <= Cardinality(Got(m)')
    <3>1. /\ m \in Nodes /\ mUpdated'[m] = mUpdated[m] /\ connected'[m] \subseteq connected[m]
          /\ completed'[m] = completed[m] /\ completed[m] <= Cardinality(Got(m))
      BY <1>2, <1>5, <2>1 DEF TypeInv, TypeOK, GotInv
    <3>2. /\ Left(m)' = Left(m) /\ Left(m) \in Nat
          /\ \A q \in Nodes : Sent(q) \in Nat /\ Sent(q)' \in Nat /\ Sent(q)' >= Sent(q)
      BY <1>6, <1>7, <3>1, CountsOf
    <3> QED BY <3>1, <3>2, GotKept
  <2> QED BY <1>2, <1>13, <2>1 DEF GotInv
<1>15. NumInv'
  <2>1. \A m \in Nodes : connected'[m] # {} => connected[m] # {}
    BY <1>5
  <2>2. updating \subseteq Nodes
    BY DEF TypeInv, TypeOK
  <2> QED BY <1>2, <2>1, <2>2 DEF NumInv
<1>16. BehindInv'
  BY <1>6, <1>7, PeersOf DEF BehindInv
<1> QED BY <1>1, <1>11, <1>14, <1>15, <1>16

-----------------------------------------------------------------------------
\* updateAllNodes() returns to a node that has a connection only with a block of this
\* synchronisation of every peer.
LEMMA AllGot ==
  ASSUME Inv, NEW n \in Nodes, Returns(n), n = Master \/ connected[n] # {}
  PROVE  \A p \in Peers(n) : /\ Sent(p) > Left(n)
                             /\ p \in mUpdated[n] \/ p \notin connected[n]
<1> USE DEF Inv
<1>1. n \in updating /\ state[n] = "up" /\ completed[n] = numNodes[n]
  BY DEF Returns
<1>2. completed[n] = Cardinality(Peers(n)) /\ completed[n] <= Cardinality(Got(n))
  BY <1>1 DEF NumInv, GotInv
<1>3. Got(n) \in SUBSET Peers(n) /\ IsFiniteSet(Peers(n)) /\ Cardinality(Peers(n)) \in Nat
  BY PeersOf DEF Got
<1>4. Cardinality(Got(n)) \in Nat /\ Cardinality(Got(n)) <= Cardinality(Peers(n))
  BY <1>3, CardsOf
<1>5. Cardinality(Got(n)) = Cardinality(Peers(n))
  BY <1>2, <1>3, <1>4
<1>6. Got(n) = Peers(n)
  BY <1>3, <1>5, FS_Subset
<1> QED BY <1>6 DEF Got

\* Leaving a synchronisation is one more left, and at barriers a block more of the master.
LEMMA LeavesCounts ==
  ASSUME TypeInv, PlaceInv, NEW n \in Nodes, NEW ps, Leaves(n, ps)
  PROVE  /\ updating' = updating \ {n} /\ n \in updating
         /\ Left(n)' = Left(n) + 1 /\ Sent(n)' = Left(n) + 1 /\ phase'[n] # "connect"
         /\ Sent(n) = IF n = Master /\ AtGo THEN Left(n) ELSE Left(n) + 1
         /\ \A p : Recv(n, p)' = Left(n) + 1
         /\ \A m \in Nodes \ {n} : /\ Left(m)' = Left(m) /\ Sent(m)' = Sent(m)
                                   /\ phase'[m] = phase[m]
                                   /\ \A p : Recv(m, p)' = Recv(m, p)
<1>1. /\ n \in updating /\ updating' = updating \ {n} /\ mUpdated' = mUpdated
      /\ setup' = setup /\ Advance(n) /\ Returns(n)
      /\ phase[n] \notin {"connect", "window"} /\ frame[n] <= MaxFrames
  BY DEF Leaves, Returns
<1>2. phase'[n] # "connect" /\ \A m \in Nodes \ {n} : phase'[m] = phase[m]
  BY <1>1, PlaceOf
<1>3. Syncs(n) = 1
  BY <1>1 DEF Syncs, PlaceInv, TypeInv, TypeOK, Phases, Count
<1>4. /\ Left(n)' = Left(n) + 1 /\ Left(n) \in Nat
      /\ \A m \in Nodes \ {n} : Left(m)' = Left(m)
  BY <1>1, <1>3, LeftAdvances, LeftNat
<1>5. Sent(n)' = Left(n)' /\ \A p : Recv(n, p)' = Left(n)'
  <2>1. Count(n \in updating') = 0 /\ \A p : Count(n \in updating' /\ p \in mUpdated'[n]) = 0
    BY <1>1 DEF Count
  <2> QED BY <1>4, <2>1 DEF Sent, Recv, Count
<1>6. Sent(n) = IF n = Master /\ AtGo THEN Left(n) ELSE Left(n) + 1
  <2>1. Count(n \in updating) = 1
    BY <1>1 DEF Count
  <2>2. n = Master => (AtGo <=> phase[n] \notin {"preDraw", "postPostFrame"})
    BY <1>1 DEF AtGo, TypeInv, TypeOK, Phases
  <2> QED BY <2>1, <2>2 DEF Sent
<1>7. \A m \in Nodes \ {n} : /\ Sent(m)' = Sent(m)
                             /\ \A p : Recv(m, p)' = Recv(m, p)
  BY <1>1, <1>2, <1>4 DEF Sent, Recv, Count
<1> QED BY <1>1, <1>2, <1>4, <1>5, <1>6, <1>7

LEMMA LeavesStep ==
  ASSUME Inv, NEW n \in Nodes, NEW ps, Leaves(n, ps)
  PROVE  Inv'
<1> USE DEF Inv
<1>1. TypeInv' /\ PlaceInv'
  BY LeavesTypes
<1>2. /\ updating' = updating \ {n} /\ n \in updating
      /\ Left(n)' = Left(n) + 1 /\ Sent(n)' = Left(n) + 1 /\ phase'[n] # "connect"
      /\ Sent(n) = IF n = Master /\ AtGo THEN Left(n) ELSE Left(n) + 1
      /\ \A p : Recv(n, p)' = Left(n) + 1
      /\ \A m \in Nodes \ {n} : /\ Left(m)' = Left(m) /\ Sent(m)' = Sent(m)
                                /\ phase'[m] = phase[m]
                                /\ \A p : Recv(m, p)' = Recv(m, p)
  BY LeavesCounts
<1>3. \A m \in Nodes : /\ Left(m) \in Nat /\ Sent(m) \in Nat /\ Sent(m)' \in Nat
                       /\ Sent(m)' >= Sent(m)
  BY <1>1, <1>2, CountsOf, CountsNext
<1>4. /\ UNCHANGED <<mUpdated, numNodes, completed>>
      /\ \A m \in Nodes : state'[m] = "up" => state[m] = "up"
      /\ ps \in SUBSET Peers(n) /\ Returns(n) /\ updating \subseteq Nodes
      /\ \A m \in Nodes : connected'[m] \subseteq connected[m]
      /\ \A m \in Nodes \ {n} : connected'[m] = connected[m]
  <2>1. updating \subseteq Nodes
    BY DEF TypeInv, TypeOK
  <2> QED BY <2>1 DEF Leaves, Returns
<1>5. \A l \in Links : Load(l)' <= Load(l) + (IF n = Master /\ AtGo
                                              THEN Count(l[1] = n /\ l[2] \in ps) ELSE 0)
  <2>1. CASE n = Master /\ AtGo
    <3>1. Block(n) \in Begun
      BY BlockOf DEF Leaves
    <3> QED BY <1>4, <2>1, <3>1, Writing DEF Leaves
  <2>2. CASE ~(n = Master /\ AtGo)
    <3>1. chan' = chan /\ held' = held
      BY <2>2 DEF Leaves, linkVars
    <3>2. \A l \in Links : Load(l)' = Load(l)
      BY <3>1 DEF Load
    <3> QED BY <2>2, <3>2, LoadNat
  <2> QED BY <2>1, <2>2
<1>6. LinkInv'
  <2> SUFFICES ASSUME NEW m \in Nodes, NEW p \in Peers(m),
                      p \in connected'[m] \/ phase'[m] = "connect"
               PROVE  Recv(m, p)' + Load(<<p, m>>)' <= Sent(p)'
    BY DEF LinkInv
  <2>1. <<p, m>> \in Links /\ p \in Nodes /\ p # m
    BY PeersOf
  <2>2. p \in connected[m] \/ (phase[m] = "connect" /\ m # n)
    BY <1>2, <1>4
  <2>3. Recv(m, p) + Load(<<p, m>>) <= Sent(p)
    BY <2>2 DEF LinkInv
  <2>4. /\ Load(<<p, m>>) \in Nat /\ Load(<<p, m>>)' \in Nat
        /\ Recv(m, p) \in Nat /\ Sent(p) \in Nat
    BY <1>1, <2>1, LoadNat, CountsOf, CountsNext
  <2>5. Recv(m, p)' = Recv(m, p)
    <3>1. CASE m = n
      <4>1. p \in connected[n]
        BY <2>2, <3>1
      <4>2. p \in mUpdated[n]
        BY <1>4, <3>1, <4>1, AllGot
      <4>3. Recv(n, p) = Left(n) + 1
        BY <1>2, <4>2, CountsOf
      <4> QED BY <1>2, <3>1, <4>3
    <3>2. CASE m # n
      BY <1>2, <3>2
    <3> QED BY <3>1, <3>2
  <2>6. CASE p = n /\ m \in ps /\ n = Master /\ AtGo
    <3>1. Count(<<p, m>>[1] = n /\ <<p, m>>[2] \in ps) = 1
      BY <2>6 DEF Count
    <3>2. Load(<<p, m>>)' <= Load(<<p, m>>) + 1
      BY <1>5, <2>1, <2>6, <3>1
    <3>3. Sent(p)' = Sent(p) + 1
      BY <1>2, <2>6
    <3> QED BY <2>3, <2>4, <2>5, <3>2, <3>3
  <2>7. CASE ~(p = n /\ m \in ps /\ n = Master /\ AtGo)
    <3>1. n = Master /\ AtGo => Count(<<p, m>>[1] = n /\ <<p, m>>[2] \in ps) = 0
      BY <2>7 DEF Count
    <3>2. Load(<<p, m>>)' <= Load(<<p, m>>) + 0
      BY <1>5, <2>1, <3>1
    <3> QED BY <1>3, <2>1, <2>3, <2>4, <2>5, <3>2
  <2> QED BY <2>6, <2>7
<1>7. GotInv'
  <2> SUFFICES ASSUME NEW m \in updating, m # n
               PROVE  completed'[m] <= Cardinality(Got(m)')
    BY <1>2 DEF GotInv
  <2>1. /\ m \in Nodes /\ mUpdated'[m] = mUpdated[m] /\ completed'[m] = completed[m]
        /\ completed[m] <= Cardinality(Got(m))
    BY <1>4 DEF GotInv
  <2> QED BY <1>2, <1>3, <1>4, <2>1, GotKept
<1>8. NumInv'
  <2>1. \A m \in Nodes : connected'[m] # {} => connected[m] # {}
    BY <1>4
  <2> QED BY <1>2, <1>4, <2>1 DEF NumInv
<1>9. BehindInv'
  <2> SUFFICES ASSUME NEW s \in Slaves PROVE Left(Master)' <= Sent(s)'
    BY DEF BehindInv
  <2>1. s \in Nodes /\ Master \in Nodes /\ s # Master
    BY NodesAssumption DEF Nodes
  <2>2. Left(Master) <= Sent(s)
    BY DEF BehindInv
  <2>3. CASE n = Master
    <3>1. Sent(s) > Left(Master)
      BY <1>4, <2>3, AllGot DEF Peers
    <3> QED BY <1>2, <1>3, <2>1, <2>3, <3>1
  <2>4. CASE n # Master
    BY <1>2, <1>3, <2>1, <2>2, <2>4
  <2> QED BY <2>3, <2>4
<1> QED BY <1>1, <1>6, <1>7, <1>8, <1>9

-----------------------------------------------------------------------------
(* The invariant holds. *)

LEMMA InitInv == Init => Inv
<1> SUFFICES ASSUME Init PROVE Inv
  OBVIOUS
<1>1. /\ setup \in Setups /\ updating = {} /\ lost = {} /\ corked = {}
      /\ phase = [n \in Nodes |-> "connect"] /\ frame = [n \in Nodes |-> 0]
      /\ state = [n \in Nodes |-> "up"] /\ mUpdated = [n \in Nodes |-> {}]
      /\ numNodes = [n \in Nodes |-> 0] /\ completed = [n \in Nodes |-> 0]
      /\ connected = [n \in Nodes |-> {}]
      /\ data = [s \in Slaves |-> [config |-> FALSE, app |-> 0, device |-> 0]]
  BY DEF Init
<1>2. chan = [l \in Links |-> <<>>] /\ held = [l \in Links |-> <<>>]
  BY DEF Init
<1>3. /\ chan \in [Links -> Seq(Begun)] /\ held \in [Links -> Seq(Begun)]
      /\ chan \in [Links -> Seq(Blocks)] /\ held \in [Links -> Seq(Blocks)]
  BY <1>2, EmptySeq
<1>4. \A n \in Nodes : Cardinality(Peers(n)) \in Nat
  BY PeersOf
<1>5. TypeInv
  BY <1>1, <1>3, <1>4, BoundsAssumption DEF TypeInv, TypeOK, Phases
<1>6. PlaceInv
  BY <1>1, BoundsAssumption DEF PlaceInv, InFrame
<1>7. \A n \in Nodes : Left(n) = 0 /\ Sent(n) = 0 /\ \A p : Recv(n, p) = 0
  <2>1. \A n \in Nodes : Left(n) = 0
    BY <1>1 DEF Left
  <2> QED BY <1>1, <1>5, <1>6, <2>1, CountsOf
<1>8. \A l \in Links : Load(l) = 0
  <2>1. \A l \in Links : Len(chan[l]) = 0 /\ Len(held[l]) = 0
    BY <1>2, EmptySeq
  <2>2. 0 + 0 = 0
    OBVIOUS
  <2> QED BY <2>1, <2>2 DEF Load
<1>9. LinkInv
  <2> SUFFICES ASSUME NEW n \in Nodes, NEW p \in Peers(n)
               PROVE  Recv(n, p) + Load(<<p, n>>) <= Sent(p)
    BY DEF LinkInv
  <2>1. Recv(n, p) = 0 /\ Load(<<p, n>>) = 0 /\ Sent(p) = 0
    BY <1>7, <1>8, PeersOf
  <2> QED BY <2>1
<1>10. GotInv /\ NumInv /\ BehindInv
  BY <1>1, <1>7, PeersOf DEF GotInv, NumInv, BehindInv
<1> QED BY <1>5, <1>6, <1>9, <1>10 DEF Inv

\* The invariant: no more blocks are read and under way than were sent, nobody is counted
\* twice, and the master leaves no slave behind (NetworkManager::updateAllNodes()).
THEOREM Invariance == Spec => []Inv
<1>1. Inv /\ [Next]_vars => Inv'
  <2> SUFFICES ASSUME Inv, [Next]_vars PROVE Inv'
    OBVIOUS
  <2>1. CASE Quiet
    BY <2>1, QuietIsStill, StillStep DEF Inv
  <2>2. ASSUME NEW s \in Slaves, connectTo(s) PROVE Inv'
    BY <2>2, ConnectStep
  <2>3. ASSUME NEW n \in Nodes, Loop(n) PROVE Inv'
    <3>1. CASE Moves(n)
      BY <3>1, MovesStep
    <3>2. CASE \/ n = Master /\ MasterBarrier
               \/ n \in Slaves /\ SlaveBarrier(n)
               \/ update(n) \/ UpdateFails(n)
      BY <3>2, Entering, EntersStep DEF Inv
    <3>3. CASE Return(n) \/ (n = Master /\ GoFails)
      BY <3>3, Leaving, LeavesStep DEF Inv
    <3>4. CASE \E p \in Peers(n) : recvBlock(n, p)
      BY <3>4, RecvStep
    <3> QED BY <2>3, <3>1, <3>2, <3>3, <3>4 DEF Loop, Moves
  <2>4. CASE UNCHANGED vars
    <3>1. Still
      <4>1. \A l \in Links : Load(l)' = Load(l)
        BY <2>4 DEF vars, linkVars, Load
      <4> QED BY <2>4, <4>1, LoadNat
              DEF Inv, TypeInv, TypeOK, Still, vars, nodeVars, fateVars, updateVars, linkVars
    <3> QED BY <3>1, StillStep
  <2> QED BY <2>1, <2>2, <2>3, <2>4, Steps DEF Inv
<1> QED BY <1>1, InitInv, PTL DEF Spec

\* The types of all variables: every node is in a part of start() or of controlLoop() it
\* can be in, and what it counts stays within its peers.
THEOREM TypeCorrect == Spec => []TypeOK
<1>1. Inv => TypeOK
  BY DEF Inv, TypeInv
<1> QED BY <1>1, Invariance, PTL

-----------------------------------------------------------------------------
(* Barriers. *)

\* Which synchronisation comes next, and that update() is no barrier.
LEMMA NextSync ==
  ASSUME TypeInv, PlaceInv, NEW n \in Nodes, phase[n] \notin {"connect", "window"},
         frame[n] <= MaxFrames,
         phase[n] \in {"preDraw", "postPostFrame"} => HasPlugins,
         phase[n] = "draw" => SwapLock
  PROVE  /\ Left(n) + 1 \in 1 .. (2 + 3 * (MaxFrames + 1))
         /\ IsBarrier(Left(n) + 1) <=> phase[n] \notin {"preDraw", "postPostFrame"}
<1> DEFINE h == Count(HasPlugins)
           l == Count(SwapLock)
           g == frame[n] - 1
           b == g * PerFrame
<1>1. /\ phase[n] \in Phases /\ frame[n] \in Nat /\ MaxFrames \in Nat
      /\ Left(n) \in Nat /\ (InFrame(n) => g \in Nat /\ g <= MaxFrames)
  BY LeftNat, BoundsAssumption DEF TypeInv, TypeOK, PlaceInv
<1>2. /\ h \in {0, 1} /\ l \in {0, 1} /\ PerFrame = 2 * h + l
      /\ HasPlugins <=> h = 1
      /\ SwapLock <=> l = 1
  BY SetupOf DEF Count
<1>3. CASE phase[n] \in {"start", "first"}
  BY <1>1, <1>3 DEF Left, IsBarrier
<1>4. InFrame(n) => b \in Nat /\ b <= 3 * MaxFrames /\ (PerFrame = 1 => b = g)
                    /\ (PerFrame = 3 => b = 3 * g) /\ (PerFrame = 2 => b = 2 * g)
  <2>1. PerFrame \in {0, 1, 2, 3}
    BY <1>2
  <2> QED BY <1>1, <2>1
<1>5. CASE phase[n] = "preDraw"
  <2>1. Left(n) = 2 + b + 0 + 0 /\ h = 1 /\ InFrame(n)
    BY <1>2, <1>5 DEF Left, InFrame
  <2>2. Left(n) = 2 + b
    BY <1>4, <2>1
  <2>3. SwapLock => ((Left(n) + 1) - 2) % PerFrame = 1 /\ (1 + h) % PerFrame = 2
    <3> HIDE DEF h, l, b, g
    <3>1. SUFFICES ASSUME SwapLock
                   PROVE  ((Left(n) + 1) - 2) % PerFrame = 1 /\ (1 + h) % PerFrame = 2
      OBVIOUS
    <3>2. PerFrame = 3 /\ b = 3 * g /\ g \in Nat
      BY <1>1, <1>2, <1>4, <2>1, <3>1
    <3>3. (Left(n) + 1) - 2 = 1 + 3 * g /\ (1 + 3 * g) % 3 = 1 /\ 1 + h = 2
      BY <2>1, <2>2, <3>2
    <3> QED BY <3>2, <3>3
  <2>4. Left(n) + 1 \in 1 .. (2 + 3 * (MaxFrames + 1)) /\ ~(Left(n) + 1 <= 2)
    BY <1>1, <1>4, <2>1, <2>2
  <2>5. ~IsBarrier(Left(n) + 1)
    <3>1. SwapLock => ((Left(n) + 1) - 2) % PerFrame # (1 + h) % PerFrame
      BY <2>3
    <3> QED BY <2>4, <3>1, Zenon DEF IsBarrier
  <2> QED BY <1>5, <2>4, <2>5
<1>6. CASE phase[n] = "draw"
  <2>1. Left(n) = 2 + b + h + 0 /\ l = 1 /\ InFrame(n) /\ SwapLock
    BY <1>2, <1>6 DEF Left, InFrame
  <2>2. Left(n) = 2 + b + h
    <3> HIDE DEF h, l, b, g
    <3> QED BY <1>2, <1>4, <2>1
  <2>3. ((Left(n) + 1) - 2) % PerFrame = (1 + h) % PerFrame
    <3> HIDE DEF l, b, g, h
    <3>1. CASE h = 0
      <4>1. PerFrame = 1 /\ b = g /\ g \in Nat
        BY <1>1, <1>2, <1>4, <2>1, <3>1
      <4>2. (Left(n) + 1) - 2 = 1 + g /\ (1 + g) % 1 = 0 /\ (1 + h) % 1 = 0
        BY <2>2, <3>1, <4>1
      <4> QED BY <4>1, <4>2
    <3>2. CASE h = 1
      <4>1. PerFrame = 3 /\ b = 3 * g /\ g \in Nat
        BY <1>1, <1>2, <1>4, <2>1, <3>2
      <4>2. (Left(n) + 1) - 2 = 2 + 3 * g /\ (2 + 3 * g) % 3 = 2 /\ (1 + h) % 3 = 2
        BY <2>2, <3>2, <4>1
      <4> QED BY <4>1, <4>2
    <3> QED BY <1>2, <3>1, <3>2
  <2>4. Left(n) + 1 \in 1 .. (2 + 3 * (MaxFrames + 1))
    <3> HIDE DEF h, l, b, g
    <3> QED BY <1>1, <1>2, <1>4, <2>1, <2>2
  <2> QED BY <1>6, <2>1, <2>3, <2>4 DEF IsBarrier
<1>7. CASE phase[n] = "postPostFrame"
  <2>1. Left(n) = 2 + b + h + l /\ h = 1 /\ InFrame(n)
    BY <1>2, <1>7 DEF Left, InFrame
  <2>2. SwapLock => ((Left(n) + 1) - 2) % PerFrame = 0 /\ (1 + h) % PerFrame = 2
    <3> HIDE DEF h, l, b, g
    <3>1. SUFFICES ASSUME SwapLock
                   PROVE  ((Left(n) + 1) - 2) % PerFrame = 0 /\ (1 + h) % PerFrame = 2
      OBVIOUS
    <3>2. PerFrame = 3 /\ b = 3 * g /\ g \in Nat /\ l = 1
      BY <1>1, <1>2, <1>4, <2>1, <3>1
    <3>3. (Left(n) + 1) - 2 = 3 + 3 * g /\ (3 + 3 * g) % 3 = 0 /\ 1 + h = 2
      BY <2>1, <3>2
    <3> QED BY <3>2, <3>3
  <2>3. Left(n) + 1 \in 1 .. (2 + 3 * (MaxFrames + 1)) /\ ~(Left(n) + 1 <= 2)
    BY <1>1, <1>2, <1>4, <2>1
  <2>4. ~IsBarrier(Left(n) + 1)
    <3>1. SwapLock => ((Left(n) + 1) - 2) % PerFrame # (1 + h) % PerFrame
      BY <2>2
    <3> QED BY <2>3, <3>1, Zenon DEF IsBarrier
  <2> QED BY <1>7, <2>3, <2>4
<1> QED BY <1>1, <1>3, <1>5, <1>6, <1>7 DEF Phases

\* The master sends its block of a barrier when it leaves it.
LEMMA MasterLeft ==
  ASSUME TypeInv, PlaceInv, NEW k \in Nat, IsBarrier(k), Sent(Master) >= k
  PROVE  Left(Master) >= k
<1>1. Master \in Nodes
  BY PeersOf
<1>2. Left(Master) \in Nat /\ Sent(Master) \in {Left(Master), Left(Master) + 1}
  BY <1>1, CountsOf
<1>3. CASE Sent(Master) = Left(Master)
  BY <1>3
<1>4. CASE Sent(Master) # Left(Master)
  <2>1. /\ Master \in updating /\ phase[Master] \in {"preDraw", "postPostFrame"}
    BY <1>1, <1>2, <1>4, CountsOf DEF Sent
  <2>2. frame[Master] \in Nat /\ MaxFrames \in Nat
    BY <1>1, BoundsAssumption DEF TypeInv, TypeOK
  <2>3. HasPlugins /\ ~(frame[Master] > MaxFrames)
    BY <1>1, <2>1 DEF PlaceInv
  <2>4. ~IsBarrier(Left(Master) + 1)
    BY <1>1, <2>1, <2>2, <2>3, NextSync
  <2>5. k # Left(Master) + 1
    BY <2>4
  <2> QED BY <1>2, <2>5
<1> QED BY <1>3, <1>4

\* Once a node that has its connections has left a barrier, all nodes have come to it.
LEMMA AllCame ==
  ASSUME Inv, NEW n \in Nodes, connected[n] = Peers(n), NEW k \in Nat, IsBarrier(k), Left(n) >= k
  PROVE  \A m \in Nodes : Sent(m) >= k
<1> USE DEF Inv
<1>1. Left(Master) >= k
  <2>1. CASE n = Master
    BY <2>1
  <2>2. CASE n # Master
    <3>1. Master \in Peers(n) /\ Master \in Nodes /\ <<Master, n>> \in Links
      BY <2>2, PeersOf DEF Peers
    <3>2. Recv(n, Master) + Load(<<Master, n>>) <= Sent(Master)
      BY <3>1 DEF LinkInv
    <3>3. /\ Recv(n, Master) \in Nat /\ Recv(n, Master) >= Left(n) /\ Left(n) \in Nat
          /\ Load(<<Master, n>>) \in Nat /\ Sent(Master) \in Nat
      <4>1. Left(n) \in Nat /\ Recv(n, Master) \in {Left(n), Left(n) + 1}
        BY CountsOf
      <4> QED BY <3>1, <4>1, CountsOf, LoadNat
    <3>4. Sent(Master) >= k
      BY <3>2, <3>3
    <3> QED BY <3>4, MasterLeft
  <2> QED BY <2>1, <2>2
<1>2. Master \in Nodes /\ Slaves \subseteq Nodes /\ Nodes = Slaves \cup {Master}
  BY PeersOf
<1>3. \A m \in Nodes : Left(m) \in Nat /\ Sent(m) \in Nat /\ Sent(m) >= Left(m)
  <2>1. \A m \in Nodes : Left(m) \in Nat /\ Sent(m) \in {Left(m), Left(m) + 1}
    BY CountsOf
  <2> QED BY <2>1
<1>4. \A s \in Slaves : Left(Master) <= Sent(s)
  BY DEF BehindInv
<1> QED BY <1>1, <1>2, <1>3, <1>4

\* The number of the swap barrier of frame f.
SwapBarrier(f) == 3 + (f - 1) * PerFrame + Count(HasPlugins)

LEMMA SwapNumbers ==
  ASSUME TypeInv, PlaceInv, SwapLock, NEW n \in Nodes
  PROVE  /\ Swapped(n) \in Nat /\ Rendered(n) \in Nat
         /\ \A f \in Nat \ {0} :
               /\ SwapBarrier(f) \in Nat /\ IsBarrier(SwapBarrier(f))
               /\ f = Swapped(n) => Left(n) >= SwapBarrier(f)
               /\ Left(n) + Count(n \in updating) >= SwapBarrier(f) => Rendered(n) >= f
<1> DEFINE h == Count(HasPlugins)
           F == frame[n]
           u == Count(n \in updating)
<1>1. /\ phase[n] \in Phases /\ F \in Nat /\ (InFrame(n) <=> F >= 1) /\ Left(n) \in Nat
      /\ u \in {0, 1} /\ (u = 1 <=> n \in updating)
  BY LeftNat, BoundsAssumption DEF TypeInv, TypeOK, PlaceInv, Count
<1>2. h \in {0, 1} /\ PerFrame = 2 * h + 1 /\ Count(SwapLock) = 1 /\ (h = 1 <=> HasPlugins)
  BY SetupOf DEF Count
<1>3. Swapped(n) \in Nat /\ Rendered(n) \in Nat
  BY <1>1 DEF Swapped, Rendered
<1>4. ASSUME NEW f \in Nat \ {0}
      PROVE  SwapBarrier(f) \in Nat /\ IsBarrier(SwapBarrier(f))
  <2>1. CASE h = 0
    <3>1. PerFrame = 1 /\ SwapBarrier(f) = 2 + f
      BY <1>2, <2>1 DEF SwapBarrier
    <3>2. ((2 + f) - 2) % 1 = 0 /\ (1 + 0) % 1 = 0
      OBVIOUS
    <3> QED BY <2>1, <3>1, <3>2 DEF IsBarrier
  <2>2. CASE h = 1
    <3>1. PerFrame = 3 /\ SwapBarrier(f) = 1 + 3 * f
      BY <1>2, <2>2 DEF SwapBarrier
    <3>2. ((1 + 3 * f) - 2) % 3 = 2 /\ (1 + 1) % 3 = 2
      BY <1>4
    <3> QED BY <2>2, <3>1, <3>2 DEF IsBarrier
  <2> QED BY <1>2, <2>1, <2>2
<1>5. ASSUME NEW f \in Nat \ {0}, f = Swapped(n)
      PROVE  Left(n) >= SwapBarrier(f)
  <2>1. InFrame(n)
    BY <1>5 DEF Swapped
  <2>2. CASE phase[n] = "preDraw"
    <3>1. f = F - 1 /\ Left(n) = 2 + f * PerFrame + 0 + 0
      BY <1>1, <1>5, <2>1, <2>2 DEF Swapped, Left
    <3> QED BY <1>2, <3>1 DEF SwapBarrier
  <2>3. CASE phase[n] = "draw"
    <3>1. f = F - 1 /\ Left(n) = 2 + f * PerFrame + h + 0
      BY <1>1, <1>5, <2>1, <2>3 DEF Swapped, Left
    <3> QED BY <1>2, <3>1 DEF SwapBarrier
  <2>4. CASE phase[n] = "postPostFrame"
    <3>1. f = F /\ Left(n) = 2 + (f - 1) * PerFrame + h + 1
      BY <1>1, <1>2, <1>5, <2>1, <2>4 DEF Swapped, Left
    <3> QED BY <1>2, <3>1 DEF SwapBarrier
  <2> QED BY <2>1, <2>2, <2>3, <2>4 DEF InFrame
<1>6. ASSUME NEW f \in Nat \ {0}, Left(n) + u >= SwapBarrier(f)
      PROVE  Rendered(n) >= f
  <2>0. SwapBarrier(f) = 3 + (f - 1) * (2 * h + 1) + h
    BY <1>2 DEF SwapBarrier
  <2>1. CASE ~InFrame(n)
    <3>1. Left(n) \in {0, 1}
      BY <1>1, <2>1 DEF Left, Phases, InFrame
    <3>2. SwapBarrier(f) >= 3
      BY <1>2, <2>0
    <3> QED BY <1>1, <1>4, <1>6, <3>1, <3>2
  <2>2. CASE phase[n] = "preDraw"
    <3>1. Left(n) = 2 + (F - 1) * (2 * h + 1) + 0 + 0 /\ (u = 1 => h = 1) /\ Rendered(n) = F - 1
      BY <1>1, <1>2, <2>2 DEF Left, Rendered, Swapped, InFrame, PlaceInv
    <3> HIDE DEF u, h
    <3> QED BY <1>1, <1>2, <1>6, <2>0, <2>2, <3>1 DEF InFrame
  <2>3. CASE phase[n] = "draw"
    <3>1. /\ Left(n) = 2 + (F - 1) * (2 * h + 1) + h + 0
          /\ Rendered(n) = IF u = 1 THEN F ELSE F - 1
      BY <1>1, <1>2, <2>3 DEF Left, Rendered, Swapped, InFrame
    <3> HIDE DEF u, h
    <3> QED BY <1>1, <1>2, <1>6, <2>0, <2>3, <3>1 DEF InFrame
  <2>4. CASE phase[n] = "postPostFrame"
    <3>1. /\ Left(n) = 2 + (F - 1) * (2 * h + 1) + h + 1
          /\ Rendered(n) = F /\ (u = 1 => h = 1)
      BY <1>1, <1>2, <2>4 DEF Left, Rendered, Swapped, InFrame, PlaceInv
    <3> HIDE DEF u, h
    <3> QED BY <1>1, <1>2, <1>6, <2>0, <2>4, <3>1 DEF InFrame
  <2> QED BY <2>1, <2>2, <2>3, <2>4 DEF InFrame
<1> QED BY <1>3, <1>4, <1>5, <1>6

\* With the software swap lock no node that has its connections swaps a frame before every
\* node has rendered it, for any number of slaves (ClusterManager::swapBarrier()).
THEOREM FramesSwapTogether == Spec => []SwapTogether
<1>1. Inv => SwapTogether
  <2> SUFFICES ASSUME Inv, SwapLock, NEW n \in Nodes, NEW m \in Nodes, Whole(n)
               PROVE  Swapped(n) <= Rendered(m)
    BY DEF SwapTogether
  <2> DEFINE f == Swapped(n)
  <2>1. f \in Nat /\ Rendered(m) \in Nat
    BY SwapNumbers DEF Inv
  <2>2. CASE f # 0
    <3>1. SwapBarrier(f) \in Nat /\ IsBarrier(SwapBarrier(f)) /\ Left(n) >= SwapBarrier(f)
      BY <2>1, <2>2, SwapNumbers DEF Inv
    <3>2. Sent(m) >= SwapBarrier(f)
      BY <3>1, AllCame DEF Whole
    <3>3. Left(m) \in Nat /\ Sent(m) \in Nat /\ Left(m) + Count(m \in updating) >= Sent(m)
      <4>1. Left(m) \in Nat /\ Sent(m) \in Nat /\ Count(m \in updating) \in {0, 1}
        BY CountsOf DEF Inv, Count
      <4> QED BY <4>1 DEF Sent
    <3>4. Left(m) + Count(m \in updating) >= SwapBarrier(f)
      <4>1. Count(m \in updating) \in {0, 1}
        BY DEF Count
      <4> QED BY <3>1, <3>2, <3>3, <4>1
    <3> QED BY <2>1, <2>2, <3>4, SwapNumbers DEF Inv
  <2>3. CASE f = 0
    BY <2>1, <2>3
  <2> QED BY <2>2, <2>3
<1> QED BY <1>1, Invariance, PTL

-----------------------------------------------------------------------------
(* The network implements NodeSync. *)

\* The variables of NodeSync.
Barriers == {k \in 1 .. (2 + 3 * (MaxFrames + 1)) : IsBarrier(k)}
Come == [n \in Nodes |-> Left(n) + Count(n \in updating)]
Gone == [n \in Nodes |-> Left(n)]
Apart == {n \in Nodes : phase[n] # "connect" /\ ~Whole(n)}

LEMMA ComeOf ==
  ASSUME TypeInv, PlaceInv
  PROVE  /\ Come \in [Nodes -> Nat] /\ Gone \in [Nodes -> Nat]
         /\ \A n \in Nodes : /\ Gone[n] = Left(n)
                             /\ Come[n] = IF n \in updating THEN Left(n) + 1 ELSE Left(n)
                             /\ Sent(n) <= Come[n]
<1>1. ASSUME NEW n \in Nodes
      PROVE  /\ Left(n) \in Nat /\ Left(n) + Count(n \in updating) \in Nat
             /\ Left(n) + Count(n \in updating) = IF n \in updating THEN Left(n) + 1 ELSE Left(n)
             /\ Sent(n) <= Left(n) + Count(n \in updating)
  BY CountsOf DEF Count, Sent
<1> QED BY <1>1 DEF Come, Gone

\* Steps that neither come to a synchronisation nor leave one nor lose a connection.
LEMMA Stutters ==
  ASSUME setup' = setup, updating' = updating, \A n \in Nodes : Left(n)' = Left(n),
         \A n \in Nodes : phase'[n] # "connect" /\ ~Whole(n)' <=> phase[n] # "connect" /\ ~Whole(n)
  PROVE  UNCHANGED Sync!vars
<1>1. UNCHANGED Barriers
  BY DEF Barriers, IsBarrier, PerFrame, HasPlugins, SwapLock
<1>2. UNCHANGED <<Come, Gone, Apart>>
  BY DEF Come, Gone, Apart
<1> QED BY <1>1, <1>2 DEF Sync!vars, Barriers, Come, Gone, Apart

LEMMA SyncEnters ==
  ASSUME NEW n \in Nodes, Come[n] = Gone[n], n \in Apart => Come[n] + 1 \in Barriers,
         Come' = [Come EXCEPT ![n] = @ + 1], Apart' \in {Apart, Apart \cup {n}},
         Barriers' = Barriers, Gone' = Gone
  PROVE  Sync!Next
<1>1. Sync!Enter(n)
  BY DEF Sync!Enter, Come, Gone, Apart, Barriers
<1> QED BY <1>1 DEF Sync!Next

LEMMA SyncLeaves ==
  ASSUME NEW n \in Nodes, Come[n] = Gone[n] + 1,
         n \in Apart \/ \A p \in (IF Come[n] \in Barriers THEN Nodes ELSE Peers(n)) : Come[p] >= Come[n],
         Gone' = [Gone EXCEPT ![n] = @ + 1], Apart' \in {Apart, Apart \cup {n}},
         Barriers' = Barriers, Come' = Come
  PROVE  Sync!Next
<1>1. Sync!Awaited(n) = IF Come[n] \in Barriers THEN Nodes ELSE Peers(n)
  BY DEF Sync!Awaited, Come, Barriers
<1>2. Sync!Leave(n)
  BY <1>1 DEF Sync!Leave, Come, Gone, Apart, Barriers
<1> QED BY <1>2 DEF Sync!Next

LEMMA SyncCuts ==
  ASSUME NEW n \in Nodes, Apart' = Apart \cup {n}, UNCHANGED <<Barriers, Come, Gone>>
  PROVE  Sync!Next
<1>1. Sync!Cut(n)
  BY DEF Sync!Cut, Come, Gone, Apart, Barriers
<1> QED BY <1>1 DEF Sync!Next

LEMMA SameBarriers ==
  ASSUME setup' = setup
  PROVE  Barriers' = Barriers
BY DEF Barriers, IsBarrier, PerFrame, HasPlugins, SwapLock

\* connectTo() connects: it is no synchronisation, and nobody loses a connection.
LEMMA ConnectStutters ==
  ASSUME TypeInv, PlaceInv, NEW s \in Slaves, connectTo(s)
  PROVE  UNCHANGED Sync!vars
<1>1. s \in Nodes /\ Master \in Nodes /\ s # Master /\ Peers(s) = {Master} /\ Peers(Master) = Slaves
  BY NodesAssumption DEF Nodes, Peers
<1>2. /\ UNCHANGED <<setup, frame, updating>>
      /\ connected' = [connected EXCEPT ![Master] = @ \cup {s}, ![s] = {Master}]
      /\ phase' = [phase EXCEPT ![s] = "start",
                      ![Master] = IF connected'[Master] = Slaves THEN "start" ELSE "connect"]
      /\ phase[s] = "connect" /\ phase[Master] = "connect"
  BY DEF connectTo, updateVars
<1>3. /\ phase'[s] = "start" /\ connected'[s] = {Master}
      /\ phase'[Master] \in {"connect", "start"}
      /\ phase'[Master] = "start" => connected'[Master] = Slaves
      /\ \A n \in Nodes \ {s, Master} : phase'[n] = phase[n] /\ connected'[n] = connected[n]
  BY <1>1, <1>2 DEF TypeInv, TypeOK
<1>4. \A n \in Nodes : Left(n)' = Left(n)
  BY <1>1, <1>2, <1>3 DEF Left, PerFrame, HasPlugins, SwapLock
<1>5. \A n \in Nodes : phase'[n] # "connect" /\ ~Whole(n)' <=> phase[n] # "connect" /\ ~Whole(n)
  BY <1>1, <1>2, <1>3 DEF Whole
<1> QED BY <1>2, <1>4, <1>5, Stutters

LEMMA MovesStutter ==
  ASSUME TypeInv, PlaceInv, NEW n \in Nodes, Moves(n)
  PROVE  UNCHANGED Sync!vars
<1>1. TypeInv' /\ PlaceInv'
  BY MovesTypes
<1>2. /\ phase[n] # "connect" /\ phase'[n] # "connect"
      /\ \A m \in Nodes : Left(m)' = Left(m) /\ (m # n => phase'[m] = phase[m])
  BY <1>1, MovesCounts
<1>3. setup' = setup /\ updating' = updating /\ connected' = connected
  BY DEF Moves, windowOpened, NoUpdate, NoSwapBarrier, updateVars
<1> QED BY <1>2, <1>3, Stutters DEF Whole

LEMMA StillStutters ==
  ASSUME Still
  PROVE  UNCHANGED Sync!vars
<1>1. UNCHANGED <<setup, phase, frame, updating, connected>>
  BY DEF Still, nodeVars, updateVars
<1>2. \A n \in Nodes : Left(n)' = Left(n)
  BY <1>1 DEF Left, PerFrame, HasPlugins, SwapLock
<1> QED BY <1>1, <1>2, Stutters DEF Whole

\* A connection that broke in the middle of a block is lost, a whole block changes nothing.
LEMMA RecvCuts ==
  ASSUME TypeInv, PlaceInv, NEW n \in Nodes, NEW p \in Peers(n), recvBlock(n, p)
  PROVE  Sync!Next \/ UNCHANGED Sync!vars
<1>1. /\ UNCHANGED <<setup, phase, frame, updating>> /\ n \in updating
      /\ connected' = connected \/ connected' = [connected EXCEPT ![n] = @ \ {p}]
  BY DEF recvBlock, Readable, Waiting, nodeVars
<1>2. \A m \in Nodes : Left(m)' = Left(m)
  BY <1>1 DEF Left, PerFrame, HasPlugins, SwapLock
<1>3. CASE connected' = connected
  BY <1>1, <1>2, <1>3, Stutters DEF Whole
<1>4. CASE connected' = [connected EXCEPT ![n] = @ \ {p}]
  <2>1. phase[n] # "connect" /\ connected'[n] # Peers(n)
        /\ \A m \in Nodes \ {n} : connected'[m] = connected[m]
    BY <1>1, <1>4 DEF PlaceInv, TypeInv, TypeOK
  <2>2. Apart' = Apart \cup {n}
    BY <1>1, <2>1 DEF Apart, Whole
  <2>3. UNCHANGED <<Barriers, Come, Gone>>
    BY <1>1, <1>2, SameBarriers DEF Come, Gone
  <2> QED BY <2>2, <2>3, SyncCuts
<1> QED BY <1>1, <1>3, <1>4

\* barrier() and update() come to a synchronisation: update() not without all connections.
LEMMA EntersNext ==
  ASSUME Inv, NEW n \in Nodes, NEW count, NEW ps, Enters(n, count, ps),
         phase[n] \in {"preDraw", "postPostFrame"} => Whole(n) /\ connected' = connected
  PROVE  Sync!Next
<1> USE DEF Inv
<1>1. /\ updating' = updating \cup {n} /\ n \notin updating /\ \A m \in Nodes : Left(m)' = Left(m)
  BY EntersCounts
<1>2. /\ setup' = setup /\ phase' = phase
      /\ phase[n] \notin {"connect", "window"}
      /\ connected'[n] \subseteq connected[n]
      /\ \A m \in Nodes \ {n} : connected'[m] = connected[m]
      /\ phase[n] \in {"preDraw", "postPostFrame"} => HasPlugins /\ frame[n] <= MaxFrames
      /\ phase[n] = "draw" => SwapLock
  BY DEF Enters, nodeVars
<1>3. Barriers' = Barriers /\ Gone' = Gone
  BY <1>1, <1>2, SameBarriers DEF Gone
<1>4. Come[n] = Gone[n] /\ Come[n] = Left(n) /\ Come \in [Nodes -> Nat]
  BY <1>1, ComeOf
<1>5. Come' = [Come EXCEPT ![n] = @ + 1]
  <2>1. TypeInv' /\ PlaceInv'
    BY EntersTypes
  <2>2. \A m \in Nodes : Left(m) \in Nat
    BY CountsOf
  <2>3. \A m \in Nodes \ {n} : Left(m)' + Count(m \in updating)' = Left(m) + Count(m \in updating)
    BY <1>1 DEF Count
  <2>4. Left(n)' + Count(n \in updating)' = (Left(n) + Count(n \in updating)) + 1
    BY <1>1, <2>2 DEF Count
  <2> QED BY <2>3, <2>4 DEF Come
<1>6. Apart' \in {Apart, Apart \cup {n}}
  <2>1. connected[n] \subseteq Peers(n)
    BY DEF TypeInv, TypeOK
  <2>2. \A m \in Nodes \ {n} : m \in Apart' <=> m \in Apart
    BY <1>2 DEF Apart, Whole
  <2>3. n \in Apart => n \in Apart'
    BY <1>2, <2>1 DEF Apart, Whole
  <2>4. Apart \subseteq Nodes /\ Apart' \subseteq Nodes
    BY DEF Apart
  <2> QED BY <2>2, <2>3, <2>4
<1>7. n \in Apart => Come[n] + 1 \in Barriers
  <2>1. SUFFICES ASSUME n \in Apart PROVE Left(n) + 1 \in Barriers
    BY <1>4
  <2>2. phase[n] \notin {"preDraw", "postPostFrame"}
    BY <2>1 DEF Apart
  <2>3. frame[n] <= MaxFrames
    BY <2>2, BoundsAssumption DEF PlaceInv, TypeInv, TypeOK
  <2> QED BY <1>2, <2>2, <2>3, NextSync DEF Barriers
<1> QED BY <1>3, <1>4, <1>5, <1>6, <1>7, SyncEnters

\* updateAllNodes() returns, and at a barrier of the master its end blocks go out.
LEMMA LeavesNext ==
  ASSUME Inv, NEW n \in Nodes, NEW ps, Leaves(n, ps)
  PROVE  Sync!Next
<1> USE DEF Inv
<1>1. /\ updating' = updating \ {n} /\ n \in updating
      /\ Left(n)' = Left(n) + 1 /\ phase'[n] # "connect"
      /\ \A m \in Nodes \ {n} : Left(m)' = Left(m) /\ phase'[m] = phase[m]
  BY LeavesCounts
<1>2. /\ setup' = setup /\ Returns(n) /\ phase[n] \notin {"connect", "window"} /\ frame[n] <= MaxFrames
      /\ connected'[n] \subseteq connected[n]
      /\ \A m \in Nodes \ {n} : connected'[m] = connected[m]
  BY DEF Leaves
<1>3. /\ Come \in [Nodes -> Nat] /\ Gone \in [Nodes -> Nat] /\ Gone[n] = Left(n)
      /\ Come[n] = Left(n) + 1 /\ Left(n) \in Nat
      /\ \A m \in Nodes : Sent(m) <= Come[m] /\ Sent(m) \in Nat
  BY <1>1, ComeOf, CountsOf
<1>4. Barriers' = Barriers
  BY <1>2, SameBarriers
<1>5. Come' = Come
  <2>1. \A m \in Nodes \ {n} : Left(m)' + Count(m \in updating)' = Left(m) + Count(m \in updating)
    BY <1>1 DEF Count
  <2>2. Left(n)' + Count(n \in updating)' = Left(n) + Count(n \in updating)
    BY <1>1, <1>3 DEF Count
  <2> QED BY <2>1, <2>2 DEF Come
<1>6. Gone' = [Gone EXCEPT ![n] = @ + 1]
  BY <1>1 DEF Gone
<1>7. Apart' \in {Apart, Apart \cup {n}}
  <2>1. connected[n] \subseteq Peers(n)
    BY DEF TypeInv, TypeOK
  <2>2. \A m \in Nodes \ {n} : m \in Apart' <=> m \in Apart
    BY <1>1, <1>2 DEF Apart, Whole
  <2>3. n \in Apart => n \in Apart'
    BY <1>1, <1>2, <2>1 DEF Apart, Whole
  <2>4. Apart \subseteq Nodes /\ Apart' \subseteq Nodes
    BY DEF Apart
  <2> QED BY <2>2, <2>3, <2>4
<1>8. ASSUME n \notin Apart
      PROVE  \A p \in (IF Come[n] \in Barriers THEN Nodes ELSE Peers(n)) : Come[p] >= Come[n]
  <2>1. connected[n] = Peers(n) /\ connected[n] # {}
    BY <1>2, <1>8, PeersOf DEF Apart, Whole
  <2>2. \A p \in Peers(n) : Sent(p) > Left(n)
    BY <1>2, <2>1, AllGot
  <2>3. \A p \in Peers(n) : Come[p] >= Come[n]
    BY <1>3, <2>2, PeersOf
  <2>4. ASSUME Come[n] \in Barriers, NEW s \in Slaves PROVE Come[s] >= Come[n]
    <3>1. IsBarrier(Left(n) + 1) /\ Left(n) + 1 \in Nat /\ s \in Nodes /\ Master \in Nodes
      BY <1>3, <2>4, PeersOf DEF Barriers
    <3>2. CASE n = Master
      BY <2>3, <3>2 DEF Peers
    <3>3. CASE n # Master
      <4>1. Sent(Master) >= Left(n) + 1
        BY <1>3, <2>2, <3>1, <3>3 DEF Peers
      <4>2. Left(Master) >= Left(n) + 1 /\ Left(Master) \in Nat
        BY <3>1, <4>1, MasterLeft, CountsOf
      <4>3. Left(Master) <= Sent(s)
        BY DEF BehindInv
      <4> QED BY <1>3, <3>1, <4>2, <4>3
    <3> QED BY <3>2, <3>3
  <2>5. Come[n] \in Barriers => \A p \in Nodes : Come[p] >= Come[n]
    <3>1. n = Master \/ Master \in Peers(n)
      BY DEF Peers
    <3>2. Come[Master] >= Come[n]
      BY <1>3, <2>3, <3>1
    <3> QED BY <2>4, <3>2, PeersOf
  <2> QED BY <2>3, <2>5
<1>9. Come[n] = Gone[n] + 1
  BY <1>3
<1> QED BY <1>4, <1>5, <1>6, <1>7, <1>8, <1>9, SyncLeaves

\* NetworkManager::update() and barrier() keep the synchronisations of any number of nodes
\* together as NodeSync says.
THEOREM Refinement == Spec => ImplementsNodeSync
<1>1. Init => Sync!Init
  <2> SUFFICES ASSUME Init PROVE Sync!Init
    OBVIOUS
  <2>1. /\ updating = {} /\ phase = [n \in Nodes |-> "connect"]
    BY DEF Init
  <2>2. \A n \in Nodes : Left(n) = 0 /\ Left(n) + Count(n \in updating) = 0
    BY <2>1 DEF Left, Count
  <2>3. /\ Come = [n \in Nodes |-> 0] /\ Gone = [n \in Nodes |-> 0] /\ Apart = {}
        /\ Barriers \in SUBSET Nat
    BY <2>1, <2>2, BoundsAssumption DEF Come, Gone, Apart, Barriers
  <2> QED BY <2>3 DEF Sync!Init, Come, Gone, Apart, Barriers
<1>2. Inv /\ [Next]_vars => [Sync!Next]_(Sync!vars)
  <2> SUFFICES ASSUME Inv, [Next]_vars
               PROVE  Sync!Next \/ UNCHANGED Sync!vars
    OBVIOUS
  <2> USE DEF Inv
  <2>1. CASE Quiet
    BY <2>1, QuietIsStill, StillStutters
  <2>2. ASSUME NEW s \in Slaves, connectTo(s) PROVE UNCHANGED Sync!vars
    BY <2>2, ConnectStutters
  <2>3. ASSUME NEW n \in Nodes, Loop(n) PROVE Sync!Next \/ UNCHANGED Sync!vars
    <3>1. CASE Moves(n)
      BY <3>1, MovesStutter
    <3>2. CASE \/ n = Master /\ MasterBarrier
               \/ n \in Slaves /\ SlaveBarrier(n)
               \/ update(n) \/ UpdateFails(n)
      BY <3>2, Entering, EntersNext
    <3>3. CASE Return(n) \/ (n = Master /\ GoFails)
      BY <3>3, Leaving, LeavesNext
    <3>4. CASE \E p \in Peers(n) : recvBlock(n, p)
      BY <3>4, RecvCuts
    <3> QED BY <2>3, <3>1, <3>2, <3>3, <3>4 DEF Loop, Moves
  <2>4. CASE UNCHANGED vars
    <3>1. UNCHANGED <<setup, phase, frame, updating, connected>>
      BY <2>4 DEF vars, nodeVars, updateVars
    <3>2. \A n \in Nodes : Left(n)' = Left(n)
      BY <3>1 DEF Left, PerFrame, HasPlugins, SwapLock
    <3> QED BY <3>1, <3>2, Stutters DEF Whole
  <2> QED BY <2>1, <2>2, <2>3, <2>4, Steps
<1> QED BY <1>1, <1>2, Invariance, PTL DEF Spec, ImplementsNodeSync, Sync!Spec

-----------------------------------------------------------------------------
(* The data a slave is sent, with plug-ins. *)

\* The blocks the master writes whole, and the synchronisation each is of.
Sendable ==
    {b \in Blocks : \/ b.kind \in {"start", "first"}
                    \/ b.kind \in {"preDraw", "postPostFrame"} /\ b.frame >= 1
                    \/ b.kind = "draw" /\ SwapLock /\ b.frame >= 1}
Num(b) ==
    CASE b.kind = "start" -> 1
      [] b.kind = "first" -> 2
      [] OTHER -> 3 + (b.frame - 1) * PerFrame
                  + (IF b.kind = "preDraw" THEN 0 ELSE Count(HasPlugins))
                  + (IF b.kind = "postPostFrame" THEN Count(SwapLock) ELSE 0)
Numbered(b, k) == b.kind = "cut" \/ (b \in Sendable /\ Num(b) = k)

\* What a slave has that read r blocks.
Holds(d, r) ==
    /\ r >= 1 => d.config
    /\ d.app >= 1 => 3 + (d.app - 1) * PerFrame <= r
    /\ r < 3 + d.app * PerFrame
    /\ d.device >= 1 => 2 + d.device * PerFrame <= r
    /\ r < 2 + (d.device + 1) * PerFrame

\* The blocks under way to a slave follow those it read, and none is missing while the
\* master still sends.
Due(s) == Master \in connected[s] /\ state[s] # "dead"
Flow(s) == Due(s) =>
    /\ s \in connected[Master] /\ state[Master] = "up" =>
          Recv(s, Master) + Load(<<Master, s>>) >= Sent(Master)
    /\ \A i \in 1 .. Len(chan[<<Master, s>>]) :
          Numbered(chan[<<Master, s>>][i], Recv(s, Master) + i)
Stored(s) == Master \in connected[s] \/ phase[s] = "connect" => Holds(data[s], Recv(s, Master))

DataInv == HasPlugins =>
    /\ corked = {} /\ \A l \in Links : held[l] = <<>>
    /\ \A s \in Slaves : Flow(s) /\ Stored(s)

\* What number a block has is a matter of the set-up alone.
LEMMA NumberedKept ==
  ASSUME setup' = setup
  PROVE  \A b, i : Numbered(b, i)' <=> Numbered(b, i)
<1>1. SwapLock' = SwapLock /\ HasPlugins' = HasPlugins
  BY DEF SwapLock, HasPlugins
<1>2. PerFrame' = PerFrame
  BY <1>1 DEF PerFrame
<1>3. Sendable' = Sendable
  BY <1>1 DEF Sendable
<1>4. ASSUME NEW b PROVE Num(b)' = Num(b)
  BY <1>1, <1>2 DEF Num
<1>5. ASSUME NEW b, NEW i PROVE Numbered(b, i)' <=> Numbered(b, i)
  BY <1>3, <1>4 DEF Numbered
<1> QED
  BY <1>5

\* The master's block is of the synchronisation it has not left yet.
LEMMA BlockNumber ==
  ASSUME TypeInv, PlaceInv, Master \in Nodes, phase[Master] \notin {"connect", "window"},
         phase[Master] = "draw" => SwapLock,
         phase[Master] \in {"preDraw", "postPostFrame"} => frame[Master] <= MaxFrames
  PROVE  Block(Master) \in Sendable /\ Num(Block(Master)) = Left(Master) + 1
<1>1. Block(Master) = [kind |-> phase[Master], frame |-> frame[Master]]
  BY DEF Block
<1>2. /\ phase[Master] \in {"start", "first", "preDraw", "draw", "postPostFrame"}
      /\ frame[Master] \in 0 .. MaxFrames + 1 /\ MaxFrames \in Nat
      /\ phase[Master] \in {"preDraw", "draw", "postPostFrame"} => frame[Master] >= 1
  BY BoundsAssumption DEF TypeInv, TypeOK, Phases, PlaceInv, InFrame
<1>3. Block(Master) \in Sendable
  BY <1>1, <1>2 DEF Sendable, Blocks, Phases
<1>4. CASE phase[Master] \in {"start", "first"}
  BY <1>1, <1>3, <1>4 DEF Num, Left
<1>5. CASE phase[Master] \in {"preDraw", "draw", "postPostFrame"}
  <2> DEFINE b == (frame[Master] - 1) * PerFrame
             x == IF phase[Master] = "preDraw" THEN 0 ELSE Count(HasPlugins)
             y == IF phase[Master] = "postPostFrame" THEN Count(SwapLock) ELSE 0
  <2>1. Num(Block(Master)) = 3 + b + x + y /\ Left(Master) = 2 + b + x + y
    BY <1>1, <1>5 DEF Num, Left
  <2>2. b \in Int /\ x \in {0, 1} /\ y \in {0, 1}
    <3>1. PerFrame \in {0, 1, 2, 3} /\ frame[Master] \in Nat
      BY <1>2, SetupOf
    <3>2. b \in Int
      BY <3>1
    <3> QED BY <3>2, SetupOf
  <2> HIDE DEF b, x, y
  <2> QED BY <1>3, <2>1, <2>2
<1> QED BY <1>2, <1>3, <1>4, <1>5

\* Reading the next block is having the data of one more.
LEMMA HoldsNext ==
  ASSUME TypeInv, HasPlugins, NEW r \in Nat, NEW b \in Sendable, Num(b) = r + 1,
         NEW d \in [config : BOOLEAN, app : 0 .. MaxFrames, device : 0 .. MaxFrames],
         Holds(d, r)
  PROVE  Holds(Received(d, b), r + 1)
<1> DEFINE l == Count(SwapLock)
           f == b.frame
           a == d.app
           e == d.device
<1>1. /\ Count(HasPlugins) = 1 /\ l \in {0, 1} /\ PerFrame = 2 + l /\ (SwapLock <=> l = 1)
      /\ MaxFrames \in Nat /\ a \in Nat /\ e \in Nat
  BY SetupOf, BoundsAssumption DEF Count
<1>2. f \in Nat /\ b.kind \in {"start", "first", "preDraw", "draw", "postPostFrame"}
  BY <1>1 DEF Sendable, Blocks
<1>3. /\ r >= 1 => d.config
      /\ a >= 1 => 3 + (a - 1) * (2 + l) <= r
      /\ r < 3 + a * (2 + l)
      /\ e >= 1 => 2 + e * (2 + l) <= r
      /\ r < 2 + (e + 1) * (2 + l)
  BY <1>1 DEF Holds
<1>4. CASE b.kind = "start"
  <2>1. r = 0 /\ Received(d, b) = [d EXCEPT !.config = TRUE]
    BY <1>4 DEF Num, Received
  <2>2. a = 0 /\ e = 0
    <3> HIDE DEF a, e, l
    <3> QED BY <1>1, <1>3, <2>1
  <2> QED BY <1>1, <2>1, <2>2 DEF Holds
<1>5. CASE b.kind = "first"
  <2>1. r = 1 /\ Received(d, b) = d /\ d.config
    BY <1>3, <1>5 DEF Num, Received
  <2>2. a = 0 /\ e = 0
    <3> HIDE DEF a, e, l
    <3> QED BY <1>1, <1>3, <2>1
  <2> QED BY <1>1, <2>1, <2>2 DEF Holds
<1>6. CASE b.kind = "preDraw"
  <2>1. r + 1 = 3 + (f - 1) * (2 + l) + 0 + 0 /\ f >= 1
    BY <1>1, <1>6 DEF Num, Sendable
  <2>2. Received(d, b) = [d EXCEPT !.app = f]
    BY <1>6 DEF Received
  <2>3. /\ r >= 1 /\ 3 + (f - 1) * (2 + l) <= r + 1 /\ r + 1 < 3 + f * (2 + l)
        /\ e >= 1 => 2 + e * (2 + l) <= r + 1
        /\ r + 1 < 2 + (e + 1) * (2 + l)
    <3> HIDE DEF a, e, f, l
    <3> QED BY <1>1, <1>2, <1>3, <2>1
  <2> QED BY <1>1, <1>3, <2>2, <2>3 DEF Holds
<1>7. CASE b.kind = "draw"
  <2>1. r + 1 = 3 + (f - 1) * (2 + l) + 1 + 0 /\ f >= 1 /\ l = 1 /\ Received(d, b) = d
    BY <1>1, <1>7 DEF Num, Sendable, Received
  <2>2. /\ r >= 1 /\ (a >= 1 => 3 + (a - 1) * (2 + l) <= r + 1) /\ r + 1 < 3 + a * (2 + l)
        /\ e >= 1 => 2 + e * (2 + l) <= r + 1
        /\ r + 1 < 2 + (e + 1) * (2 + l)
    <3> HIDE DEF a, e, f, l
    <3> QED BY <1>1, <1>2, <1>3, <2>1
  <2> QED BY <1>1, <1>3, <2>1, <2>2 DEF Holds
<1>8. CASE b.kind = "postPostFrame"
  <2>1. r + 1 = 3 + (f - 1) * (2 + l) + 1 + l /\ f >= 1
    BY <1>1, <1>8 DEF Num, Sendable
  <2>2. Received(d, b) = [d EXCEPT !.device = f]
    BY <1>8 DEF Received
  <2>3. /\ r >= 1 /\ (a >= 1 => 3 + (a - 1) * (2 + l) <= r + 1) /\ r + 1 < 3 + a * (2 + l)
        /\ 2 + f * (2 + l) <= r + 1
        /\ r + 1 < 2 + (f + 1) * (2 + l)
    <3> HIDE DEF a, e, f, l
    <3> QED BY <1>1, <1>2, <1>3, <2>1
  <2> QED BY <1>1, <1>3, <2>2, <2>3 DEF Holds
<1> QED BY <1>2, <1>4, <1>5, <1>6, <1>7, <1>8

LEMMA RemainsBlocks ==
  ASSUME NEW q \in Seq(Begun), NEW r \in Remains(q), NEW i \in 1 .. Len(r)
  PROVE  i \in 1 .. Len(q) /\ (r[i] = q[i] \/ r[i].kind = "cut")
<1> DEFINE c == [kind |-> "cut", frame |-> 0]
<1>1. Len(q) \in Nat /\ c \in Begun
  BY LenProperties, BoundsAssumption DEF Begun, Blocks
<1>2. ASSUME NEW j \in 0 .. Len(q)
      PROVE  /\ SubSeq(q, 1, j) \in Seq(Begun) /\ Len(SubSeq(q, 1, j)) = j
             /\ \A k \in 1 .. j : SubSeq(q, 1, j)[k] = q[k]
  BY <1>1, SubSeqProperties
<1>3. CASE r = q
  BY <1>1, <1>3
<1>4. CASE \E j \in 0 .. Len(q) : r = SubSeq(q, 1, j)
  BY <1>1, <1>2, <1>4
<1>5. CASE \E j \in 0 .. Len(q) - 1 : r = Append(SubSeq(q, 1, j), c)
  <2>1. PICK j \in 0 .. Len(q) - 1 : r = Append(SubSeq(q, 1, j), c)
    BY <1>5
  <2>2. /\ SubSeq(q, 1, j) \in Seq(Begun) /\ Len(SubSeq(q, 1, j)) = j
        /\ \A k \in 1 .. j : SubSeq(q, 1, j)[k] = q[k]
    BY <1>1, <1>2
  <2> HIDE DEF c
  <2>3. /\ Len(r) = j + 1
        /\ r[i] = IF i <= j THEN SubSeq(q, 1, j)[i] ELSE c
    BY <1>1, <2>1, <2>2, AppendProperties
  <2>4. c.kind = "cut"
    BY DEF c
  <2> QED BY <1>1, <2>2, <2>3, <2>4
<1> QED BY <1>3, <1>4, <1>5 DEF Remains

\* Nothing that concerns the link from the master to s changes.
LEMMA FlowKept ==
  ASSUME NEW s \in Slaves, Flow(s), Due(s)' => Due(s),
         s \in connected'[Master] /\ state'[Master] = "up" =>
            s \in connected[Master] /\ state[Master] = "up",
         Due(s)' => Recv(s, Master)' = Recv(s, Master),
         chan'[<<Master, s>>] = chan[<<Master, s>>], held'[<<Master, s>>] = held[<<Master, s>>],
         Sent(Master)' = Sent(Master), setup' = setup
  PROVE  Flow(s)'
<1>1. Load(<<Master, s>>)' = Load(<<Master, s>>)
  BY DEF Load
<1>2. \A b, k : Numbered(b, k)' <=> Numbered(b, k)
  BY DEF Numbered, Sendable, Num, SwapLock, HasPlugins, PerFrame
<1> SUFFICES ASSUME Due(s)'
             PROVE  /\ s \in connected'[Master] /\ state'[Master] = "up" =>
                          Recv(s, Master)' + Load(<<Master, s>>)' >= Sent(Master)'
                    /\ \A i \in 1 .. Len(chan'[<<Master, s>>]) :
                          Numbered(chan[<<Master, s>>][i], Recv(s, Master) + i)'
  BY DEF Flow
<1> QED BY <1>1, <1>2 DEF Flow

\* Nothing that concerns what s has changes.
LEMMA StoredKept ==
  ASSUME NEW s \in Slaves, Stored(s), setup' = setup,
         Master \in connected'[s] \/ phase'[s] = "connect" =>
            /\ Master \in connected[s] \/ phase[s] = "connect"
            /\ Recv(s, Master)' = Recv(s, Master),
         data'[s] = data[s]
  PROVE  Stored(s)'
<1>1. PerFrame' = PerFrame
  BY DEF PerFrame, HasPlugins, SwapLock
<1> QED BY <1>1 DEF Stored, Holds

LEMMA SlaveNodes ==
  ASSUME NEW s \in Slaves
  PROVE  /\ s \in Nodes /\ Master \in Nodes /\ s # Master /\ Peers(s) = {Master}
         /\ Peers(Master) = Slaves /\ s \in Peers(Master)
         /\ <<Master, s>> \in Links /\ <<s, Master>> \in Links
BY NodesAssumption, PeersOf DEF Nodes, Peers

LEMMA QuietData ==
  ASSUME Inv, DataInv, Quiet
  PROVE  DataInv'
<1>0. Still
  BY QuietIsStill DEF Inv
<1>1. UNCHANGED <<setup, phase, frame, updating, mUpdated, connected, data>>
  BY <1>0 DEF Still, nodeVars, updateVars
<1>2. HasPlugins' = HasPlugins
  BY <1>1 DEF HasPlugins
<1> SUFFICES ASSUME HasPlugins PROVE DataInv'
  BY <1>2 DEF DataInv
<1>3. corked = {} /\ (\A l \in Links : held[l] = <<>>) /\ \A s \in Slaves : Flow(s) /\ Stored(s)
  BY DEF DataInv
<1>4. ASSUME NEW l \in Links PROVE ~Flush(l)
  BY <1>3 DEF Flush
<1>5. corked' = {} /\ \A l \in Links : held'[l] = <<>>
  <2>1. ASSUME NEW n \in Nodes, Die(n) PROVE corked' = {} /\ \A l \in Links : held'[l] = <<>>
    BY <1>3, <2>1 DEF Die
  <2>2. ASSUME NEW n \in Nodes, Throw(n) PROVE corked' = {} /\ \A l \in Links : held'[l] = <<>>
    BY <1>3, <2>1, <2>2 DEF Throw, linkVars
  <2> QED BY <1>4, <2>1, <2>2 DEF Quiet
<1>6. \A n \in Nodes : Sent(n)' = Sent(n) /\ \A p : Recv(n, p)' = Recv(n, p)
  <2>1. \A n \in Nodes : Left(n)' = Left(n)
    BY <1>1 DEF Left, PerFrame, HasPlugins, SwapLock
  <2> QED BY <1>1, <2>1 DEF Sent, Recv
<1>7. ASSUME NEW s \in Slaves PROVE Flow(s)'
  <2>1. /\ Recv(s, Master)' = Recv(s, Master) /\ Sent(Master)' = Sent(Master) /\ s \in Nodes
        /\ <<Master, s>> \in Links /\ Master \in Nodes /\ s # Master
    BY <1>6, SlaveNodes
  <2>2. held'[<<Master, s>>] = held[<<Master, s>>]
    BY <1>3, <1>5, <2>1
  <2>3. \A b, k : Numbered(b, k)' <=> Numbered(b, k)
    BY <1>1 DEF Numbered, Sendable, Num, SwapLock, HasPlugins, PerFrame
  <2>4. ASSUME NEW n \in Nodes, Die(n) PROVE Flow(s)'
    <3>1. state' = [state EXCEPT ![n] = "dead"]
      BY <2>4 DEF Die
    <3>2. CASE n = s
      <4>1. state'[s] = "dead"
        BY <2>1, <3>1, <3>2 DEF Inv, TypeInv, TypeOK
      <4> QED BY <4>1 DEF Flow, Due
    <3>3. CASE n = Master
      <4>1. state'[Master] = "dead" /\ (Due(s)' => Due(s))
        BY <1>1, <2>1, <3>1, <3>3 DEF Inv, TypeInv, TypeOK, Due
      <4>2. chan'[<<Master, s>>] \in Remains(chan[<<Master, s>>])
        BY <2>1, <2>4, <3>3, SlaveNodes DEF Die
      <4>3. chan[<<Master, s>>] \in Seq(Begun)
        BY <2>1, LoadNat DEF Inv
      <4>4. ASSUME Due(s), NEW i \in 1 .. Len(chan'[<<Master, s>>])
            PROVE  Numbered(chan'[<<Master, s>>][i], Recv(s, Master) + i)
        <5>1. /\ i \in 1 .. Len(chan[<<Master, s>>])
              /\ \/ chan'[<<Master, s>>][i] = chan[<<Master, s>>][i]
                 \/ chan'[<<Master, s>>][i].kind = "cut"
          BY <4>2, <4>3, RemainsBlocks
        <5>2. Numbered(chan[<<Master, s>>][i], Recv(s, Master) + i)
          BY <1>3, <4>4, <5>1 DEF Flow
        <5> QED BY <5>1, <5>2 DEF Numbered
      <4> QED BY <2>1, <2>3, <4>1, <4>4 DEF Flow
    <3>4. CASE n # s /\ n # Master
      <4>1. /\ chan'[<<Master, s>>] = chan[<<Master, s>>]
            /\ state'[Master] = state[Master] /\ state'[s] = state[s]
        BY <2>1, <2>4, <3>1, <3>4 DEF Die, Inv, TypeInv, TypeOK
      <4> QED BY <1>1, <1>3, <2>1, <2>2, <4>1, FlowKept DEF Due
    <3> QED BY <3>2, <3>3, <3>4
  <2>5. ASSUME NEW n \in Nodes, Throw(n), state[n] = "up" PROVE Flow(s)'
    <3>1. CASE Die(n)
      BY <2>4, <3>1
    <3>2. CASE ~Die(n)
      <4>1. chan' = chan /\ state' = [state EXCEPT ![n] = "ended"]
        BY <2>5, <3>2 DEF Throw, linkVars
      <4>2. /\ Due(s)' => Due(s)
            /\ state'[Master] = "up" => state[Master] = "up"
        BY <1>1, <2>1, <2>5, <4>1 DEF Due, Inv, TypeInv, TypeOK
      <4> QED BY <1>1, <1>3, <2>1, <2>2, <4>1, <4>2, FlowKept
    <3> QED BY <3>1, <3>2
  <2> QED BY <1>4, <2>4, <2>5 DEF Quiet
<1>8. ASSUME NEW s \in Slaves PROVE Stored(s)'
  BY <1>1, <1>3, <1>6, SlaveNodes, StoredKept
<1> QED BY <1>5, <1>7, <1>8 DEF DataInv

\* With plug-ins nothing waits in a corked socket: what is written is on its way.
LEMMA WritesOne ==
  ASSUME TypeInv, NEW n \in Nodes, NEW ps \in SUBSET Peers(n), Block(n) \in Begun,
         corked = {}, \A l \in Links : held[l] = <<>>,
         Write(n, ps) \/ WriteAndUncork(n, ps)
  PROVE  /\ \A l \in Links : held'[l] = <<>>
         /\ \A l \in Links : ~(l[1] = n /\ l[2] \in ps) => chan'[l] = chan[l]
         /\ \A l \in Links : l[1] = n /\ l[2] \in ps =>
               /\ Len(chan'[l]) = Len(chan[l]) + 1
               /\ \A i \in 1 .. Len(chan[l]) : chan'[l][i] = chan[l][i]
               /\ chan'[l][Len(chan[l]) + 1] = Block(n)
<1> DEFINE b == Block(n)
<1>1. CASE Write(n, ps)
  <2>1. /\ held' = held
        /\ \A l \in Links : chan'[l] = chan[l] \o (IF l[1] = n /\ l[2] \in ps THEN <<b>> ELSE <<>>)
    BY <1>1 DEF Write
  <2>2. ASSUME NEW l \in Links, ~(l[1] = n /\ l[2] \in ps)
        PROVE  chan'[l] = chan[l]
    <3>1. chan'[l] = chan[l] \o <<>>
      BY <2>1, <2>2
    <3> QED BY <3>1, LoadNat, ConcatEmptySeq
  <2>3. ASSUME NEW l \in Links, l[1] = n /\ l[2] \in ps
        PROVE  /\ Len(chan'[l]) = Len(chan[l]) + 1
               /\ \A i \in 1 .. Len(chan[l]) : chan'[l][i] = chan[l][i]
               /\ chan'[l][Len(chan[l]) + 1] = b
    <3>1. chan'[l] = chan[l] \o <<b>>
      BY <2>1, <2>3
    <3>2. <<b>> \in Seq(Begun) /\ Len(<<b>>) = 1 /\ <<b>>[1] = b
      OBVIOUS
    <3>3. chan[l] \in Seq(Begun) /\ Len(chan[l]) \in Nat
      BY LoadNat
    <3>4. /\ Len(chan[l] \o <<b>>) = Len(chan[l]) + 1
          /\ \A i \in 1 .. Len(chan[l]) + 1 :
                (chan[l] \o <<b>>)[i] = IF i <= Len(chan[l]) THEN chan[l][i]
                                                             ELSE <<b>>[i - Len(chan[l])]
      BY <3>2, <3>3, ConcatProperties
    <3> HIDE DEF b
    <3> QED BY <3>1, <3>2, <3>3, <3>4
  <2> QED BY <2>1, <2>2, <2>3
<1>2. CASE WriteAndUncork(n, ps)
  <2>1. /\ \A l \in Links : chan'[l] = IF l[1] = n /\ l[2] \in ps
                                       THEN Append(chan[l] \o held[l], b) ELSE chan[l]
        /\ \A l \in Links : held'[l] = <<>>
    BY <1>2 DEF WriteAndUncork
  <2>2. ASSUME NEW l \in Links, l[1] = n /\ l[2] \in ps
        PROVE  /\ Len(chan'[l]) = Len(chan[l]) + 1
               /\ \A i \in 1 .. Len(chan[l]) : chan'[l][i] = chan[l][i]
               /\ chan'[l][Len(chan[l]) + 1] = b
    <3>1. chan[l] \in Seq(Begun) /\ Len(chan[l]) \in Nat /\ chan[l] \o <<>> = chan[l]
      BY LoadNat, ConcatEmptySeq
    <3>2. chan'[l] = Append(chan[l], b)
      BY <2>1, <2>2, <3>1
    <3> HIDE DEF b
    <3> QED BY <3>1, <3>2, AppendProperties DEF b
  <2> QED BY <2>1, <2>2
<1> QED BY <1>1, <1>2

\* The master writes the next block to a slave.
LEMMA FlowWritten ==
  ASSUME Inv, setup' = setup, NEW s \in Slaves, Flow(s), Due(s)' => Due(s),
         Due(s)' => Recv(s, Master)' = Recv(s, Master),
         state[Master] = "up", s \in connected[Master],
         Block(Master) \in Sendable, Num(Block(Master)) = Left(Master) + 1,
         Sent(Master) = Left(Master), Sent(Master)' = Left(Master) + 1,
         held[<<Master, s>>] = <<>>, held'[<<Master, s>>] = <<>>,
         Len(chan'[<<Master, s>>]) = Len(chan[<<Master, s>>]) + 1,
         \A i \in 1 .. Len(chan[<<Master, s>>]) : chan'[<<Master, s>>][i] = chan[<<Master, s>>][i],
         chan'[<<Master, s>>][Len(chan[<<Master, s>>]) + 1] = Block(Master)
  PROVE  Flow(s)'
<1> DEFINE k == <<Master, s>>
           c == Len(chan[k])
           r == Recv(s, Master)
<1>1. k \in Links /\ s \in Nodes /\ Master \in Nodes /\ Master \in Peers(s)
  BY SlaveNodes
<1>2. c \in Nat /\ r \in Nat /\ Left(Master) \in Nat
  BY <1>1, LoadNat, CountsOf DEF Inv
<1>3. Load(k) = c /\ Load(k)' = c + 1
  <2>1. Len(<<>>) = 0 /\ \A x \in Nat : x + 0 = x
    OBVIOUS
  <2>2. Load(k) = c + Len(<<>>) /\ Load(k)' = (c + 1) + Len(<<>>)
    BY DEF Load
  <2> HIDE DEF c, k
  <2> QED BY <1>2, <2>1, <2>2
<1>4. \A b, i : Numbered(b, i)' <=> Numbered(b, i)
  BY NumberedKept
<1> SUFFICES ASSUME Due(s)'
             PROVE  /\ Recv(s, Master)' + Load(k)' >= Sent(Master)'
                    /\ \A i \in 1 .. Len(chan'[k]) : Numbered(chan[k][i], Recv(s, Master) + i)'
  BY DEF Flow
<1>5. /\ r + c >= Left(Master)
      /\ \A i \in 1 .. c : Numbered(chan[k][i], r + i)
  <2>1. r + Load(k) >= Sent(Master) /\ \A i \in 1 .. c : Numbered(chan[k][i], r + i)
    BY DEF Flow
  <2> QED BY <1>3, <2>1
<1>6. r + c <= Left(Master)
  <2>1. Master \in connected[s]
    BY DEF Due
  <2>2. r + Load(k) <= Sent(Master)
    BY <1>1, <2>1 DEF Inv, LinkInv
  <2> QED BY <1>3, <2>2
<1>7. Recv(s, Master)' + Load(k)' >= Sent(Master)'
  <2>1. Recv(s, Master)' = r /\ Sent(Master)' = Left(Master) + 1
    OBVIOUS
  <2> HIDE DEF r, c, k
  <2> QED BY <1>2, <1>3, <1>5, <2>1
<1>8. ASSUME NEW i \in 1 .. Len(chan'[k]) PROVE Numbered(chan[k][i], Recv(s, Master) + i)'
  <2>1. Recv(s, Master)' = r /\ Len(chan'[k]) = c + 1
    OBVIOUS
  <2>2. CASE i \in 1 .. c
    <3>1. chan'[k][i] = chan[k][i]
      BY <2>2
    <3> QED BY <1>4, <1>5, <2>1, <2>2, <3>1
  <2>3. CASE i = c + 1
    <3>1. chan'[k][i] = Block(Master)
      BY <2>3
    <3>2. Num(Block(Master)) = r + i
      <4>1. Num(Block(Master)) = Left(Master) + 1
        OBVIOUS
      <4> HIDE DEF r, c, k
      <4>2. r \in Nat /\ c \in Nat /\ r + c = Left(Master)
        BY <1>2, <1>5, <1>6
      <4> QED BY <2>3, <4>1, <4>2
    <3>3. Numbered(Block(Master), r + i)
      BY <3>2 DEF Numbered
    <3> QED BY <1>4, <2>1, <3>1, <3>3
  <2>4. i \in 1 .. c \/ i = c + 1
    <3> HIDE DEF c, k
    <3> QED BY <1>2, <1>8, <2>1
  <2> QED BY <2>2, <2>3, <2>4
<1> QED BY <1>7, <1>8

\* With plug-ins the nodes come to every synchronisation.
LEMMA MovesData ==
  ASSUME Inv, DataInv, NEW n \in Nodes, Moves(n)
  PROVE  DataInv'
<1>1. UNCHANGED <<setup, state, chan, held, data, connected>>
  BY DEF Moves, windowOpened, NoUpdate, NoSwapBarrier, fateVars, linkVars
<1>2. HasPlugins' = HasPlugins
  BY <1>1 DEF HasPlugins
<1> SUFFICES ASSUME HasPlugins PROVE DataInv'
  BY <1>2 DEF DataInv
<1>3. corked = {} /\ (\A l \in Links : held[l] = <<>>) /\ \A s \in Slaves : Flow(s) /\ Stored(s)
  BY DEF DataInv
<1>4. corked' = corked
  BY DEF Moves, windowOpened, NoUpdate, NoSwapBarrier
<1>5. /\ phase[n] # "connect" /\ phase'[n] # "connect"
      /\ \A m \in Nodes : /\ Sent(m)' = Sent(m) /\ (m # n => phase'[m] = phase[m])
                          /\ \A p : Recv(m, p)' = Recv(m, p)
  <2>1. TypeInv' /\ PlaceInv'
    BY MovesTypes DEF Inv
  <2> QED BY <2>1, MovesCounts DEF Inv
<1>6. ASSUME NEW s \in Slaves PROVE Flow(s)' /\ Stored(s)'
  <2>1. /\ Recv(s, Master)' = Recv(s, Master) /\ Sent(Master)' = Sent(Master)
        /\ phase'[s] = "connect" => phase[s] = "connect"
    BY <1>5, SlaveNodes
  <2>2. Flow(s)'
    BY <1>1, <1>3, <2>1, FlowKept DEF Due
  <2>3. Stored(s)'
    BY <1>1, <1>3, <2>1, StoredKept
  <2> QED BY <2>2, <2>3
<1> QED BY <1>1, <1>3, <1>4, <1>6 DEF DataInv

\* Nothing was sent to a slave before it is connected.
LEMMA ConnectData ==
  ASSUME Inv, DataInv, NEW s \in Slaves, connectTo(s)
  PROVE  DataInv'
<1>1. /\ UNCHANGED <<setup, frame, state, updating, mUpdated, chan, held, data, corked>>
      /\ connected' = [connected EXCEPT ![Master] = @ \cup {s}, ![s] = {Master}]
      /\ phase' = [phase EXCEPT ![s] = "start",
                      ![Master] = IF connected'[Master] = Slaves THEN "start" ELSE "connect"]
      /\ phase[s] = "connect" /\ phase[Master] = "connect"
      /\ s \notin updating /\ Master \notin updating
  BY DEF connectTo, Idle, fateVars, updateVars, linkVars
<1>2. s \in Nodes /\ Master \in Nodes /\ s # Master /\ Peers(s) = {Master}
  BY SlaveNodes
<1>3. HasPlugins' = HasPlugins
  BY <1>1 DEF HasPlugins
<1> SUFFICES ASSUME HasPlugins PROVE DataInv'
  BY <1>3 DEF DataInv
<1>4. corked = {} /\ (\A l \in Links : held[l] = <<>>) /\ \A t \in Slaves : Flow(t) /\ Stored(t)
  BY DEF DataInv
<1>5. /\ phase'[s] = "start" /\ phase'[Master] \in {"connect", "start"}
      /\ connected'[Master] = connected[Master] \cup {s} /\ connected'[s] = {Master}
      /\ \A n \in Nodes \ {s, Master} : phase'[n] = phase[n] /\ connected'[n] = connected[n]
  BY <1>1, <1>2 DEF Inv, TypeInv, TypeOK
<1>6. \A n \in Nodes : Left(n)' = Left(n)
  BY <1>1, <1>2, <1>5 DEF Left, PerFrame, HasPlugins, SwapLock
<1>7. /\ Sent(Master)' = Sent(Master)
      /\ \A n \in Nodes : Recv(n, Master)' = Recv(n, Master)
  <2>1. TypeInv' /\ PlaceInv'
    BY ConnectTypes DEF Inv
  <2>2. Sent(Master)' = Sent(Master)
    BY <1>1, <1>2, <1>6, <2>1, CountsOf, CountsNext DEF Inv
  <2> QED BY <1>1, <1>6, <2>2 DEF Recv
<1>8. Sent(Master) = 0 /\ Recv(s, Master) = 0 /\ chan[<<Master, s>>] = <<>>
  <2>1. Left(Master) = 0 /\ Sent(Master) = 0
    <3>1. Left(Master) = 0
      BY <1>1 DEF Left
    <3> QED BY <1>1, <1>2, <3>1, CountsOf DEF Inv
  <2>2. Recv(s, Master) + Load(<<Master, s>>) <= Sent(Master)
    BY <1>1, <1>2 DEF Inv, LinkInv
  <2>3. Recv(s, Master) \in Nat /\ Load(<<Master, s>>) \in Nat
    BY <1>2, SlaveNodes, CountsOf, LoadNat DEF Inv
  <2>4. Recv(s, Master) = 0 /\ Load(<<Master, s>>) = 0
    BY <2>1, <2>2, <2>3
  <2>5. /\ chan[<<Master, s>>] \in Seq(Begun) /\ Len(chan[<<Master, s>>]) \in Nat
        /\ Len(held[<<Master, s>>]) \in Nat
    BY SlaveNodes, LoadNat DEF Inv
  <2> DEFINE a == Len(chan[<<Master, s>>])
             b == Len(held[<<Master, s>>])
  <2>6. a \in Nat /\ b \in Nat /\ a + b = 0
    BY <2>4, <2>5 DEF Load
  <2> HIDE DEF a, b
  <2>7. a = 0
    BY <2>6
  <2>8. chan[<<Master, s>>] = <<>>
    BY <2>5, <2>7, EmptySeq DEF a
  <2> QED BY <2>1, <2>4, <2>8
<1>9. Flow(s)'
  <2>1. chan'[<<Master, s>>] = <<>> /\ Len(<<>>) = 0
    BY <1>1, <1>8
  <2>2. \A i \in 1 .. Len(chan'[<<Master, s>>]) : FALSE
    BY <2>1
  <2>3. Recv(s, Master)' = 0 /\ Sent(Master)' = 0 /\ Load(<<Master, s>>)' = Load(<<Master, s>>)
    BY <1>1, <1>2, <1>7, <1>8 DEF Load
  <2>4. Load(<<Master, s>>) \in Nat
    BY SlaveNodes, LoadNat DEF Inv
  <2>5. Recv(s, Master)' + Load(<<Master, s>>)' >= Sent(Master)'
    BY <2>3, <2>4
  <2> QED BY <2>2, <2>5 DEF Flow
<1>10. ASSUME NEW t \in Slaves PROVE Flow(t)' /\ Stored(t)'
  <2>1. t \in Nodes /\ t # Master
    BY SlaveNodes
  <2>2. Recv(t, Master)' = Recv(t, Master)
    BY <1>7, <2>1
  <2>3. Stored(t)'
    <3>1. CASE t = s
      BY <1>1, <1>4, <2>2, <3>1, StoredKept
    <3>2. CASE t # s
      BY <1>1, <1>4, <1>5, <2>1, <2>2, <3>2, StoredKept
    <3> QED BY <3>1, <3>2
  <2>4. CASE t = s
    BY <1>9, <2>3, <2>4
  <2>5. CASE t # s
    <3>1. connected'[t] = connected[t] /\ (t \in connected'[Master] => t \in connected[Master])
      BY <1>5, <2>1, <2>5
    <3>2. Flow(t)'
      BY <1>1, <1>4, <1>7, <2>2, <3>1, FlowKept DEF Due
    <3> QED BY <2>3, <3>2
  <2> QED BY <2>4, <2>5
<1> QED BY <1>1, <1>4, <1>10 DEF DataInv

\* update() of the master is the next block for every slave.
LEMMA EntersData ==
  ASSUME Inv, DataInv, NEW n \in Nodes, NEW count, NEW ps, Enters(n, count, ps),
         n = Master /\ phase[n] \notin {"preDraw", "postPostFrame"} => ps = {},
         phase[n] \in {"preDraw", "postPostFrame"} =>
            /\ Whole(n) /\ connected' = connected
            /\ state'[n] = "up" => ps = Peers(n)
  PROVE  DataInv'
<1>1. /\ setup' = setup /\ phase' = phase /\ data' = data
      /\ ps \in SUBSET Peers(n) /\ corked' \subseteq corked
      /\ \A m \in Nodes : connected'[m] \subseteq connected[m]
      /\ \A m \in Nodes \ {n} : state'[m] = state[m]
      /\ state[n] = "up" /\ phase[n] \notin {"connect", "window"}
      /\ phase[n] \in {"preDraw", "postPostFrame"} => frame[n] <= MaxFrames
      /\ phase[n] = "draw" => SwapLock
      /\ Write(n, ps) \/ WriteAndUncork(n, ps)
  BY DEF Enters, nodeVars
<1>2. HasPlugins' = HasPlugins
  BY <1>1 DEF HasPlugins
<1> SUFFICES ASSUME HasPlugins PROVE DataInv'
  BY <1>2 DEF DataInv
<1>3. corked = {} /\ (\A l \in Links : held[l] = <<>>) /\ \A s \in Slaves : Flow(s) /\ Stored(s)
  BY DEF DataInv
<1>4. /\ n \notin updating
      /\ \A m \in Nodes : \A p : Recv(m, p)' = Recv(m, p)
      /\ \A m \in Nodes \ {n} : Sent(m)' = Sent(m)
      /\ Sent(n)' = IF n = Master /\ phase[n] \notin {"preDraw", "postPostFrame"}
                    THEN Sent(n) ELSE Sent(n) + 1
  BY EntersCounts DEF Inv
<1>5. /\ \A l \in Links : held'[l] = <<>>
      /\ \A l \in Links : ~(l[1] = n /\ l[2] \in ps) => chan'[l] = chan[l]
      /\ \A l \in Links : l[1] = n /\ l[2] \in ps =>
            /\ Len(chan'[l]) = Len(chan[l]) + 1
            /\ \A i \in 1 .. Len(chan[l]) : chan'[l][i] = chan[l][i]
            /\ chan'[l][Len(chan[l]) + 1] = Block(n)
  <2>1. Block(n) \in Begun
    BY <1>1, BlockOf DEF Inv
  <2> QED BY <1>1, <1>3, <2>1, WritesOne DEF Inv
<1>6. ASSUME NEW s \in Slaves PROVE Stored(s)'
  BY <1>1, <1>3, <1>4, SlaveNodes, StoredKept
<1>7. ASSUME NEW s \in Slaves PROVE Flow(s)'
  <2> DEFINE k == <<Master, s>>
  <2>1. /\ s \in Nodes /\ Master \in Nodes /\ s # Master /\ Peers(Master) = Slaves
        /\ k \in Links /\ k[1] = Master /\ k[2] = s
    BY SlaveNodes
  <2>2. Recv(s, Master)' = Recv(s, Master) /\ held'[k] = held[k] /\ held[k] = <<>>
    BY <1>3, <1>4, <1>5, <2>1
  <2>3. Due(s)' => Due(s)
    <3>1. s = n => state[s] # "dead"
      BY <1>1
    <3> QED BY <1>1, <2>1, <3>1 DEF Due
  <2>4. CASE n # Master
    <3>1. /\ state'[Master] = state[Master] /\ Sent(Master)' = Sent(Master)
          /\ connected'[Master] \subseteq connected[Master]
      BY <1>1, <1>4, <2>1, <2>4
    <3>2. chan'[k] = chan[k]
      BY <1>5, <2>1, <2>4
    <3> QED BY <1>1, <1>3, <2>2, <2>3, <3>1, <3>2, FlowKept
  <2>5. CASE n = Master /\ phase[n] \notin {"preDraw", "postPostFrame"}
    <3>1. Sent(Master)' = Sent(Master) /\ state[Master] = "up"
          /\ connected'[Master] \subseteq connected[Master]
      BY <1>1, <1>4, <2>5
    <3>2. chan'[k] = chan[k]
      BY <1>5, <2>1, <2>5
    <3> QED BY <1>1, <1>3, <2>2, <2>3, <3>1, <3>2, FlowKept
  <2>6. CASE n = Master /\ phase[n] \in {"preDraw", "postPostFrame"} /\ s \in ps
    <3>1. Sent(Master) = Left(Master) /\ Sent(Master)' = Left(Master) + 1
      BY <1>4, <2>1, <2>6, CountsOf DEF Inv
    <3>2. s \in connected[Master]
      BY <1>1, <2>1, <2>6 DEF Whole
    <3>3. Block(Master) \in Sendable /\ Num(Block(Master)) = Left(Master) + 1
      BY <1>1, <2>1, <2>6, BlockNumber DEF Inv
    <3>4. /\ Len(chan'[k]) = Len(chan[k]) + 1
          /\ \A i \in 1 .. Len(chan[k]) : chan'[k][i] = chan[k][i]
          /\ chan'[k][Len(chan[k]) + 1] = Block(Master)
      BY <1>5, <2>1, <2>6
    <3> QED BY <1>1, <1>3, <1>5, <2>1, <2>2, <2>3, <2>6, <3>1, <3>2, <3>3, <3>4, FlowWritten
  <2>7. CASE n = Master /\ phase[n] \in {"preDraw", "postPostFrame"} /\ s \notin ps
    <3>1. state'[Master] # "up"
      BY <2>1, <2>7
    <3>2. chan'[k] = chan[k]
      BY <1>5, <2>1, <2>7
    <3>3. \A b, i : Numbered(b, i)' <=> Numbered(b, i)
      BY <1>1, NumberedKept
    <3> QED BY <1>3, <2>2, <2>3, <3>1, <3>2, <3>3 DEF Flow
  <2> QED BY <2>4, <2>5, <2>6, <2>7
<1> QED BY <1>1, <1>3, <1>5, <1>6, <1>7 DEF DataInv

\* At a barrier the master writes the next block when it leaves it.
LEMMA LeavesData ==
  ASSUME Inv, DataInv, NEW n \in Nodes, NEW ps, Leaves(n, ps),
         n = Master /\ AtGo /\ state'[n] = "up" => ps = connected'[n]
  PROVE  DataInv'
<1>1. /\ setup' = setup /\ data' = data /\ corked' = corked
      /\ state[n] = "up" /\ \A m \in Nodes \ {n} : state'[m] = state[m]
      /\ ps \in SUBSET Peers(n) /\ ps \subseteq connected[n] /\ Returns(n)
      /\ \A m \in Nodes : connected'[m] \subseteq connected[m]
      /\ phase[n] \notin {"connect", "window"} /\ frame[n] <= MaxFrames
      /\ IF n = Master /\ AtGo THEN Write(n, ps) ELSE chan' = chan /\ held' = held
  BY DEF Leaves, Returns, linkVars
<1>2. HasPlugins' = HasPlugins
  BY <1>1 DEF HasPlugins
<1> SUFFICES ASSUME HasPlugins PROVE DataInv'
  BY <1>2 DEF DataInv
<1>3. corked = {} /\ (\A l \in Links : held[l] = <<>>) /\ \A s \in Slaves : Flow(s) /\ Stored(s)
  BY DEF DataInv
<1>4. /\ Left(n)' = Left(n) + 1 /\ Sent(n)' = Left(n) + 1 /\ phase'[n] # "connect"
      /\ Sent(n) = IF n = Master /\ AtGo THEN Left(n) ELSE Left(n) + 1
      /\ \A p : Recv(n, p)' = Left(n) + 1
      /\ \A m \in Nodes \ {n} : /\ Sent(m)' = Sent(m) /\ phase'[m] = phase[m]
                                /\ \A p : Recv(m, p)' = Recv(m, p)
  BY LeavesCounts DEF Inv
<1>5. /\ \A l \in Links : held'[l] = <<>>
      /\ \A l \in Links : ~(n = Master /\ AtGo /\ l[1] = n /\ l[2] \in ps) => chan'[l] = chan[l]
      /\ n = Master /\ AtGo => \A l \in Links : l[1] = n /\ l[2] \in ps =>
            /\ Len(chan'[l]) = Len(chan[l]) + 1
            /\ \A i \in 1 .. Len(chan[l]) : chan'[l][i] = chan[l][i]
            /\ chan'[l][Len(chan[l]) + 1] = Block(n)
  <2>1. Block(n) \in Begun
    BY <1>1, BlockOf DEF Inv
  <2>2. CASE n = Master /\ AtGo
    BY <1>1, <1>3, <2>1, <2>2, WritesOne DEF Inv
  <2>3. CASE ~(n = Master /\ AtGo)
    BY <1>1, <1>3, <2>3
  <2> QED BY <2>2, <2>3
<1>6. ASSUME NEW s \in Slaves, Master \in connected'[s]
      PROVE  Recv(s, Master)' = Recv(s, Master)
  <2>1. s \in Nodes /\ Master \in Peers(s) /\ Master \in connected[s]
    BY <1>1, <1>6, SlaveNodes
  <2>2. CASE s = n
    <3>1. Master \in mUpdated[n]
      BY <1>1, <2>1, <2>2, AllGot
    <3>2. n \in updating
      BY <1>1 DEF Returns
    <3>3. Recv(n, Master) = Left(n) + 1
      BY <3>1, <3>2, CountsOf DEF Inv
    <3> QED BY <1>4, <2>2, <3>3
  <2>3. CASE s # n
    BY <1>4, <2>1, <2>3
  <2> QED BY <2>2, <2>3
<1>7. ASSUME NEW s \in Slaves PROVE Stored(s)'
  <2>1. ASSUME Master \in connected'[s] \/ phase'[s] = "connect"
        PROVE  /\ Master \in connected[s] \/ phase[s] = "connect"
               /\ Recv(s, Master)' = Recv(s, Master)
    BY <1>1, <1>4, <1>6, <2>1, SlaveNodes
  <2> QED BY <1>1, <1>3, <2>1, StoredKept
<1>8. ASSUME NEW s \in Slaves PROVE Flow(s)'
  <2> DEFINE k == <<Master, s>>
  <2>1. /\ s \in Nodes /\ Master \in Nodes /\ s # Master
        /\ k \in Links /\ k[1] = Master /\ k[2] = s
    BY SlaveNodes
  <2>2. /\ held'[k] = held[k] /\ held[k] = <<>>
        /\ Due(s)' => Due(s) /\ Recv(s, Master)' = Recv(s, Master)
        /\ connected'[Master] \subseteq connected[Master]
        /\ state'[Master] = "up" => state[Master] = "up"
    <3>1. s = n => state[s] # "dead"
      BY <1>1
    <3> QED BY <1>1, <1>3, <1>5, <1>6, <2>1, <3>1 DEF Due
  <2>3. CASE ~(n = Master /\ AtGo)
    <3>1. Sent(Master)' = Sent(Master)
      BY <1>4, <2>1, <2>3
    <3>2. chan'[k] = chan[k]
      BY <1>5, <2>1, <2>3
    <3> QED BY <1>1, <1>3, <2>2, <3>1, <3>2, FlowKept
  <2>4. CASE n = Master /\ AtGo /\ s \in ps
    <3>1. /\ Sent(Master) = Left(Master) /\ Sent(Master)' = Left(Master) + 1
          /\ s \in connected[Master] /\ state[Master] = "up"
      BY <1>1, <1>4, <2>2, <2>4 DEF Returns
    <3>2. Block(Master) \in Sendable /\ Num(Block(Master)) = Left(Master) + 1
      <4>1. phase[Master] = "draw" => SwapLock
        BY <1>1, <2>1, <2>4 DEF Inv, PlaceInv, Returns
      <4> QED BY <1>1, <2>1, <2>4, <4>1, BlockNumber DEF Inv
    <3>3. /\ Len(chan'[k]) = Len(chan[k]) + 1
          /\ \A i \in 1 .. Len(chan[k]) : chan'[k][i] = chan[k][i]
          /\ chan'[k][Len(chan[k]) + 1] = Block(Master)
      BY <1>5, <2>1, <2>4
    <3> QED BY <1>1, <1>3, <1>5, <2>1, <2>2, <3>1, <3>2, <3>3, FlowWritten
  <2>5. CASE n = Master /\ AtGo /\ s \notin ps
    <3>1. s \notin connected'[Master] \/ state'[Master] # "up"
      BY <2>5
    <3>2. chan'[k] = chan[k]
      BY <1>5, <2>1, <2>5
    <3>3. \A b, i : Numbered(b, i)' <=> Numbered(b, i)
      BY <1>1, NumberedKept
    <3> QED BY <1>3, <2>2, <3>1, <3>2, <3>3 DEF Flow
  <2> QED BY <2>3, <2>4, <2>5
<1> QED BY <1>1, <1>3, <1>5, <1>7, <1>8 DEF DataInv

\* A slave reads the next block of the master, and has the data of one more.
LEMMA RecvData ==
  ASSUME Inv, DataInv, NEW n \in Nodes, NEW p \in Peers(n), recvBlock(n, p)
  PROVE  DataInv'
<1> DEFINE k == <<p, n>>
           b == Head(chan[k])
           r == Recv(n, p)
<1>1. /\ UNCHANGED <<setup, phase, frame, state, updating, held, corked>>
      /\ state[n] = "up" /\ n \in updating /\ p \in connected[n] /\ p \notin mUpdated[n]
      /\ chan[k] # <<>> /\ chan' = [chan EXCEPT ![k] = Tail(chan[k])]
  BY DEF recvBlock, Readable, Waiting, nodeVars, fateVars
<1>2. \/ /\ connected' = [connected EXCEPT ![n] = @ \ {p}] /\ mUpdated' = mUpdated
         /\ data' = data
      \/ /\ mUpdated' = [mUpdated EXCEPT ![n] = @ \cup {p}] /\ connected' = connected
         /\ b.kind # "cut"
         /\ data' = IF n \in Slaves THEN [data EXCEPT ![n] = Received(@, b)] ELSE data
  BY DEF recvBlock
<1>3. HasPlugins' = HasPlugins /\ PerFrame' = PerFrame /\ MaxFrames' = MaxFrames
      /\ \A c, i : Numbered(c, i)' <=> Numbered(c, i)
  BY <1>1 DEF HasPlugins, SwapLock, PerFrame, Numbered, Sendable, Num
<1> SUFFICES ASSUME HasPlugins PROVE DataInv'
  BY <1>3 DEF DataInv
<1>4. corked = {} /\ (\A l \in Links : held[l] = <<>>) /\ \A s \in Slaves : Flow(s) /\ Stored(s)
  BY DEF DataInv
<1>5. /\ k \in Links /\ p \in Nodes /\ phase[n] # "connect"
      /\ chan \in [Links -> Seq(Begun)] /\ connected \in [Nodes -> SUBSET Nodes]
      /\ mUpdated \in [Nodes -> SUBSET Nodes]
      /\ data \in [Slaves -> [config : BOOLEAN, app : 0 .. MaxFrames, device : 0 .. MaxFrames]]
  BY <1>1, PeersOf DEF Inv, PlaceInv, TypeInv, TypeOK
<1>6. \A m \in Nodes : Left(m)' = Left(m)
  BY <1>1 DEF Left, PerFrame, HasPlugins, SwapLock
<1>7. /\ \A m \in Nodes : Sent(m)' = Sent(m)
      /\ \A m \in Nodes \ {n} : \A q : Recv(m, q)' = Recv(m, q)
  BY <1>1, <1>2, <1>5, <1>6 DEF Sent, Recv, Count
<1>8. ASSUME NEW s \in Slaves, s # n PROVE Flow(s)' /\ Stored(s)'
  <2>1. /\ <<Master, s>> \in Links /\ <<Master, s>> # k /\ s \in Nodes
    BY <1>8, SlaveNodes
  <2>2. /\ chan'[<<Master, s>>] = chan[<<Master, s>>] /\ connected'[s] = connected[s]
        /\ connected'[Master] \subseteq connected[Master] /\ data'[s] = data[s]
        /\ Recv(s, Master)' = Recv(s, Master) /\ Sent(Master)' = Sent(Master)
    <3>1. chan'[<<Master, s>>] = chan[<<Master, s>>]
      BY <1>1, <1>5, <2>1
    <3>2. connected'[s] = connected[s]
      BY <1>2, <1>5, <1>8, <2>1
    <3>3. connected'[Master] \subseteq connected[Master]
      <4>1. connected' = [connected EXCEPT ![n] = @ \ {p}] \/ connected' = connected
        BY <1>2, Zenon
      <4>2. Master \in Nodes /\ connected \in [Nodes -> SUBSET Nodes]
        BY <1>5, SlaveNodes
      <4> QED BY <4>1, <4>2
    <3>4. data'[s] = data[s]
      <4> DEFINE v == Received(data[n], b)
      <4>1. data' = data \/ data' = [data EXCEPT ![n] = v]
        BY <1>2, Zenon
      <4>2. s \in DOMAIN data /\ s # n
        BY <1>5, <1>8
      <4> HIDE DEF v
      <4> QED BY <4>1, <4>2
    <3>5. Recv(s, Master)' = Recv(s, Master) /\ Sent(Master)' = Sent(Master)
      BY <1>7, <1>8, <2>1, SlaveNodes
    <3> QED BY <3>1, <3>2, <3>3, <3>4, <3>5
  <2>3. Flow(s)'
    BY <1>1, <1>4, <2>2, FlowKept DEF Due
  <2>4. Stored(s)'
    BY <1>1, <1>4, <2>2, StoredKept
  <2> QED BY <2>3, <2>4
<1>9. ASSUME n \in Slaves PROVE Flow(n)' /\ Stored(n)'
  <2>1. p = Master /\ k = <<Master, n>>
    BY <1>9, SlaveNodes
  <2>2. CASE connected' = [connected EXCEPT ![n] = @ \ {p}]
    <3>1. Master \notin connected'[n] /\ phase'[n] # "connect"
      BY <1>1, <1>5, <2>1, <2>2
    <3> QED BY <3>1 DEF Flow, Due, Stored
  <2>3. CASE /\ mUpdated' = [mUpdated EXCEPT ![n] = @ \cup {p}] /\ connected' = connected
             /\ b.kind # "cut"
             /\ data' = IF n \in Slaves THEN [data EXCEPT ![n] = Received(@, b)] ELSE data
    <3>1. Due(n)
      BY <1>1, <2>1 DEF Due
    <3>2. /\ chan[k] \in Seq(Begun) /\ Len(chan[k]) \in Nat \ {0}
      BY <1>1, <1>5, LenProperties, EmptySeq
    <3>3. /\ b = chan[k][1] /\ chan'[k] = Tail(chan[k]) /\ Len(chan'[k]) = Len(chan[k]) - 1
          /\ \A i \in 1 .. Len(chan[k]) - 1 : chan'[k][i] = chan[k][i + 1]
      BY <1>1, <1>5, <3>2, HeadTailProperties
    <3>4. r \in Nat /\ Recv(n, p)' = r + 1
      <4>1. r = Left(n) /\ Left(n) \in Nat
        BY <1>1, CountsOf DEF Inv
      <4>2. p \in mUpdated'[n] /\ n \in updating'
        BY <1>1, <1>5, <2>3
      <4>3. Recv(n, p)' = Left(n) + 1
        BY <1>6, <4>2 DEF Recv, Count
      <4> QED BY <4>1, <4>3
    <3>5. \A i \in 1 .. Len(chan[k]) : Numbered(chan[k][i], r + i)
      BY <1>4, <1>9, <2>1, <3>1 DEF Flow
    <3>6. b \in Sendable /\ Num(b) = r + 1
      <4>1. 1 \in 1 .. Len(chan[k])
        BY <3>2
      <4>2. Numbered(b, r + 1)
        BY <3>3, <3>5, <4>1
      <4> QED BY <2>3, <4>2 DEF Numbered
    <3>7. Stored(n)'
      <4>1. Holds(data[n], r)
        BY <1>1, <1>4, <1>9, <2>1 DEF Stored
      <4>2. data[n] \in [config : BOOLEAN, app : 0 .. MaxFrames, device : 0 .. MaxFrames]
        BY <1>5, <1>9
      <4>3. Holds(Received(data[n], b), r + 1)
        <5> HIDE DEF b, r
        <5> QED BY <3>4, <3>6, <4>1, <4>2, HoldsNext DEF Inv
      <4>4. data'[n] = Received(data[n], b)
        BY <1>5, <1>9, <2>3
      <4>5. Holds(data'[n], Recv(n, p)')
        BY <3>4, <4>3, <4>4
      <4> QED BY <1>3, <2>1, <4>5 DEF Stored, Holds
    <3>8. Flow(n)'
      <4>1. ASSUME NEW i \in 1 .. Len(chan'[k]) PROVE Numbered(chan'[k][i], (r + 1) + i)
        <5> DEFINE c == Len(chan[k])
        <5>1. c \in Nat \ {0} /\ Len(chan'[k]) = c - 1 /\ r \in Nat
          BY <3>2, <3>3, <3>4
        <5>2. i + 1 \in 1 .. c /\ i \in 1 .. c - 1 /\ r + (i + 1) = (r + 1) + i
          <6> HIDE DEF c, r, k
          <6> QED BY <4>1, <5>1
        <5>3. Numbered(chan[k][i + 1], r + (i + 1)) /\ chan'[k][i] = chan[k][i + 1]
          BY <3>3, <3>5, <5>2
        <5> QED BY <5>2, <5>3
      <4>2. ASSUME n \in connected[Master], state[Master] = "up"
            PROVE  Recv(n, p)' + Load(k)' >= Sent(Master)
        <5>1. r + Load(k) >= Sent(Master)
          BY <1>9, <1>4, <2>1, <3>1, <4>2 DEF Flow
        <5>2. Load(k)' = Load(k) - 1
          BY <1>5, RecvTypes DEF Inv, Count
        <5>3. Load(k) \in Nat /\ Sent(Master) \in Nat
          BY <1>5, <2>1, LoadNat, CountsOf DEF Inv
        <5> HIDE DEF r, k
        <5> QED BY <3>4, <5>1, <5>2, <5>3
      <4>3. /\ connected' = connected /\ state' = state /\ Sent(Master)' = Sent(Master)
            /\ Recv(n, Master)' = r + 1
        <5>1. Recv(n, Master)' = r + 1
          BY <2>1, <3>4
        <5> QED BY <1>1, <1>7, <1>9, <2>3, <5>1, SlaveNodes
      <4>4. \A i \in 1 .. Len(chan'[<<Master, n>>]) :
               Numbered(chan[<<Master, n>>][i], Recv(n, Master) + i)'
        BY <1>3, <2>1, <4>1, <4>3
      <4>5. n \in connected'[Master] /\ state'[Master] = "up" =>
               Recv(n, Master)' + Load(<<Master, n>>)' >= Sent(Master)'
        BY <2>1, <4>2, <4>3
      <4> QED BY <4>4, <4>5 DEF Flow
    <3> QED BY <3>7, <3>8
  <2> QED BY <1>2, <2>2, <2>3
<1>10. \A s \in Slaves : Flow(s)' /\ Stored(s)'
  BY <1>8, <1>9
<1> QED BY <1>1, <1>4, <1>10 DEF DataInv

LEMMA DataKept ==
  ASSUME Inv, DataInv, [Next]_vars
  PROVE  DataInv'
<1>1. CASE UNCHANGED vars
  <2>1. UNCHANGED <<setup, phase, frame, state, updating, mUpdated, connected, data, chan, held, corked>>
    BY <1>1 DEF vars, nodeVars, fateVars, updateVars, linkVars
  <2>2. HasPlugins' = HasPlugins
    BY <2>1 DEF HasPlugins
  <2>3. \A n \in Nodes : Sent(n)' = Sent(n) /\ \A p : Recv(n, p)' = Recv(n, p)
    BY <2>1 DEF Sent, Recv, Left, PerFrame, HasPlugins, SwapLock
  <2>4. ASSUME HasPlugins, NEW s \in Slaves PROVE Flow(s)' /\ Stored(s)'
    <3>1. Flow(s) /\ Stored(s)
      BY <2>4 DEF DataInv
    <3>2. Flow(s)'
      BY <2>1, <2>3, <3>1, SlaveNodes, FlowKept DEF Due
    <3>3. Stored(s)'
      BY <2>1, <2>3, <3>1, SlaveNodes, StoredKept
    <3> QED BY <3>2, <3>3
  <2> QED BY <2>1, <2>2, <2>4 DEF DataInv
<1>2. CASE Next
  <2>1. CASE Quiet
    BY <2>1, QuietData
  <2>2. CASE \E s \in Slaves : connectTo(s)
    BY <2>2, ConnectData
  <2>3. ASSUME NEW n \in Nodes, Loop(n)
        PROVE  DataInv'
    <3>1. CASE Moves(n)
      BY <3>1, MovesData
    <3>2. CASE \/ n = Master /\ MasterBarrier
               \/ n \in Slaves /\ SlaveBarrier(n)
               \/ update(n) \/ UpdateFails(n)
      <4>1. PICK count \in 0 .. Cardinality(Peers(n)), ps \in SUBSET Peers(n) :
               /\ Enters(n, count, ps)
               /\ n = Master /\ phase[n] \notin {"preDraw", "postPostFrame"} => ps = {}
               /\ phase[n] \in {"preDraw", "postPostFrame"} =>
                     /\ Whole(n) /\ connected' = connected
                     /\ state'[n] = "up" => ps = Peers(n)
        BY <3>2, Entering DEF Inv
      <4> QED BY <4>1, EntersData
    <3>3. CASE Return(n) \/ (n = Master /\ GoFails)
      BY <3>3, Leaving, LeavesData DEF Inv
    <3>4. CASE \E p \in Peers(n) : recvBlock(n, p)
      BY <3>4, RecvData
    <3> QED BY <2>3, <3>1, <3>2, <3>3, <3>4 DEF Loop, Moves
  <2> QED BY <1>2, <2>1, <2>2, <2>3, Steps DEF Inv
<1> QED BY <1>1, <1>2

LEMMA InitData == Init => DataInv
<1> SUFFICES ASSUME Init, HasPlugins PROVE DataInv
  BY DEF DataInv
<1>1. /\ updating = {} /\ corked = {} /\ setup \in Setups
      /\ phase = [n \in Nodes |-> "connect"] /\ connected = [n \in Nodes |-> {}]
      /\ held = [l \in Links |-> <<>>]
      /\ data = [s \in Slaves |-> [config |-> FALSE, app |-> 0, device |-> 0]]
  BY DEF Init
<1>2. Inv
  BY InitInv
<1>3. ASSUME NEW s \in Slaves PROVE Flow(s) /\ Stored(s)
  <2>1. s \in Nodes /\ Master \notin connected[s]
    BY <1>1, SlaveNodes
  <2>2. Recv(s, Master) = 0
    <3>1. Left(s) = 0
      BY <1>1, <2>1 DEF Left
    <3> QED BY <1>1, <1>2, <2>1, <3>1, CountsOf DEF Inv
  <2>3. PerFrame \in Nat /\ PerFrame >= 2
    <3> DEFINE h == Count(HasPlugins)
               l == Count(SwapLock)
    <3>1. h = 1
      BY DEF Count
    <3>2. l \in {0, 1} /\ PerFrame = 2 * h + l
      BY <1>2, SetupOf DEF Inv
    <3> HIDE DEF h, l
    <3> QED BY <3>1, <3>2
  <2>4. data[s] = [config |-> FALSE, app |-> 0, device |-> 0]
    BY <1>1
  <2>5. Holds(data[s], 0)
    <3>1. 0 * PerFrame = 0 /\ (0 + 1) * PerFrame = PerFrame
      BY <2>3
    <3> QED BY <2>3, <2>4, <3>1 DEF Holds
  <2> QED BY <2>1, <2>2, <2>5 DEF Flow, Due, Stored
<1> QED BY <1>1, <1>3 DEF DataInv

\* Where a slave that has its connection is, and what it has then.
LEMMA DataOf ==
  ASSUME Inv, DataInv, HasPlugins, NEW s \in Slaves, Whole(s)
  PROVE  /\ phase[s] \notin {"connect", "start"} => data[s].config
         /\ phase[s] \in {"draw", "postPostFrame"} => data[s].app = frame[s]
         /\ phase[s] \in {"preDraw", "draw"} => data[s].device = frame[s] - 1
<1> DEFINE r == Recv(s, Master)
           l == Count(SwapLock)
           f == frame[s]
           a == data[s].app
           e == data[s].device
<1>1. s \in Nodes /\ Master \in connected[s]
  BY SlaveNodes DEF Whole
<1>2. Holds(data[s], r)
  BY <1>1 DEF DataInv, Stored
<1>3. /\ Left(s) \in Nat /\ r \in {Left(s), Left(s) + 1}
      /\ r = Left(s) + 1 => s \in updating
  BY <1>1, CountsOf DEF Inv
<1>4. /\ Count(HasPlugins) = 1 /\ l \in {0, 1} /\ PerFrame = 2 + l /\ (SwapLock <=> l = 1)
      /\ MaxFrames \in Nat /\ a \in Nat /\ e \in Nat /\ f \in Nat /\ phase[s] \in Phases
      /\ InFrame(s) => f >= 1
  <2>1. TypeInv /\ TypeOK /\ PlaceInv
    BY DEF Inv, TypeInv
  <2>2. Count(HasPlugins) = 1 /\ (SwapLock <=> l = 1)
    BY DEF Count
  <2>3. l \in {0, 1} /\ PerFrame = 2 * Count(HasPlugins) + l
    BY <2>1, SetupOf
  <2>4. PerFrame = 2 + l
    <3> HIDE DEF l
    <3> QED BY <2>2, <2>3
  <2>5. data[s] \in [config : BOOLEAN, app : 0..MaxFrames, device : 0..MaxFrames]
    BY <2>1 DEF TypeOK
  <2>6. f \in 0..(MaxFrames + 1) /\ phase[s] \in Phases
    BY <1>1, <2>1 DEF TypeOK
  <2>7. a \in Nat /\ e \in Nat /\ f \in Nat /\ MaxFrames \in Nat
    BY <2>5, <2>6, BoundsAssumption
  <2>8. InFrame(s) => f >= 1
    BY <1>1, <2>1 DEF PlaceInv
  <2> QED BY <2>2, <2>3, <2>4, <2>6, <2>7, <2>8
<1>5. /\ r >= 1 => data[s].config
      /\ a >= 1 => 3 + (a - 1) * (2 + l) <= r
      /\ r < 3 + a * (2 + l)
      /\ e >= 1 => 2 + e * (2 + l) <= r
      /\ r < 2 + (e + 1) * (2 + l)
  BY <1>2, <1>4 DEF Holds
<1>6. CASE phase[s] \in {"connect", "start"}
  BY <1>6
<1>7. CASE phase[s] \in {"window", "first"}
  <2>1. Left(s) = 1
    BY <1>7 DEF Left
  <2>2. r >= 1
    <3> HIDE DEF r
    <3> QED BY <1>3, <2>1
  <2> QED BY <1>5, <1>7, <2>2
<1>8. CASE phase[s] = "preDraw"
  <2>1. Left(s) = 2 + (f - 1) * (2 + l) + 0 + 0 /\ f >= 1
    BY <1>4, <1>8 DEF Left, InFrame
  <2>2. r >= 1 /\ e = f - 1
    <3> HIDE DEF r, l, f, a, e
    <3> QED BY <1>3, <1>4, <1>5, <2>1
  <2> QED BY <1>5, <1>8, <2>2
<1>9. CASE phase[s] = "draw"
  <2>1. Left(s) = 2 + (f - 1) * (2 + l) + 1 + 0 /\ f >= 1
    BY <1>4, <1>9 DEF Left, InFrame
  <2>2. r = Left(s) + 1 => l = 1
    BY <1>1, <1>3, <1>4, <1>9 DEF Inv, PlaceInv
  <2>3. r >= 1 /\ a = f /\ e = f - 1
    <3> HIDE DEF r, l, f, a, e
    <3>1. CASE l = 0
      BY <1>3, <1>4, <1>5, <2>1, <2>2, <3>1
    <3>2. CASE l = 1
      BY <1>3, <1>4, <1>5, <2>1, <2>2, <3>2
    <3> QED BY <1>4, <3>1, <3>2
  <2> QED BY <1>5, <1>9, <2>3
<1>10. CASE phase[s] = "postPostFrame"
  <2>1. Left(s) = 2 + (f - 1) * (2 + l) + 1 + l /\ f >= 1
    BY <1>4, <1>10 DEF Left, InFrame
  <2>2. r >= 1 /\ a = f
    <3> HIDE DEF r, l, f, a, e
    <3> QED BY <1>3, <1>4, <1>5, <2>1
  <2> QED BY <1>5, <1>10, <2>2
<1> QED BY <1>4, <1>6, <1>7, <1>8, <1>9, <1>10 DEF Phases

\* A slave that has its connection draws each frame with the data the master sent for it,
\* however far apart the nodes are (NetworkManager.cpp:422-468).
THEOREM DataOfFrames == Spec => []DataOfFrame
<1>1. Inv /\ DataInv /\ [Next]_vars => DataInv'
  BY DataKept
<1>2. Inv /\ DataInv => DataOfFrame
  BY DataOf DEF DataOfFrame
<1> QED BY <1>1, <1>2, InitData, Invariance, PTL DEF Spec

=============================================================================
