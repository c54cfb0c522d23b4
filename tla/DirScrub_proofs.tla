--------------------------- MODULE DirScrub_proofs ---------------------------
(***************************************************************************)
(* For every volume and every mixture of records: a plan stays in its      *)
(* directory, no record in use is lost, what a driver listed is listed     *)
(* still, and nothing of a deleted file is left.                           *)
(***************************************************************************)
EXTENDS DirScrub, Selection_proofs

---------------------------------------------------------------------------
(* Places and slots.                                                       *)

USE SizesAssumption

\* A place of a row of clusters is a cluster of the row and a place in it.
LEMMA Parts ==
    ASSUME NEW i \in Nat \ {0}
    PROVE  /\ (i - 1) \div PerCluster \in Nat
           /\ (i - 1) % PerCluster \in 0 .. PerCluster - 1
           /\ i - 1 = ((i - 1) \div PerCluster) * PerCluster + ((i - 1) % PerCluster)
  OBVIOUS

LEMMA PartsOnce ==
    ASSUME NEW c \in Int, NEW d \in Int,
           NEW r \in 0 .. PerCluster - 1, NEW t \in 0 .. PerCluster - 1,
           c * PerCluster + r = d * PerCluster + t
    PROVE  c = d /\ r = t
  <1>1. ASSUME NEW a \in Int, NEW b \in Int, a < b
        PROVE  a * PerCluster + PerCluster <= b * PerCluster
    <2>1. a + 1 <= b
      BY <1>1
    <2>2. (b - (a + 1)) * PerCluster >= 0
      BY <2>1
    <2>3. (b - (a + 1)) * PerCluster = b * PerCluster - (a * PerCluster + PerCluster)
      OBVIOUS
    <2>4. a * PerCluster \in Int /\ b * PerCluster \in Int
      OBVIOUS
    <2>. QED BY <2>2, <2>3, <2>4
  <1>2. c * PerCluster \in Int /\ d * PerCluster \in Int
    OBVIOUS
  <1>3. ~(c < d)
    BY <1>1, <1>2
  <1>4. ~(d < c)
    BY <1>1, <1>2
  <1>5. c = d
    BY <1>3, <1>4
  <1>. QED BY <1>2, <1>5

LEMMA PartsOfPlace ==
    ASSUME NEW n \in Nat, NEW i \in 1 .. n * PerCluster
    PROVE  (i - 1) \div PerCluster + 1 \in 1 .. n
  <1>. DEFINE q == (i - 1) \div PerCluster
              r == (i - 1) % PerCluster
  <1>1. i \in Nat \ {0} /\ n * PerCluster \in Nat
    OBVIOUS
  <1>2. q \in Nat /\ r \in 0 .. PerCluster - 1 /\ i - 1 = q * PerCluster + r
    BY <1>1, Parts
  <1>. HIDE DEF q, r
  <1>3. q < n
    <2>. SUFFICES ASSUME n <= q PROVE FALSE
      BY <1>2
    <2>1. (q - n) * PerCluster >= 0
      BY <1>2
    <2>2. (q - n) * PerCluster = q * PerCluster - n * PerCluster
      BY <1>2
    <2>3. q * PerCluster \in Nat
      BY <1>2
    <2>. QED BY <1>1, <1>2, <2>1, <2>2, <2>3
  <1>4. q + 1 \in 1 .. n
    BY <1>2, <1>3
  <1>. QED BY <1>4 DEF q

LEMMA PlaceOfParts ==
    ASSUME NEW n \in Nat, NEW k \in 1 .. n, NEW r \in 0 .. PerCluster - 1
    PROVE  \E i \in 1 .. n * PerCluster : /\ i = (k - 1) * PerCluster + r + 1
                                          /\ (i - 1) \div PerCluster + 1 = k
                                          /\ (i - 1) % PerCluster = r
  <1>. DEFINE i == (k - 1) * PerCluster + r + 1
  <1>1. (k - 1) * PerCluster \in Nat /\ n * PerCluster \in Nat
    OBVIOUS
  <1>2. i \in 1 .. n * PerCluster
    <2>1. (n - k) * PerCluster >= 0
      OBVIOUS
    <2>2. (n - k) * PerCluster = n * PerCluster - ((k - 1) * PerCluster + PerCluster)
      OBVIOUS
    <2>. QED BY <1>1, <2>1, <2>2
  <1>. DEFINE q == (i - 1) \div PerCluster
              t == (i - 1) % PerCluster
  <1>3. q \in Nat /\ t \in 0 .. PerCluster - 1 /\ i - 1 = q * PerCluster + t
    <2>1. i \in Nat \ {0}
      BY <1>1
    <2>. HIDE DEF i
    <2>. QED BY <2>1, Parts
  <1>4. i - 1 = (k - 1) * PerCluster + r
    BY <1>1
  <1>5. q = k - 1 /\ t = r
    <2>. HIDE DEF q, t, i
    <2>1. (k - 1) * PerCluster + r = q * PerCluster + t
      BY <1>3, <1>4
    <2>2. k - 1 \in Int /\ q \in Int
      BY <1>3
    <2>. QED BY <1>3, <2>1, <2>2, PartsOnce
  <1>. QED BY <1>2, <1>5

LEMMA SlotFacts ==
    ASSUME NEW c \in Cluster, NEW r \in 0 .. PerCluster - 1
    PROVE  /\ FirstSlot(c) \in Nat /\ FirstSlot(c) >= RootSlots
           /\ FirstSlot(c) + r \in Slot
           /\ ClusterOf(FirstSlot(c) + r) = c
  <1>. DEFINE a == (c - 2) * PerCluster
  <1>1. c \in Nat /\ c >= 2 /\ c <= LastCluster
    BY DEF Cluster
  <1>2. a \in Nat
    BY <1>1
  <1>3. a + r <= (LastCluster - 1) * PerCluster - 1
    <2>1. (LastCluster - c) * PerCluster >= 0
      BY <1>1
    <2>2. (LastCluster - c) * PerCluster = (LastCluster - 1) * PerCluster - (a + PerCluster)
      BY <1>1
    <2>3. (LastCluster - 1) * PerCluster \in Nat
      OBVIOUS
    <2>. HIDE DEF a
    <2>. QED BY <1>2, <2>1, <2>2, <2>3
  <1>4. FirstSlot(c) = RootSlots + a
    BY DEF FirstSlot
  <1>5. FirstSlot(c) + r \in Slot
    <2>1. (LastCluster - 1) * PerCluster \in Nat
      OBVIOUS
    <2>. HIDE DEF a
    <2>. QED BY <1>2, <1>3, <1>4, <2>1 DEF Slot
  <1>6. ClusterOf(FirstSlot(c) + r) = c
    <2>. DEFINE i == a + r + 1
    <2>1. (FirstSlot(c) + r) - RootSlots = i - 1 /\ i \in Nat \ {0}
      <3>. HIDE DEF a
      <3>. QED BY <1>2, <1>4
    <2>2. /\ (i - 1) \div PerCluster \in Nat /\ (i - 1) % PerCluster \in 0 .. PerCluster - 1
          /\ i - 1 = ((i - 1) \div PerCluster) * PerCluster + ((i - 1) % PerCluster)
      <3>. HIDE DEF i
      <3>. QED BY <2>1, Parts
    <2>3. i - 1 = a + r
      <3>. HIDE DEF a
      <3>. QED BY <1>2
    <2>4. (i - 1) \div PerCluster = c - 2
      <3>. DEFINE q == (i - 1) \div PerCluster
                  t == (i - 1) % PerCluster
      <3>1. (c - 2) * PerCluster + r = q * PerCluster + t /\ q \in Int /\ c - 2 \in Int
            /\ t \in 0 .. PerCluster - 1
        <4>1. (c - 2) * PerCluster + r = i - 1
          BY <2>3
        <4>. HIDE DEF i
        <4>. QED BY <1>1, <2>2, <4>1
      <3>. HIDE DEF q, t
      <3>2. q = c - 2
        BY <3>1, PartsOnce
      <3>. QED BY <3>2 DEF q
    <2>. HIDE DEF i
    <2>5. ((FirstSlot(c) + r) - RootSlots) \div PerCluster = c - 2
      BY <2>1, <2>4
    <2>6. ClusterOf(FirstSlot(c) + r) = (c - 2) + 2
      BY <2>5 DEF ClusterOf
    <2>. QED BY <1>1, <2>6
  <1>. QED BY <1>2, <1>4, <1>5, <1>6

\* The i-th record of a row of clusters is the one at r in its k-th cluster.
PlacedAt(row, i, k, r) ==
    /\ i = (k - 1) * PerCluster + r + 1 /\ row[k] \in Cluster
    /\ SlotAt(row, i) = FirstSlot(row[k]) + r

LEMMA RowFacts ==
    ASSUME NEW row \in Seq(Cluster), NEW i \in 1 .. Len(row) * PerCluster
    PROVE  \E k \in 1 .. Len(row), r \in 0 .. PerCluster - 1 : PlacedAt(row, i, k, r)
  <1>. DEFINE k == (i - 1) \div PerCluster + 1
              r == (i - 1) % PerCluster
  <1>1. Len(row) \in Nat /\ i \in Nat \ {0}
    OBVIOUS
  <1>2. k \in 1 .. Len(row)
    BY <1>1, PartsOfPlace
  <1>3. r \in 0 .. PerCluster - 1 /\ i - 1 = ((i - 1) \div PerCluster) * PerCluster + r
        /\ (i - 1) \div PerCluster \in Nat
    BY <1>1, Parts
  <1>4. (k - 1) = (i - 1) \div PerCluster
    BY <1>3
  <1>5. i = (k - 1) * PerCluster + r + 1
    <2>1. i - 1 = (k - 1) * PerCluster + r
      BY <1>3, <1>4
    <2>2. (k - 1) * PerCluster \in Nat
      BY <1>3, <1>4
    <2>. HIDE DEF k, r
    <2>. QED BY <1>1, <1>3, <2>1, <2>2
  <1>6. SlotAt(row, i) = FirstSlot(row[k]) + r
    BY DEF SlotAt
  <1>7. row[k] \in Cluster
    BY <1>2
  <1>. HIDE DEF k, r
  <1>8. PlacedAt(row, i, k, r)
    BY <1>5, <1>6, <1>7 DEF PlacedAt
  <1>. QED BY <1>2, <1>3, <1>8

LEMMA RowOnce ==
    ASSUME NEW row \in Seq(Cluster),
           \A a, b \in 1 .. Len(row) : row[a] = row[b] => a = b,
           NEW i \in 1 .. Len(row) * PerCluster, NEW j \in 1 .. Len(row) * PerCluster,
           SlotAt(row, i) = SlotAt(row, j)
    PROVE  i = j
  <1>. USE DEF PlacedAt
  <1>1. PICK k \in 1 .. Len(row), r \in 0 .. PerCluster - 1 : PlacedAt(row, i, k, r)
    BY RowFacts
  <1>2. PICK l \in 1 .. Len(row), t \in 0 .. PerCluster - 1 : PlacedAt(row, j, l, t)
    BY RowFacts
  <1>3. row[k] = row[l]
    <2>1. ClusterOf(FirstSlot(row[k]) + r) = row[k]
      BY <1>1, SlotFacts
    <2>2. ClusterOf(FirstSlot(row[l]) + t) = row[l]
      BY <1>2, SlotFacts
    <2>. QED BY <1>1, <1>2, <2>1, <2>2
  <1>4. k = l
    BY <1>3
  <1>5. FirstSlot(row[k]) \in Nat
    BY <1>1, SlotFacts
  <1>6. r = t
    BY <1>1, <1>2, <1>4, <1>5
  <1>. QED BY <1>1, <1>2, <1>4, <1>6

\* Every slot of a cluster of the row is in it.
LEMMA RowHas ==
    ASSUME NEW row \in Seq(Cluster), NEW k \in 1 .. Len(row), NEW r \in 0 .. PerCluster - 1
    PROVE  \E i \in 1 .. Len(row) * PerCluster : PlacedAt(row, i, k, r)
  <1>1. Len(row) \in Nat
    OBVIOUS
  <1>2. PICK i \in 1 .. Len(row) * PerCluster :
           /\ i = (k - 1) * PerCluster + r + 1
           /\ (i - 1) \div PerCluster + 1 = k /\ (i - 1) % PerCluster = r
    BY <1>1, PlaceOfParts
  <1>3. PlacedAt(row, i, k, r)
    BY <1>2 DEF SlotAt, PlacedAt
  <1>. QED BY <1>3

---------------------------------------------------------------------------
(* The walk along the FAT.                                                 *)

\* The walk's function as far as n.
WalkTo(fat, start, lost, n, g) ==
    \A k \in 0 .. n : g[k] = IF k = 0 THEN <<start>> ELSE Onward(fat, g[k - 1], lost)

LEMMA WalkExists ==
    ASSUME NEW fat, NEW start, NEW lost, NEW n \in Nat
    PROVE  \E g : WalkTo(fat, start, lost, n, g)
  <1>. DEFINE S == {m \in Nat : \E g : WalkTo(fat, start, lost, m, g)}
  <1>1. 0 \in S
    <2>1. WalkTo(fat, start, lost, 0, [k \in {0} |-> <<start>>])
      BY DEF WalkTo
    <2>. QED BY <2>1
  <1>2. ASSUME NEW m \in Nat, m \in S PROVE m + 1 \in S
    <2>1. PICK g : WalkTo(fat, start, lost, m, g)
      BY <1>2
    <2>. DEFINE h == [k \in Nat |-> IF k = m + 1 THEN Onward(fat, g[m], lost) ELSE g[k]]
    <2>2. WalkTo(fat, start, lost, m + 1, h)
      BY <2>1 DEF WalkTo
    <2>. QED BY <2>2
  <1>. HIDE DEF S
  <1>3. Nat \subseteq S
    BY <1>1, <1>2, AllNumbers
  <1>. QED BY <1>3 DEF S

LEMMA WalkOnce ==
    ASSUME NEW fat, NEW start, NEW lost, NEW n \in Nat, NEW g, NEW h,
           WalkTo(fat, start, lost, n, g), WalkTo(fat, start, lost, n, h)
    PROVE  g[n] = h[n]
  <1>. DEFINE S == {k \in Nat : k <= n => g[k] = h[k]}
  <1>1. 0 \in S
    BY DEF WalkTo
  <1>2. ASSUME NEW k \in Nat, k \in S PROVE k + 1 \in S
    BY <1>2 DEF WalkTo
  <1>. HIDE DEF S
  <1>3. Nat \subseteq S
    BY <1>1, <1>2, AllNumbers
  <1>. QED BY <1>3 DEF S

\* Follow is where a walk is after MaxClusters turns.
FollowedBy(fat, start, lost, walk) ==
    /\ walk[0] = <<start>>
    /\ \A n \in Nat : walk[n + 1] = Onward(fat, walk[n], lost)
    /\ Follow(fat, start, lost) = walk[MaxClusters]

LEMMA FollowWalks ==
    ASSUME NEW fat, NEW start, NEW lost
    PROVE  \E walk : FollowedBy(fat, start, lost, walk)
  <1>. DEFINE G(n) == CHOOSE g : WalkTo(fat, start, lost, n, g)
              f == [n \in Nat |-> G(n)[n]]
              Walk == CHOOSE walk : walk = [i \in Nat |-> IF i = 0 THEN <<start>>
                                                ELSE Onward(fat, walk[i - 1], lost)]
  <1>1. \A n \in Nat : WalkTo(fat, start, lost, n, G(n))
    BY WalkExists
  <1>2. ASSUME NEW n \in Nat \ {0} PROVE f[n] = Onward(fat, f[n - 1], lost)
    <2>1. WalkTo(fat, start, lost, n - 1, G(n)) /\ WalkTo(fat, start, lost, n - 1, G(n - 1))
      BY <1>1 DEF WalkTo
    <2>2. G(n)[n - 1] = G(n - 1)[n - 1]
      <3>. HIDE DEF G
      <3>. QED BY <2>1, WalkOnce
    <2>3. G(n)[n] = Onward(fat, G(n)[n - 1], lost)
      <3>. HIDE DEF G
      <3>. QED BY <1>1 DEF WalkTo
    <2>. QED BY <2>2, <2>3
  <1>3. f[0] = <<start>>
    <2>. HIDE DEF G
    <2>. QED BY <1>1 DEF WalkTo
  <1>4. f = [i \in Nat |-> IF i = 0 THEN <<start>> ELSE Onward(fat, f[i - 1], lost)]
    <2>. HIDE DEF G
    <2>. QED BY <1>2, <1>3
  <1>. HIDE DEF f
  <1>5. Walk = [i \in Nat |-> IF i = 0 THEN <<start>> ELSE Onward(fat, Walk[i - 1], lost)]
    BY <1>4
  <1>6. Follow(fat, start, lost) = Walk[MaxClusters]
    BY DEF Follow
  <1>7. FollowedBy(fat, start, lost, Walk)
    <2>. HIDE DEF Walk
    <2>. QED BY <1>5, <1>6 DEF FollowedBy
  <1>. QED BY <1>7

\* Whatever the FAT says, a walk lists clusters of the volume, and none twice.
LEMMA FollowType ==
    ASSUME NEW fat, NEW start \in Cluster, NEW lost
    PROVE  /\ Follow(fat, start, lost) \in Seq(Cluster)
           /\ Len(Follow(fat, start, lost)) >= 1
           /\ Follow(fat, start, lost)[1] = start
           /\ \A a, b \in 1 .. Len(Follow(fat, start, lost)) :
                 Follow(fat, start, lost)[a] = Follow(fat, start, lost)[b] => a = b
  <1>0. PICK walk : FollowedBy(fat, start, lost, walk)
    BY FollowWalks
  <1>1. /\ walk[0] = <<start>>
        /\ \A n \in Nat : walk[n + 1] = Onward(fat, walk[n], lost)
        /\ Follow(fat, start, lost) = walk[MaxClusters]
    BY <1>0 DEF FollowedBy
  <1>. DEFINE Right(c) == /\ c \in Seq(Cluster) /\ Len(c) >= 1 /\ c[1] = start
                          /\ \A a, b \in 1 .. Len(c) : c[a] = c[b] => a = b
  <1>. DEFINE S == {n \in Nat : Right(walk[n])}
  <1>2. 0 \in S
    <2>. DEFINE c == <<start>>
    <2>1. c \in Seq(Cluster) /\ Len(c) = 1 /\ c[1] = start
      OBVIOUS
    <2>. HIDE DEF c
    <2>2. Right(c)
      BY <2>1
    <2>3. Right(walk[0])
      BY <1>1, <2>2 DEF c
    <2>. QED BY <2>3
  <1>3. ASSUME NEW n \in Nat, n \in S PROVE n + 1 \in S
    <2>. DEFINE c == walk[n]
                next == fat[c[Len(c)]]
    <2>1. Right(c)
      BY <1>3
    <2>2. walk[n + 1] = c \/ /\ next \in Cluster /\ walk[n + 1] = Append(c, next)
                             /\ \A j \in DOMAIN c : c[j] # next
      BY <1>1 DEF Onward
    <2>. HIDE DEF c, next
    <2>3. CASE /\ next \in Cluster /\ walk[n + 1] = Append(c, next)
               /\ \A j \in DOMAIN c : c[j] # next
      <3>. DEFINE d == Append(c, next)
      <3>1. /\ d \in Seq(Cluster) /\ Len(d) = Len(c) + 1 /\ Len(c) \in Nat
            /\ \A j \in 1 .. Len(c) : d[j] = c[j]
            /\ d[Len(c) + 1] = next
        BY <2>1, <2>3
      <3>2. \A j \in 1 .. Len(c) : c[j] # next
        BY <2>1, <2>3
      <3>. HIDE DEF d
      <3>3. ASSUME NEW a \in 1 .. Len(d), NEW b \in 1 .. Len(d), d[a] = d[b] PROVE a = b
        <4>1. a \in 1 .. Len(c) \/ a = Len(c) + 1
          BY <3>1
        <4>2. b \in 1 .. Len(c) \/ b = Len(c) + 1
          BY <3>1
        <4>3. CASE a \in 1 .. Len(c) /\ b \in 1 .. Len(c)
          BY <2>1, <3>1, <3>3, <4>3
        <4>4. CASE a \in 1 .. Len(c) /\ b = Len(c) + 1
          BY <3>1, <3>2, <3>3, <4>4
        <4>5. CASE b \in 1 .. Len(c) /\ a = Len(c) + 1
          BY <3>1, <3>2, <3>3, <4>5
        <4>. QED BY <4>1, <4>2, <4>3, <4>4, <4>5
      <3>4. Right(d)
        BY <2>1, <3>1, <3>3
      <3>. HIDE DEF Right
      <3>5. Right(walk[n + 1])
        BY <2>3, <3>4 DEF d
      <3>. QED BY <3>5
    <2>. QED BY <2>1, <2>2, <2>3
  <1>4. MaxClusters \in S
    <2>. HIDE DEF S
    <2>1. Nat \subseteq S
      BY <1>2, <1>3, AllNumbers
    <2>. QED BY <2>1
  <1>. QED BY <1>1, <1>4

\* The part of a directory's chain that is followed from its k-th cluster on.
IsPart(c, dir, k, lost) ==
    /\ Len(c) \in 1 .. Len(dir) - k + 1
    /\ \A i \in 1 .. Len(c) : c[i] = dir[k + i - 1]
    /\ (Len(dir) <= MaxClusters /\ \A i \in k .. Len(dir) - 1 : dir[i] \notin lost)
          => Len(c) = Len(dir) - k + 1

LEMMA FollowIsPart ==
    ASSUME NEW fat, NEW dir \in Seq(Cluster), NEW lost, NEW k \in 1 .. Len(dir),
           \A a, b \in 1 .. Len(dir) : dir[a] = dir[b] => a = b,
           \A i \in k .. Len(dir) - 1 : fat[dir[i]] = dir[i + 1],
           fat[dir[Len(dir)]] \notin Cluster
    PROVE  IsPart(Follow(fat, dir[k], lost), dir, k, lost)
  <1>0. PICK walk : FollowedBy(fat, dir[k], lost, walk)
    BY FollowWalks
  <1>1. /\ walk[0] = <<dir[k]>>
        /\ \A n \in Nat : walk[n + 1] = Onward(fat, walk[n], lost)
        /\ Follow(fat, dir[k], lost) = walk[MaxClusters]
    BY <1>0 DEF FollowedBy
  <1>. DEFINE size == Len(dir) - k + 1
              allread == Len(dir) <= MaxClusters /\ \A i \in k .. Len(dir) - 1 : dir[i] \notin lost
              Right(n, c) == /\ c \in Seq(Cluster) /\ Len(c) \in 1 .. size
                             /\ \A i \in 1 .. Len(c) : c[i] = dir[k + i - 1]
                             /\ allread => Len(c) = size \/ Len(c) = n + 1
  <1>2. Len(dir) \in Nat /\ k \in Nat /\ size \in Nat /\ size >= 1 /\ k >= 1
    OBVIOUS
  <1>. DEFINE S == {n \in Nat : Right(n, walk[n])}
  <1>3. 0 \in S
    <2>1. dir[k] \in Cluster
      OBVIOUS
    <2>. DEFINE c == <<dir[k]>>
    <2>2. c \in Seq(Cluster) /\ Len(c) = 1 /\ c[1] = dir[k]
      BY <2>1
    <2>3. c[1] = dir[k + 1 - 1]
      BY <1>2, <2>2
    <2>. HIDE DEF c
    <2>4. Right(0, c)
      BY <1>2, <2>2, <2>3
    <2>. HIDE DEF Right
    <2>. QED BY <1>1, <2>4 DEF c
  <1>4. ASSUME NEW n \in Nat, n \in S PROVE n + 1 \in S
    <2>. DEFINE c == walk[n]
                l == Len(c)
                next == fat[c[l]]
    <2>1. Right(n, c)
      BY <1>4
    <2>2. walk[n + 1] = Onward(fat, c, lost)
      BY <1>1
    <2>. HIDE DEF c
    <2>3. l \in 1 .. size /\ c[l] = dir[k + l - 1] /\ k + l - 1 \in k .. Len(dir)
      <3>1. l \in 1 .. size /\ c[l] = dir[k + l - 1]
        BY <2>1
      <3>. QED BY <1>2, <3>1
    <2>4. CASE l = size
      <3>1. k + l - 1 = Len(dir)
        BY <1>2, <2>4
      <3>2. next \notin Cluster
        BY <2>3, <3>1
      <3>3. walk[n + 1] = c
        BY <2>2, <3>2 DEF Onward
      <3>4. Right(n + 1, c)
        BY <2>1, <2>4
      <3>. HIDE DEF Right
      <3>. QED BY <3>3, <3>4 DEF c
    <2>5. CASE l # size
      <3>1. k + l - 1 \in k .. Len(dir) - 1 /\ k + l \in 1 .. Len(dir) /\ (k + l - 1) + 1 = k + l
        <4>1. l \in 1 .. size /\ l # size
          BY <2>3, <2>5
        <4>. HIDE DEF l
        <4>. QED BY <1>2, <4>1
      <3>2. next = dir[k + l] /\ next \in Cluster
        BY <2>3, <3>1
      <3>3. ASSUME NEW j \in DOMAIN c PROVE c[j] # next
        <4>1. j \in 1 .. l /\ c[j] = dir[k + j - 1] /\ k + j - 1 \in 1 .. Len(dir)
              /\ k + j - 1 # k + l
          <5>1. j \in 1 .. l /\ c[j] = dir[k + j - 1]
            <6>1. c \in Seq(Cluster) /\ l = Len(c) /\ \A i \in 1 .. Len(c) : c[i] = dir[k + i - 1]
              BY <2>1, Zenon
            <6>. HIDE DEF c, l
            <6>. QED BY <6>1
          <5>2. k + l - 1 \in k .. Len(dir) - 1 /\ k \in 1 .. Len(dir) /\ l \in Nat /\ Len(dir) \in Nat
            BY <1>2, <2>1, <3>1
          <5>. HIDE DEF l
          <5>3. k + j - 1 \in 1 .. Len(dir) /\ k + j - 1 # k + l
            BY ONLY <5>1, <5>2
          <5>. QED BY <5>1, <5>3
        <4>. QED BY <3>1, <3>2, <4>1
      <3>4. \/ walk[n + 1] = c /\ ~allread
            \/ walk[n + 1] = Append(c, next)
        <4>1. CASE dir[k + l - 1] \in lost
          <5>1. ~allread
            BY <3>1, <4>1
          <5>2. walk[n + 1] = c
            BY <2>2, <2>3, <4>1 DEF Onward
          <5>. QED BY <5>1, <5>2
        <4>2. CASE dir[k + l - 1] \notin lost /\ l < MaxClusters
          <5>1. walk[n + 1] = Append(c, next)
            BY <2>2, <2>3, <3>2, <3>3, <4>2 DEF Onward
          <5>. QED BY <5>1
        <4>3. CASE ~(l < MaxClusters)
          <5>1. walk[n + 1] = c
            BY <2>2, <4>3 DEF Onward
          <5>2. ~allread
            BY <1>2, <2>3, <2>5, <4>3
          <5>. QED BY <5>1, <5>2
        <4>. QED BY <4>1, <4>2, <4>3
      <3>5. CASE walk[n + 1] = c /\ ~allread
        BY <2>1, <3>5
      <3>6. CASE walk[n + 1] = Append(c, next)
        <4>. DEFINE d == Append(c, next)
        <4>1. /\ d \in Seq(Cluster) /\ Len(d) = l + 1
              /\ \A j \in 1 .. l : d[j] = c[j]
              /\ d[l + 1] = next
          BY <2>1, <3>2
        <4>. HIDE DEF d
        <4>2. Len(d) \in 1 .. size
          BY <1>2, <2>3, <2>5, <4>1
        <4>3. ASSUME NEW j \in 1 .. Len(d) PROVE d[j] = dir[k + j - 1]
          <5>1. CASE j \in 1 .. l
            BY <2>1, <4>1, <5>1
          <5>2. CASE j = l + 1
            <6>1. k + j - 1 = k + l
              BY <1>2, <2>3, <5>2
            <6>. QED BY <3>2, <4>1, <5>2, <6>1
          <5>. QED BY <2>3, <4>1, <5>1, <5>2
        <4>4. allread => Len(d) = size \/ Len(d) = (n + 1) + 1
          BY <2>1, <2>5, <4>1
        <4>5. Right(n + 1, d)
          BY <4>1, <4>2, <4>3, <4>4
        <4>. HIDE DEF Right
        <4>6. Right(n + 1, walk[n + 1])
          BY <3>6, <4>5 DEF d
        <4>. QED BY <4>6
      <3>. QED BY <3>4, <3>5, <3>6
    <2>. QED BY <2>4, <2>5
  <1>5. Right(MaxClusters, Follow(fat, dir[k], lost))
    <2>. HIDE DEF S
    <2>1. Nat \subseteq S
      BY <1>3, <1>4, AllNumbers
    <2>2. MaxClusters \in S
      BY <2>1
    <2>. QED BY <1>1, <2>2 DEF S
  <1>. DEFINE c == Follow(fat, dir[k], lost)
  <1>. HIDE DEF c
  <1>6. Right(MaxClusters, c)
    BY <1>5 DEF c
  <1>7. allread => Len(c) = size
    <2>1. Len(dir) <= MaxClusters => ~(MaxClusters + 1 <= size)
      BY <1>2
    <2>. QED BY <1>6, <2>1
  <1>. QED BY <1>6, <1>7 DEF c, IsPart

---------------------------------------------------------------------------
(* What is read.                                                           *)

LEMMA RootRun ==
    ASSUME NEW first \in 0 .. RootSlots, NEW n \in 0 .. RootSlots - first
    PROVE  /\ SlotRun(first, n) \in Seq(Slot)
           /\ Len(SlotRun(first, n)) = n
           /\ \A i \in 1 .. n : SlotRun(first, n)[i] = first + i - 1
  <1>1. (LastCluster - 1) * PerCluster \in Nat
    OBVIOUS
  <1>2. \A i \in 1 .. n : first + i - 1 \in Slot
    BY <1>1 DEF Slot
  <1>. QED BY <1>2 DEF SlotRun

\* A directory has each of its slots at one place.
LEMMA DirFacts ==
    ASSUME NEW v \in Volumes
    PROVE  /\ DirSlots(v) \in Seq(Slot)
           /\ DirSlots(v) = [i \in 1 .. Len(DirSlots(v)) |-> DirSlots(v)[i]]
           /\ \A i, j \in 1 .. Len(DirSlots(v)) : DirSlots(v)[i] = DirSlots(v)[j] => i = j
           /\ v.dir = <<>> => /\ Len(DirSlots(v)) = RootSlots
                              /\ \A i \in 1 .. RootSlots : DirSlots(v)[i] = i - 1
           /\ v.dir # <<>> =>
                 /\ Len(DirSlots(v)) = Len(v.dir) * PerCluster
                 /\ \A i \in 1 .. Len(v.dir) * PerCluster : DirSlots(v)[i] = SlotAt(v.dir, i)
  <1>. DEFINE D == DirSlots(v)
  <1>1. CASE v.dir = <<>>
    <2>1. D = SlotRun(0, RootSlots)
      BY <1>1 DEF DirSlots
    <2>2. /\ D \in Seq(Slot) /\ Len(D) = RootSlots
          /\ \A i \in 1 .. RootSlots : D[i] = i - 1
      <3>1. RootSlots \in 0 .. RootSlots - 0 /\ 0 \in 0 .. RootSlots
        OBVIOUS
      <3>2. \A i \in 1 .. RootSlots : 0 + i - 1 = i - 1
        OBVIOUS
      <3>. HIDE DEF D
      <3>. QED BY <2>1, <3>1, <3>2, RootRun
    <2>. HIDE DEF D
    <2>3. \A i, j \in 1 .. Len(D) : D[i] = D[j] => i = j
      BY <2>2
    <2>4. D = [i \in 1 .. Len(D) |-> D[i]]
      BY <2>2
    <2>. QED BY <1>1, <2>2, <2>3, <2>4 DEF D
  <1>2. CASE v.dir # <<>>
    <2>. DEFINE row == v.dir
                n == Len(row) * PerCluster
    <2>1. row \in Seq(Cluster) /\ \A a, b \in 1 .. Len(row) : row[a] = row[b] => a = b
      BY VolumesAssumption
    <2>2. D = [i \in 1 .. n |-> SlotAt(row, i)]
      BY <1>2 DEF DirSlots
    <2>. HIDE DEF D, row
    <2>3. Len(row) \in Nat /\ n \in Nat
      BY <2>1
    <2>4. ASSUME NEW i \in 1 .. n PROVE SlotAt(row, i) \in Slot
      <3>1. PICK k \in 1 .. Len(row), r \in 0 .. PerCluster - 1 : PlacedAt(row, i, k, r)
        BY <2>1, RowFacts
      <3>. QED BY <3>1, SlotFacts DEF PlacedAt
    <2>5. \A i, j \in 1 .. n : SlotAt(row, i) = SlotAt(row, j) => i = j
      BY <2>1, RowOnce
    <2>. HIDE DEF n
    <2>6. D \in Seq(Slot) /\ Len(D) = n /\ \A i \in 1 .. n : D[i] = SlotAt(row, i)
      BY <2>2, <2>3, <2>4
    <2>7. D = [i \in 1 .. Len(D) |-> D[i]]
      BY <2>6
    <2>. QED BY <1>2, <2>5, <2>6, <2>7 DEF D, row, n
  <1>. QED BY <1>1, <1>2

\* From the p-th record on, the chain is followed from the cluster it is in.
RunsAt(v, lost, p, j, r) ==
    LET c == Follow(v.fat, v.dir[j], lost)
    IN  /\ PlacedAt(v.dir, p, j, r)
        /\ RunsFrom(v.fat, DirSlots(v)[p], lost)
              = [i \in 1 .. Len(c) * PerCluster - r |-> SlotAt(c, i + r)]

LEMMA RunsFollow ==
    ASSUME NEW v \in Volumes, v.dir # <<>>, NEW lost, NEW p \in 1 .. Len(DirSlots(v))
    PROVE  \E j \in 1 .. Len(v.dir), r \in 0 .. PerCluster - 1 : RunsAt(v, lost, p, j, r)
  <1>. DEFINE D == DirSlots(v)
              row == v.dir
  <1>1. row \in Seq(Cluster)
    BY VolumesAssumption
  <1>2. Len(D) = Len(row) * PerCluster /\ \A i \in 1 .. Len(row) * PerCluster : D[i] = SlotAt(row, i)
    BY DirFacts
  <1>3. p \in 1 .. Len(row) * PerCluster
    BY <1>2
  <1>4. PICK j \in 1 .. Len(row), r \in 0 .. PerCluster - 1 : PlacedAt(row, p, j, r)
    <2>. HIDE DEF row
    <2>. QED BY <1>1, <1>3, RowFacts
  <1>. DEFINE first == FirstSlot(row[j])
  <1>5. row[j] \in Cluster /\ D[p] = first + r
    BY <1>2, <1>3, <1>4 DEF PlacedAt
  <1>6. ClusterOf(D[p]) = row[j] /\ first \in Nat /\ first >= RootSlots
    BY <1>5, SlotFacts
  <1>7. ~(D[p] < RootSlots) /\ D[p] - FirstSlot(ClusterOf(D[p])) = r
    <2>. HIDE DEF D, row
    <2>1. FirstSlot(ClusterOf(D[p])) = first
      BY <1>6
    <2>. HIDE DEF first
    <2>. QED BY <1>5, <1>6, <2>1
  <1>8. RunsAt(v, lost, p, j, r)
    BY <1>4, <1>6, <1>7 DEF RunsAt, RunsFrom
  <1>. QED BY <1>8

\* No slot is read twice.
Distinct(s) == s \in Seq(Slot) /\ \A i, j \in 1 .. Len(s) : s[i] = s[j] => i = j

LEMMA RunsDistinct ==
    ASSUME NEW v \in Volumes, NEW lost, NEW p \in 1 .. Len(DirSlots(v))
    PROVE  Distinct(RunsFrom(v.fat, DirSlots(v)[p], lost))
  <1>. DEFINE s == RunsFrom(v.fat, DirSlots(v)[p], lost)
  <1>1. CASE v.dir = <<>>
    <2>1. Len(DirSlots(v)) = RootSlots /\ DirSlots(v)[p] = p - 1 /\ p \in 1 .. RootSlots
      BY <1>1, DirFacts
    <2>2. s = SlotRun(p - 1, RootSlots - (p - 1))
      BY <2>1 DEF RunsFrom
    <2>. HIDE DEF s
    <2>3. p - 1 \in 0 .. RootSlots /\ RootSlots - (p - 1) \in 0 .. RootSlots - (p - 1)
      BY <2>1
    <2>4. /\ s \in Seq(Slot) /\ Len(s) = RootSlots - (p - 1)
          /\ \A i \in 1 .. RootSlots - (p - 1) : s[i] = (p - 1) + i - 1
      BY <2>2, <2>3, RootRun
    <2>. QED BY <2>1, <2>4 DEF Distinct, s
  <1>2. CASE v.dir # <<>>
    <2>1. PICK j \in 1 .. Len(v.dir), r \in 0 .. PerCluster - 1 : RunsAt(v, lost, p, j, r)
      BY <1>2, RunsFollow
    <2>. DEFINE c == Follow(v.fat, v.dir[j], lost)
                w == Len(c) * PerCluster - r
    <2>2. s = [i \in 1 .. w |-> SlotAt(c, i + r)]
      BY <2>1 DEF RunsAt
    <2>3. v.dir[j] \in Cluster
      BY <2>1 DEF RunsAt, PlacedAt
    <2>4. c \in Seq(Cluster) /\ Len(c) >= 1 /\ \A a, b \in 1 .. Len(c) : c[a] = c[b] => a = b
      BY <2>3, FollowType
    <2>. HIDE DEF c, s
    <2>5. Len(c) * PerCluster \in Nat /\ w \in Nat /\ \A i \in 1 .. w : i + r \in 1 .. Len(c) * PerCluster
      <3>. DEFINE a == Len(c) * PerCluster
      <3>1. (Len(c) - 1) * PerCluster >= 0 /\ (Len(c) - 1) * PerCluster = a - PerCluster /\ a \in Nat
        BY <2>4
      <3>. HIDE DEF a
      <3>. QED BY <3>1 DEF a
    <2>6. ASSUME NEW i \in 1 .. w PROVE SlotAt(c, i + r) \in Slot
      <3>1. i + r \in 1 .. Len(c) * PerCluster
        BY <2>5
      <3>2. PICK a \in 1 .. Len(c), t \in 0 .. PerCluster - 1 : PlacedAt(c, i + r, a, t)
        BY <2>4, <3>1, RowFacts
      <3>. QED BY <3>2, SlotFacts DEF PlacedAt
    <2>7. ASSUME NEW i \in 1 .. w, NEW h \in 1 .. w, SlotAt(c, i + r) = SlotAt(c, h + r)
          PROVE  i = h
      <3>1. i + r \in 1 .. Len(c) * PerCluster /\ h + r \in 1 .. Len(c) * PerCluster
        BY <2>5
      <3>2. i + r = h + r
        BY <2>4, <2>7, <3>1, RowOnce
      <3>. HIDE DEF w
      <3>. QED BY <2>5, <3>2
    <2>8. s \in [1 .. w -> Slot] /\ \A i \in 1 .. w : s[i] = SlotAt(c, i + r)
      BY <2>2, <2>6
    <2>. HIDE DEF w
    <2>9. s \in Seq(Slot) /\ Len(s) = w
      BY <2>5, <2>8
    <2>. QED BY <2>7, <2>8, <2>9 DEF Distinct, s
  <1>. QED BY <1>1, <1>2

\* What lies from the p-th record of a directory on, as far as it could be followed.
IsSlice(s, D, p) ==
    /\ s \in Seq(Slot) /\ Len(s) \in 1 .. Len(D) - p + 1
    /\ \A i \in 1 .. Len(s) : s[i] = D[p + i - 1]

LEMMA RunsAreSlice ==
    ASSUME NEW v \in Volumes, v.chained \/ Len(v.dir) <= 1,
           v.dir # <<>> => v.fat[v.dir[Len(v.dir)]] \notin Cluster,
           NEW lost, NEW p \in 1 .. Len(DirSlots(v))
    PROVE  LET D == DirSlots(v)
               s == RunsFrom(v.fat, D[p], lost)
           IN  /\ IsSlice(s, D, p)
               /\ (Len(v.dir) <= MaxClusters /\ \A i \in 1 .. Len(v.dir) - 1 : v.dir[i] \notin lost)
                     => Len(s) = Len(D) - p + 1
  <1>. DEFINE D == DirSlots(v)
              s == RunsFrom(v.fat, D[p], lost)
              row == v.dir
              n == Len(row)
              whole == n <= MaxClusters /\ \A i \in 1 .. n - 1 : row[i] \notin lost
  <1>1. CASE row = <<>>
    <2>1. Len(D) = RootSlots /\ D[p] = p - 1 /\ \A i \in 1 .. RootSlots : D[i] = i - 1
      BY <1>1, DirFacts
    <2>2. s = SlotRun(p - 1, RootSlots - (p - 1))
      BY <2>1 DEF RunsFrom
    <2>3. p \in 1 .. RootSlots
      BY <2>1
    <2>. HIDE DEF D, s
    <2>4. p - 1 \in 0 .. RootSlots /\ RootSlots - (p - 1) \in 0 .. RootSlots - (p - 1)
      BY <2>3
    <2>5. /\ s \in Seq(Slot) /\ Len(s) = RootSlots - (p - 1)
          /\ \A i \in 1 .. RootSlots - (p - 1) : s[i] = (p - 1) + i - 1
      BY <2>2, <2>4, RootRun
    <2>6. Len(s) = Len(D) - p + 1 /\ Len(s) \in 1 .. Len(D) - p + 1
      BY <2>1, <2>3, <2>5
    <2>7. ASSUME NEW i \in 1 .. Len(s) PROVE s[i] = D[p + i - 1]
      <3>1. p + i - 1 \in 1 .. RootSlots
        BY <2>3, <2>5
      <3>2. D[p + i - 1] = (p + i - 1) - 1
        BY <2>1, <3>1
      <3>. QED BY <2>3, <2>5, <3>2
    <2>. QED BY <2>5, <2>6, <2>7 DEF IsSlice, D, s
  <1>2. CASE row # <<>>
    <2>1. row \in Seq(Cluster) /\ (\A a, b \in 1 .. n : row[a] = row[b] => a = b)
          /\ (v.chained => \A i \in 1 .. n - 1 : v.fat[row[i]] = row[i + 1])
      BY VolumesAssumption
    <2>2. Len(D) = n * PerCluster /\ \A i \in 1 .. n * PerCluster : D[i] = SlotAt(row, i)
      BY <1>2, DirFacts
    <2>3. v.fat[row[n]] \notin Cluster /\ (v.chained \/ n <= 1)
      BY <1>2
    <2>. HIDE DEF D, row
    <2>4. n \in Nat /\ n * PerCluster \in Nat
      BY <2>1
    <2>5a. PICK j \in 1 .. n, r \in 0 .. PerCluster - 1 : RunsAt(v, lost, p, j, r)
      BY <1>2, RunsFollow DEF row
    <2>5. /\ p = (j - 1) * PerCluster + r + 1 /\ row[j] \in Cluster
          /\ p \in 1 .. n * PerCluster
      BY <2>2, <2>5a DEF RunsAt, PlacedAt, D, row
    <2>. DEFINE c == Follow(v.fat, row[j], lost)
                m == Len(c)
    <2>7. /\ m \in 1 .. n - j + 1
          /\ \A i \in 1 .. m : c[i] = row[j + i - 1]
          /\ (n <= MaxClusters /\ \A i \in j .. n - 1 : row[i] \notin lost) => m = n - j + 1
      <3>1. \A i \in j .. n - 1 : v.fat[row[i]] = row[i + 1]
        BY <2>1, <2>3, <2>4
      <3>2. j \in 1 .. Len(row) /\ v.fat[row[Len(row)]] \notin Cluster
        BY <2>3
      <3>3. IsPart(c, row, j, lost)
        BY <2>1, <3>1, <3>2, FollowIsPart
      <3>. HIDE DEF c
      <3>. QED BY <3>3 DEF IsPart
    <2>8. c \in Seq(Cluster)
      BY <2>5, FollowType
    <2>9. s = [i \in 1 .. m * PerCluster - r |-> SlotAt(c, i + r)]
      BY <2>5a DEF RunsAt, D, row
    <2>. HIDE DEF s, c
    <2>10. m \in Nat /\ m * PerCluster \in Nat /\ m >= 1
      BY <2>7
    <2>11. (j - 1) * PerCluster \in Nat /\ Len(D) - p + 1 = n * PerCluster - ((j - 1) * PerCluster + r)
      <3>. DEFINE a == (j - 1) * PerCluster
                  b == n * PerCluster
      <3>1. a \in Nat /\ b \in Nat /\ p = a + r + 1 /\ Len(D) = b
        BY <2>2, <2>4, <2>5
      <3>. HIDE DEF a, b
      <3>2. Len(D) - p + 1 = b - (a + r)
        BY <3>1
      <3>. QED BY <3>1, <3>2 DEF a, b
    <2>12. m * PerCluster - r \in 1 .. Len(D) - p + 1
           /\ (m = n - j + 1 => m * PerCluster - r = Len(D) - p + 1)
      <3>1. (n - j + 1 - m) * PerCluster >= 0
        BY <2>4, <2>7
      <3>2. (n - j + 1 - m) * PerCluster = n * PerCluster - (j - 1) * PerCluster - m * PerCluster
        BY <2>4, <2>7
      <3>3. (m - 1) * PerCluster >= 0 /\ (m - 1) * PerCluster = m * PerCluster - PerCluster
        BY <2>10
      <3>4. m = n - j + 1 => (n - j + 1 - m) * PerCluster = 0
        BY <2>4, <2>7
      <3>. HIDE DEF m, n
      <3>. QED BY <2>4, <2>10, <2>11, <3>1, <3>2, <3>3, <3>4
    <2>13. ASSUME NEW i \in 1 .. m * PerCluster - r
           PROVE  SlotAt(c, i + r) = D[p + i - 1] /\ SlotAt(c, i + r) \in Slot
      <3>1. i + r \in 1 .. m * PerCluster
        BY <2>10
      <3>2a. PICK a \in 1 .. m, t \in 0 .. PerCluster - 1 : PlacedAt(c, i + r, a, t)
        BY <2>8, <3>1, RowFacts
      <3>2. /\ i + r = (a - 1) * PerCluster + t + 1 /\ c[a] \in Cluster
            /\ SlotAt(c, i + r) = FirstSlot(c[a]) + t
        BY <3>2a DEF PlacedAt
      <3>3. c[a] = row[j + a - 1] /\ j + a - 1 \in 1 .. n
        <4>1. c[a] = row[j + a - 1]
          BY <2>7
        <4>2. n \in Nat /\ j \in 1 .. n /\ m \in 1 .. n - j + 1 /\ a \in 1 .. m
          BY <2>4, <2>7
        <4>. HIDE DEF m, n
        <4>3. j + a - 1 \in 1 .. n
          BY ONLY <4>2
        <4>. QED BY <4>1, <4>3
      <3>4a. PICK h \in 1 .. n * PerCluster : PlacedAt(row, h, j + a - 1, t)
        BY <2>1, <3>3, RowHas
      <3>4. /\ h = ((j + a - 1) - 1) * PerCluster + t + 1
            /\ SlotAt(row, h) = FirstSlot(row[j + a - 1]) + t
        BY <3>4a DEF PlacedAt
      <3>5. h = p + i - 1
        <4>1. ((j + a - 1) - 1) * PerCluster = (j - 1) * PerCluster + (a - 1) * PerCluster
          OBVIOUS
        <4>2. (a - 1) * PerCluster \in Nat
          OBVIOUS
        <4>. QED BY <2>5, <2>11, <3>2, <3>4, <4>1, <4>2
      <3>6. FirstSlot(c[a]) + t \in Slot
        BY <3>2, SlotFacts
      <3>. QED BY <2>2, <3>2, <3>3, <3>4, <3>5, <3>6
    <2>. DEFINE w == m * PerCluster - r
    <2>14. w \in Nat
      BY <2>12
    <2>. HIDE DEF m
    <2>15. s \in Seq(Slot) /\ Len(s) = w /\ \A i \in 1 .. w : s[i] = D[p + i - 1]
      <3>1. s = [i \in 1 .. w |-> SlotAt(c, i + r)]
        BY <2>9
      <3>2. \A i \in 1 .. w : SlotAt(c, i + r) = D[p + i - 1] /\ SlotAt(c, i + r) \in Slot
        BY <2>13
      <3>. DEFINE e == [i \in 1 .. w |-> SlotAt(c, i + r)]
      <3>. HIDE DEF w
      <3>4. e \in Seq(Slot) /\ Len(e) = w /\ \A i \in 1 .. w : e[i] = D[p + i - 1]
        <4>3. e \in [1 .. w -> Slot]
          BY <3>2
        <4>4. \A i \in 1 .. w : e[i] = D[p + i - 1]
          BY <3>2
        <4>. HIDE DEF e
        <4>5. e \in Seq(Slot) /\ Len(e) = w
          BY <2>14, <4>3
        <4>. QED BY <4>4, <4>5
      <3>. HIDE DEF e
      <3>5. s = e
        BY <3>1 DEF e
      <3>. QED BY <3>4, <3>5
    <2>16. IsSlice(s, D, p)
      BY <2>12, <2>15 DEF IsSlice
    <2>17. whole => Len(s) = Len(D) - p + 1
      <3>1. whole => \A i \in j .. n - 1 : row[i] \notin lost
        OBVIOUS
      <3>. QED BY <2>7, <2>12, <2>15, <3>1
    <2>. QED BY <2>16, <2>17 DEF s, D, row
  <1>. QED BY <1>1, <1>2

\* A plan begins at a record of the directory, and the chain it follows from there is
\* the directory's.
LEMMA ShownInside ==
    ASSUME volume \in Volumes, NEW lost, NEW from \in Shown(lost)
    PROVE  /\ \E p \in 1 .. Len(DirSlots(volume)) : DirSlots(volume)[p] = from
           /\ volume.chained \/ Len(volume.dir) <= 1
  <1>. DEFINE D == DirSlots(volume)
              row == volume.dir
  <1>1. CASE row = <<>>
    <2>1. Len(D) = RootSlots /\ \A i \in 1 .. RootSlots : D[i] = i - 1
      BY <1>1, DirFacts
    <2>2. RootSlots > 0
      BY <1>1, VolumesAssumption
    <2>3. from = 0
      BY <1>1 DEF Shown
    <2>4. 1 \in 1 .. Len(D) /\ D[1] = 0
      BY <2>1, <2>2
    <2>5. Len(row) = 0
      BY <1>1
    <2>. QED BY <2>3, <2>4, <2>5
  <1>2. CASE row # <<>>
    <2>1. row \in Seq(Cluster) /\ Len(row) >= 1
      BY <1>2, VolumesAssumption
    <2>2. ASSUME NEW k \in 1 .. Len(row), from = FirstSlot(row[k])
          PROVE  \E p \in 1 .. Len(D) : D[p] = from
      <3>1. 0 \in 0 .. PerCluster - 1
        OBVIOUS
      <3>2. PICK i \in 1 .. Len(row) * PerCluster : PlacedAt(row, i, k, 0)
        <4>. HIDE DEF row
        <4>. QED BY <2>1, <3>1, RowHas
      <3>3. SlotAt(row, i) = FirstSlot(row[k]) + 0 /\ row[k] \in Cluster
        BY <3>2 DEF PlacedAt
      <3>4. FirstSlot(row[k]) \in Nat
        BY <3>1, <3>3, SlotFacts
      <3>5. SlotAt(row, i) = from
        <4>. HIDE DEF row
        <4>. QED BY <2>2, <3>3, <3>4
      <3>. QED BY <1>2, <3>5, DirFacts
    <2>3. CASE volume.format = "fat"
      <3>1. volume.chained
        BY <2>3, VolumesAssumption
      <3>2. PICK k \in DOMAIN row : from = FirstSlot(row[k])
        BY <1>2, <2>3 DEF Shown
      <3>3. k \in 1 .. Len(row)
        BY <2>1, <3>2
      <3>. QED BY <2>2, <3>1, <3>2, <3>3
    <2>4. CASE volume.format # "fat"
      <3>. DEFINE extent == IF volume.chained THEN Follow(volume.fat, row[1], lost) ELSE row
      <3>1. from = FirstSlot(extent[1]) /\ Len(extent) = 1
        <4>1. Shown(lost) = IF Len(extent) = 1 THEN {FirstSlot(extent[1])} ELSE {}
          BY <1>2, <2>4 DEF Shown
        <4>. HIDE DEF extent
        <4>. QED BY <4>1
      <3>2. extent[1] = row[1]
        <4>1. row[1] \in Cluster
          BY <2>1
        <4>2. CASE volume.chained
          <5>1. extent = Follow(volume.fat, row[1], lost)
            BY <4>2
          <5>. DEFINE first == row[1]
          <5>2. first \in Cluster
            BY <4>1
          <5>. HIDE DEF extent, row, first
          <5>3. Follow(volume.fat, first, lost)[1] = first
            BY ONLY <5>2, FollowType
          <5>. QED BY <5>1, <5>3 DEF first
        <4>3. CASE ~volume.chained
          BY <4>3
        <4>. HIDE DEF extent, row
        <4>. QED BY <4>2, <4>3
      <3>3. volume.chained \/ Len(row) <= 1
        <4>1. CASE ~volume.chained
          <5>1. extent = row
            BY <4>1
          <5>. HIDE DEF extent
          <5>. QED BY <2>1, <3>1, <5>1
        <4>. QED BY <4>1
      <3>4. 1 \in 1 .. Len(row)
        BY <2>1
      <3>. QED BY <2>2, <3>1, <3>2, <3>3, <3>4
    <2>. QED BY <2>3, <2>4
  <1>. QED BY <1>1, <1>2

\* What SlotsRead gives: no slot twice; without a stale link, slots of the directory;
\* when all of the directory can be read, all of them from `from` on.
IsReading(slots, from, lost, p) ==
    LET D == DirSlots(volume)
    IN  /\ Distinct(slots) /\ D[p] = from
        /\ NoStaleLink => \A i \in 1 .. Len(slots) : \E h \in 1 .. Len(D) : slots[i] = D[h]
        /\ Complete(lost) => /\ Len(slots) = Len(D) - p + 1
                             /\ \A i \in 1 .. Len(slots) : slots[i] = D[p + i - 1]

LEMMA OnlyDistinct ==
    ASSUME NEW s, Distinct(s), NEW P \in SUBSET (1 .. Len(s))
    PROVE  /\ Distinct(Only(s, P))
           /\ \A k \in 1 .. Len(Only(s, P)) : \E i \in 1 .. Len(s) : Only(s, P)[k] = s[i]
  <1>. DEFINE n == Cardinality(P)
              o == Only(s, P)
  <1>1. s \in Seq(Slot) /\ Len(s) \in Nat /\ \A i, j \in 1 .. Len(s) : s[i] = s[j] => i = j
    BY DEF Distinct
  <1>2. n \in Nat
    BY <1>1, RankFacts
  <1>3. \A k \in 1 .. n : Nth(P, k) \in P /\ Rank(P, Nth(P, k)) = k /\ o[k] = s[Nth(P, k)]
    BY <1>1, NthFacts DEF Only
  <1>4. o = [k \in 1 .. n |-> o[k]]
    BY <1>3 DEF Only
  <1>5. \A k \in 1 .. n : Nth(P, k) \in 1 .. Len(s)
    BY <1>3
  <1>. HIDE DEF o, n
  <1>6. \A k \in 1 .. n : o[k] \in Slot
    BY <1>1, <1>3, <1>5
  <1>7. o \in Seq(Slot) /\ Len(o) = n
    BY <1>2, <1>4, <1>6
  <1>8. ASSUME NEW k \in 1 .. n, NEW l \in 1 .. n, o[k] = o[l] PROVE k = l
    <2>1. Nth(P, k) = Nth(P, l)
      BY <1>1, <1>3, <1>5, <1>8
    <2>. QED BY <1>3, <2>1
  <1>. QED BY <1>3, <1>5, <1>7, <1>8 DEF Distinct, o

LEMMA Reading ==
    ASSUME volume \in Volumes, NEW lost, NEW from \in Shown(lost)
    PROVE  \E p \in 1 .. Len(DirSlots(volume)) :
               IsReading(SlotsRead(volume.fat, from, lost), from, lost, p)
  <1>. DEFINE D == DirSlots(volume)
              runs == RunsFrom(volume.fat, from, lost)
              P == {i \in DOMAIN runs : i <= MaxRecords \/ BeginsRun(runs, i)}
              slots == SlotsRead(volume.fat, from, lost)
  <1>1. PICK p \in 1 .. Len(D) : D[p] = from
    BY ShownInside
  <1>2. Distinct(runs)
    BY <1>1, RunsDistinct
  <1>3. slots = Only(runs, P)
    BY DEF SlotsRead
  <1>4. runs \in Seq(Slot)
    BY <1>2 DEF Distinct
  <1>5. P \in SUBSET (1 .. Len(runs))
    BY <1>4
  <1>6. Distinct(slots) /\ \A k \in 1 .. Len(slots) : \E i \in 1 .. Len(runs) : slots[k] = runs[i]
    <2>. HIDE DEF P, runs, slots
    <2>. QED BY <1>2, <1>3, <1>5, OnlyDistinct
  <1>7. D \in Seq(Slot) /\ Len(D) \in Nat
    BY DirFacts
  <1>8. ASSUME NoStaleLink
        PROVE  /\ IsSlice(runs, D, p)
               /\ (Len(volume.dir) <= MaxClusters
                     /\ \A i \in 1 .. Len(volume.dir) - 1 : volume.dir[i] \notin lost)
                   => Len(runs) = Len(D) - p + 1
    <2>1. volume.chained \/ Len(volume.dir) <= 1
      BY ShownInside
    <2>. QED BY <1>1, <1>8, <2>1, RunsAreSlice DEF NoStaleLink
  <1>9. ASSUME NoStaleLink, NEW k \in 1 .. Len(slots)
        PROVE  \E h \in 1 .. Len(D) : slots[k] = D[h]
    <2>1. PICK i \in 1 .. Len(runs) : slots[k] = runs[i]
      BY <1>6, <1>9
    <2>2. runs[i] = D[p + i - 1] /\ p + i - 1 \in 1 .. Len(D)
      <3>1. Len(runs) \in 1 .. Len(D) - p + 1 /\ runs[i] = D[p + i - 1]
        BY <1>8, <1>9 DEF IsSlice
      <3>. HIDE DEF D, runs
      <3>. QED BY <1>7, <3>1
    <2>. QED BY <2>1, <2>2
  <1>10. ASSUME Complete(lost)
         PROVE  Len(slots) = Len(D) - p + 1 /\ \A i \in 1 .. Len(slots) : slots[i] = D[p + i - 1]
    <2>1. NoStaleLink /\ Len(D) <= MaxRecords /\ Len(volume.dir) <= MaxClusters
          /\ \A i \in 1 .. Len(volume.dir) - 1 : volume.dir[i] \notin lost
      BY <1>10 DEF Complete
    <2>2. IsSlice(runs, D, p) /\ Len(runs) = Len(D) - p + 1
      BY <1>8, <2>1
    <2>. DEFINE n == Len(runs)
    <2>3. n \in Nat /\ n <= MaxRecords /\ DOMAIN runs = 1 .. n
      <3>. HIDE DEF runs, D
      <3>. QED BY <1>4, <1>7, <2>1, <2>2
    <2>4. P = 1 .. n
      <3>. HIDE DEF runs
      <3>. QED BY <2>3
    <2>5. runs = [i \in 1 .. n |-> runs[i]]
      <3>. HIDE DEF runs
      <3>. QED BY <1>4
    <2>6. Only(runs, 1 .. n) = runs
      <3>. HIDE DEF runs, n
      <3>. QED BY <2>3, <2>5, OnlyAll
    <2>7. slots = runs
      BY <1>3, <2>4, <2>6
    <2>. QED BY <2>2, <2>7 DEF IsSlice
  <1>11. IsReading(slots, from, lost, p)
    BY <1>1, <1>6, <1>9, <1>10 DEF IsReading
  <1>. QED BY <1>11

---------------------------------------------------------------------------
(* What an edit does to the slots that were read.                          *)

\* The edits that turn `old` into `new` at `slots`.
EditsOf(e, slots, old, new) ==
    /\ \A s \in DOMAIN e : \E i \in 1 .. Len(slots) : s = slots[i]
    /\ \A i \in 1 .. Len(slots) : slots[i] \in DOMAIN e <=> old[i] # new[i]
    /\ \A i \in 1 .. Len(slots) :
          slots[i] \in DOMAIN e => e[slots[i]] = [old |-> old[i], new |-> new[i]]

LEMMA ChangedFacts ==
    ASSUME NEW slots, Distinct(slots), NEW old, NEW new
    PROVE  EditsOf(Changed(slots, old, new), slots, old, new)
  <1>. DEFINE At(s) == CHOOSE i \in DOMAIN slots : slots[i] = s
              changed == {slots[i] : i \in {i \in DOMAIN slots : old[i] # new[i]}}
              e == [s \in changed |-> [old |-> old[At(s)], new |-> new[At(s)]]]
  <1>1. Changed(slots, old, new) = e
    BY DEF Changed
  <1>2. DOMAIN slots = 1 .. Len(slots) /\ \A i, j \in 1 .. Len(slots) : slots[i] = slots[j] => i = j
    BY DEF Distinct
  <1>3. \A i \in 1 .. Len(slots) : At(slots[i]) = i
    BY <1>2
  <1>4. DOMAIN e = changed
    OBVIOUS
  <1>5. \A s \in changed : \E i \in 1 .. Len(slots) : s = slots[i]
    BY <1>2
  <1>6. \A i \in 1 .. Len(slots) : slots[i] \in changed <=> old[i] # new[i]
    BY <1>2
  <1>7. \A i \in 1 .. Len(slots) :
           slots[i] \in changed => e[slots[i]] = [old |-> old[i], new |-> new[i]]
    <2>. HIDE DEF changed, At
    <2>. QED BY <1>3
  <1>. HIDE DEF changed, e
  <1>. QED BY <1>1, <1>4, <1>5, <1>6, <1>7 DEF EditsOf

\* The image with the edits and nothing else.
Patched(image, edits) ==
    [s \in Slot |-> IF s \in DOMAIN edits THEN edits[s].new ELSE image[s]]

LEMMA PatchedFacts ==
    ASSUME NEW image \in [Slot -> Record], NEW slots, Distinct(slots), NEW new, NEW e,
           EditsOf(e, slots, Contents(slots, image), new)
    PROVE  /\ \A i \in 1 .. Len(slots) : Patched(image, e)[slots[i]] = new[i]
           /\ \A s \in Slot : (\A i \in 1 .. Len(slots) : slots[i] # s)
                                 => Patched(image, e)[s] = image[s]
  <1>1. DOMAIN slots = 1 .. Len(slots) /\ \A i \in 1 .. Len(slots) : slots[i] \in Slot
    BY DEF Distinct
  <1>2. \A s \in Slot : Patched(image, e)[s] = IF s \in DOMAIN e THEN e[s].new ELSE image[s]
    BY DEF Patched
  <1>3. \A i \in 1 .. Len(slots) : Contents(slots, image)[i] = image[slots[i]]
    BY <1>1 DEF Contents
  <1>4. \A s \in Slot : (\A i \in 1 .. Len(slots) : slots[i] # s) => s \notin DOMAIN e
    BY DEF EditsOf
  <1>5. ASSUME NEW i \in 1 .. Len(slots) PROVE Patched(image, e)[slots[i]] = new[i]
    <2>1. CASE slots[i] \in DOMAIN e
      <3>1. e[slots[i]] = [old |-> Contents(slots, image)[i], new |-> new[i]]
        BY <2>1 DEF EditsOf
      <3>2. e[slots[i]].new = new[i]
        BY <3>1
      <3>. QED BY <1>1, <1>2, <2>1, <3>2
    <2>2. CASE slots[i] \notin DOMAIN e
      <3>1. Contents(slots, image)[i] = new[i]
        BY <2>2 DEF EditsOf
      <3>. QED BY <1>1, <1>2, <1>3, <2>2, <3>1
    <2>. QED BY <2>1, <2>2
  <1>. QED BY <1>2, <1>4, <1>5

---------------------------------------------------------------------------
(* The layouts.                                                            *)

LiveAt(records) == {i \in DOMAIN records : IsLive(records[i])}

\* A set of places that has one, has a last one.
LEMMA GreatestNumber ==
    ASSUME NEW n \in Nat, NEW P \in SUBSET (0 .. n), P # {}
    PROVE  \E m \in P : \A i \in P : i <= m
  <1>. DEFINE S == {m \in Nat : \A i \in P : i <= m}
  <1>1. \A i \in P : i \in Nat /\ i <= n
    OBVIOUS
  <1>2. n \in S
    BY <1>1
  <1>3. PICK m \in S : \A k \in S : m <= k
    BY <1>2, LeastNumber
  <1>4. m \in P
    <2>. SUFFICES ASSUME m \notin P PROVE FALSE
      OBVIOUS
    <2>1. m \in Nat /\ \A i \in P : i <= m /\ i # m
      OBVIOUS
    <2>2. ASSUME NEW i \in P PROVE i <= m - 1
      <3>1. i \in Nat /\ m \in Nat /\ i <= m /\ i # m
        BY <1>1, <2>1
      <3>. HIDE DEF S
      <3>. QED BY <3>1
    <2>3. m - 1 \in Nat
      <3>1. PICK i \in P : TRUE
        OBVIOUS
      <3>2. i \in Nat /\ i <= m - 1 /\ m \in Nat
        BY <1>1, <2>1, <2>2
      <3>. HIDE DEF S
      <3>. QED BY <3>2
    <2>4. m - 1 \in S
      BY <2>2, <2>3
    <2>. QED BY <1>3, <2>1, <2>4
  <1>. QED BY <1>4

LEMMA LastLiveFacts ==
    ASSUME NEW n \in Nat, NEW records \in [1 .. n -> Record]
    PROVE  /\ LastLive(records) \in 0 .. n
           /\ \A i \in LiveAt(records) : i <= LastLive(records)
           /\ LastLive(records) # 0 => LastLive(records) \in LiveAt(records)
  <1>. DEFINE live == LiveAt(records)
  <1>1. LastLive(records) = IF live = {} THEN 0 ELSE CHOOSE i \in live : \A j \in live : j <= i
    BY DEF LastLive, LiveAt
  <1>2. live \in SUBSET (0 .. n) /\ live \in SUBSET (1 .. n)
    BY DEF LiveAt
  <1>. HIDE DEF live
  <1>3. CASE live = {}
    BY <1>1, <1>3 DEF live
  <1>4. CASE live # {}
    <2>1. \E m \in live : \A i \in live : i <= m
      BY <1>2, <1>4, GreatestNumber
    <2>2. LastLive(records) \in live /\ \A i \in live : i <= LastLive(records)
      BY <1>1, <1>4, <2>1
    <2>. QED BY <1>2, <2>2 DEF live
  <1>. QED BY <1>3, <1>4

LEMMA SweepFacts ==
    ASSUME NEW n \in Nat, NEW records \in [1 .. n -> Record]
    PROVE  /\ Sweep(records) \in [1 .. n -> Record]
           /\ \A i \in 1 .. n :
                 /\ IsLive(records[i]) => Sweep(records)[i] = records[i]
                 /\ ~IsLive(records[i]) => /\ ~IsLive(Sweep(records)[i])
                                           /\ Sweep(records)[i].holds = Nothing
                 /\ IsFree(records[i]) => IsFree(Sweep(records)[i])
           /\ \A i, j \in 1 .. n :
                 i <= j /\ IsLive(records[j]) /\ ~IsFree(records[i]) => ~IsFree(Sweep(records)[i])
  <1>. DEFINE last == LastLive(records)
              new(i) == IF i > last THEN Blank
                        ELSE CASE IsLive(records[i]) -> records[i]
                               [] records[i].mark = "deleted" -> Neutral(records[i])
                               [] OTHER -> Blank
  <1>1. last \in 0 .. n /\ \A i \in 1 .. n : IsLive(records[i]) => i <= last
    BY LastLiveFacts DEF LiveAt
  <1>. HIDE DEF last
  <1>2. Sweep(records) = [i \in 1 .. n |-> new(i)]
    BY DEF Sweep, last
  <1>3. \A i \in 1 .. n : records[i] \in Record
    OBVIOUS
  <1>4. Blank \in Record /\ IsFree(Blank) /\ ~IsLive(Blank) /\ Blank.holds = Nothing
    BY DEF Blank, Record, Holding, IsFree, IsLive
  <1>5. \A r \in Record : /\ Neutral(r) \in Record /\ Neutral(r).holds = Nothing
                          /\ r.mark = "deleted" => /\ ~IsLive(Neutral(r)) /\ ~IsFree(Neutral(r))
                                                   /\ ~IsFree(r) /\ ~IsLive(r)
                          /\ IsLive(r) => ~IsFree(r) /\ r.mark # "deleted"
                          /\ IsLive(r) \/ IsFree(r) \/ r.mark = "deleted"
    BY DEF Neutral, Record, Holding, IsFree, IsLive
  <1>6. ASSUME NEW i \in 1 .. n
        PROVE  \/ i <= last /\ IsLive(records[i]) /\ new(i) = records[i]
               \/ i <= last /\ records[i].mark = "deleted" /\ new(i) = Neutral(records[i])
               \/ i <= last /\ IsFree(records[i]) /\ new(i) = Blank
               \/ i > last /\ ~IsLive(records[i]) /\ new(i) = Blank
    <2>1. i \in Int /\ last \in Int
      BY <1>1
    <2>2. records[i] \in Record
      BY <1>3
    <2>3. CASE i > last
      BY <1>1, <2>1, <2>3
    <2>4. CASE ~(i > last) /\ IsLive(records[i])
      BY <2>1, <2>2, <2>4, <1>5
    <2>5. CASE ~(i > last) /\ records[i].mark = "deleted"
      BY <2>1, <2>2, <2>5, <1>5
    <2>6. CASE ~(i > last) /\ ~IsLive(records[i]) /\ records[i].mark # "deleted"
      <3>1. IsFree(records[i])
        BY <2>2, <2>6, <1>5
      <3>. QED BY <2>1, <2>6, <3>1
    <2>. QED BY <2>3, <2>4, <2>5, <2>6
  <1>. HIDE DEF new
  <1>7. \A i \in 1 .. n : Sweep(records)[i] = new(i)
    BY <1>2
  <1>8. \A i \in 1 .. n : new(i) \in Record
    BY <1>3, <1>4, <1>5, <1>6
  <1>9. Sweep(records) \in [1 .. n -> Record]
    BY <1>2, <1>8
  <1>10. \A i \in 1 .. n : /\ IsLive(records[i]) => new(i) = records[i]
                           /\ ~IsLive(records[i]) => ~IsLive(new(i)) /\ new(i).holds = Nothing
                           /\ IsFree(records[i]) => IsFree(new(i))
    BY <1>3, <1>4, <1>5, <1>6
  <1>11. ASSUME NEW i \in 1 .. n, NEW j \in 1 .. n,
                i <= j, IsLive(records[j]), ~IsFree(records[i])
         PROVE  ~IsFree(new(i))
    <2>1. i <= last /\ ~(i > last)
      BY <1>1, <1>11
    <2>. QED BY <1>3, <1>5, <1>6, <1>11, <2>1
  <1>. QED BY <1>7, <1>9, <1>10, <1>11

LEMMA CompactFacts ==
    ASSUME NEW n \in Nat, NEW records \in [1 .. n -> Record]
    PROVE  LET L == LiveAt(records) new == Compact(records)
           IN  /\ L \in SUBSET (1 .. n) /\ Cardinality(L) \in 0 .. n
               /\ new \in [1 .. n -> Record]
               /\ \A i \in L : Rank(L, i) \in 1 .. Cardinality(L) /\ new[Rank(L, i)] = records[i]
               /\ \A k \in 1 .. Cardinality(L) : /\ Nth(L, k) \in L /\ new[k] = records[Nth(L, k)]
                                                 /\ IsLive(new[k])
               /\ \A k \in 1 .. n : k > Cardinality(L) => new[k] = Blank
  <1>. DEFINE L == LiveAt(records)
              size == Cardinality(L)
              kept == Only(records, L)
              new == Compact(records)
  <1>1. L \in SUBSET (1 .. n) /\ \A i \in L : IsLive(records[i]) /\ records[i] \in Record
    BY DEF LiveAt
  <1>2. size \in Nat /\ size <= n
    <2>. HIDE DEF L
    <2>. QED BY <1>1, RankFacts
  <1>3. /\ \A i \in L : Rank(L, i) \in 1 .. size /\ kept[Rank(L, i)] = records[i]
        /\ \A k \in 1 .. size : Nth(L, k) \in L /\ kept[k] = records[Nth(L, k)]
    <2>. HIDE DEF L
    <2>1. ASSUME NEW i \in L
          PROVE  Rank(L, i) \in 1 .. Cardinality(L) /\ Only(records, L)[Rank(L, i)] = records[i]
      <3>1. Rank(L, i) \in 1 .. Cardinality(L)
        BY <1>1, RankFacts
      <3>2. Nth(L, Rank(L, i)) = i
        BY <1>1, NthFacts
      <3>. QED BY <3>1, <3>2 DEF Only
    <2>2. \A k \in 1 .. Cardinality(L) : Nth(L, k) \in L /\ Only(records, L)[k] = records[Nth(L, k)]
      <3>1. n \in Nat /\ L \in SUBSET (1 .. n)
        BY <1>1
      <3>. HIDE DEF L
      <3>. QED BY ONLY <3>1, OnlyFacts
    <2>. QED BY ONLY <2>1, <2>2 DEF kept, size
  <1>4. kept \in [1 .. size -> Record]
    <2>1. kept = [k \in 1 .. size |-> records[Nth(L, k)]]
      BY DEF Only
    <2>. HIDE DEF L
    <2>. QED BY <1>1, <1>3, <2>1
  <1>5. Len(kept) = size
    <2>. HIDE DEF kept, size
    <2>. QED BY <1>2, <1>4
  <1>6. new = [i \in 1 .. n |-> IF i <= size THEN kept[i] ELSE Blank]
    <2>1. new = [i \in DOMAIN records |-> IF i <= Len(kept) THEN kept[i] ELSE Blank]
      BY DEF Compact, LiveAt
    <2>. HIDE DEF kept, size, new
    <2>. QED BY <1>5, <2>1
  <1>7. Blank \in Record
    BY DEF Blank, Record, Holding
  <1>. HIDE DEF L, size, kept, new
  <1>8. \A k \in 1 .. n : k <= size => k \in 1 .. size
    BY <1>2
  <1>9. new \in [1 .. n -> Record]
    BY <1>4, <1>6, <1>7, <1>8
  <1>10. \A k \in 1 .. size : k \in 1 .. n /\ new[k] = kept[k]
    BY <1>2, <1>6
  <1>11. \A k \in 1 .. n : k > size => new[k] = Blank
    BY <1>2, <1>6
  <1>12. size \in 0 .. n BY <1>2
  <1>13. \A i \in L : new[Rank(L, i)] = records[i] BY <1>3, <1>10
  <1>14. \A k \in 1 .. size : new[k] = records[Nth(L, k)] /\ IsLive(new[k])
    BY <1>1, <1>3, <1>10
  <1>. QED BY <1>1, <1>3, <1>9, <1>11, <1>12, <1>13, <1>14, Zenon DEF L, size, new

---------------------------------------------------------------------------
(* The plans.                                                              *)

TypedEdits(e) ==
    /\ DOMAIN e \subseteq Slot
    /\ \A s \in DOMAIN e : e[s].old \in Record /\ e[s].new \in Record

\* Every record in use that a plan overwrites is written to another place by it.
Swaps(e) ==
    \A s \in DOMAIN e :
        IsLive(e[s].old) => \E t \in DOMAIN e : /\ IsLive(e[t].new)
                                                /\ e[t].new.holds = e[s].old.holds

LEMMA RecordsRead ==
    ASSUME NEW image \in [Slot -> Record], NEW slots, Distinct(slots)
    PROVE  /\ Len(slots) \in Nat
           /\ Contents(slots, image) \in [1 .. Len(slots) -> Record]
           /\ \A i \in 1 .. Len(slots) : slots[i] \in Slot /\ Contents(slots, image)[i] = image[slots[i]]
  <1>1. slots \in Seq(Slot) /\ DOMAIN slots = 1 .. Len(slots)
    BY DEF Distinct
  <1>2. \A i \in 1 .. Len(slots) : slots[i] \in Slot
    BY <1>1
  <1>3. Contents(slots, image) = [i \in 1 .. Len(slots) |-> image[slots[i]]]
    BY <1>1 DEF Contents
  <1>. QED BY <1>1, <1>2, <1>3

LEMMA LayoutFacts ==
    ASSUME NEW n \in Nat, NEW records \in [1 .. n -> Record], NEW mode
    PROVE  LayoutDirectory(records, mode) \in [1 .. n -> Record]
  <1>1. Sweep(records) \in [1 .. n -> Record]
    BY SweepFacts
  <1>2. Compact(records) \in [1 .. n -> Record]
    BY CompactFacts
  <1>. QED BY <1>1, <1>2 DEF LayoutDirectory

LEMMA EditsTyped ==
    ASSUME NEW slots, Distinct(slots), NEW e,
           NEW old \in [1 .. Len(slots) -> Record], NEW new \in [1 .. Len(slots) -> Record],
           EditsOf(e, slots, old, new)
    PROVE  TypedEdits(e)
  <1>1. slots \in Seq(Slot)
    BY DEF Distinct
  <1>2. ASSUME NEW s \in DOMAIN e PROVE s \in Slot /\ e[s].old \in Record /\ e[s].new \in Record
    <2>1. PICK i \in 1 .. Len(slots) : s = slots[i]
      BY DEF EditsOf
    <2>2. e[s] = [old |-> old[i], new |-> new[i]]
      BY <2>1 DEF EditsOf
    <2>3. old[i] \in Record /\ new[i] \in Record /\ s \in Slot
      BY <1>1, <2>1
    <2>4. e[s].old = old[i] /\ e[s].new = new[i]
      BY <2>2
    <2>. QED BY <2>3, <2>4
  <1>. QED BY <1>2 DEF TypedEdits

\* Where a record goes to, its former occupant is not in use, or has gone further.
LEMMA CompactSwaps ==
    ASSUME NEW n \in Nat, NEW old \in [1 .. n -> Record],
           NEW j \in LiveAt(old), Compact(old)[j] # old[j]
    PROVE  \E t \in 1 .. n : /\ Compact(old)[t] # old[t]
                             /\ Compact(old)[t] = old[j]
  <1>. DEFINE L == LiveAt(old)
              new == Compact(old)
              Q == {k \in L : old[k] = old[j] /\ Rank(L, k) < k}
  <1>1. /\ L \in SUBSET (1 .. n) /\ Cardinality(L) \in 0 .. n
        /\ \A i \in L : Rank(L, i) \in 1 .. Cardinality(L) /\ new[Rank(L, i)] = old[i]
    BY CompactFacts
  <1>2. \A i \in L : i \in Nat /\ i \in 1 .. n
    BY <1>1
  <1>3. /\ \A i \in L : Rank(L, i) <= i
        /\ \A i, k \in L : i < k => Rank(L, i) < Rank(L, k)
    <2>. HIDE DEF L
    <2>. QED BY <1>1, RankFacts
  <1>4. \A i \in L : Rank(L, i) \in Nat /\ Rank(L, i) \in 1 .. n
    <2>. HIDE DEF L
    <2>. QED BY <1>1
  <1>5. \A i \in 1 .. n : i \in L <=> IsLive(old[i])
    BY DEF LiveAt
  <1>6. j \in L /\ new[j] # old[j]
    OBVIOUS
  <1>. HIDE DEF L, new
  <1>7. Rank(L, j) # j
    BY <1>1, <1>6
  <1>8. j \in Q
    <2>1. Rank(L, j) < j
      BY <1>2, <1>3, <1>4, <1>6, <1>7
    <2>. QED BY <1>6, <2>1
  <1>9. Q \in SUBSET Nat
    BY <1>2
  <1>. HIDE DEF Q
  <1>10. PICK k \in Q : \A h \in Q : k <= h
    BY <1>8, <1>9, LeastNumber
  <1>11. k \in L /\ old[k] = old[j] /\ Rank(L, k) < k
    BY DEF Q
  <1>. DEFINE t == Rank(L, k)
  <1>12. t \in 1 .. n /\ t \in Nat /\ new[t] = old[j] /\ t < k
    BY <1>1, <1>4, <1>11
  <1>13. new[t] # old[t]
    <2>. SUFFICES ASSUME new[t] = old[t] PROVE FALSE
      OBVIOUS
    <2>1. old[t] = old[j] /\ t \in L
      BY <1>5, <1>6, <1>2, <1>12
    <2>2. Rank(L, t) < t
      BY <1>3, <1>11, <1>12, <2>1
    <2>3. t \in Q
      BY <2>1, <2>2 DEF Q
    <2>. QED BY <1>2, <1>10, <1>11, <1>12, <2>3
  <1>. QED BY <1>12, <1>13 DEF new

LEMMA LayoutSwaps ==
    ASSUME NEW slots, Distinct(slots), NEW e, NEW old \in [1 .. Len(slots) -> Record], NEW mode,
           EditsOf(e, slots, old, LayoutDirectory(old, mode))
    PROVE  Swaps(e)
  <1>. DEFINE n == Len(slots)
              new == LayoutDirectory(old, mode)
  <1>0. n \in Nat
    BY DEF Distinct
  <1>. SUFFICES ASSUME NEW s \in DOMAIN e, IsLive(e[s].old)
                PROVE  \E t \in DOMAIN e : IsLive(e[t].new) /\ e[t].new.holds = e[s].old.holds
    BY DEF Swaps
  <1>1. PICK j \in 1 .. n : s = slots[j]
    BY DEF EditsOf
  <1>2. e[s] = [old |-> old[j], new |-> new[j]] /\ old[j] # new[j]
    BY <1>1 DEF EditsOf
  <1>3. e[s].old = old[j]
    BY <1>2
  <1>4. IsLive(old[j])
    BY <1>3
  <1>5. new = Compact(old)
    <2>1. new # Sweep(old)
      BY <1>0, <1>2, <1>4, SweepFacts
    <2>. QED BY <2>1 DEF LayoutDirectory
  <1>6. PICK t \in 1 .. n : new[t] # old[t] /\ new[t] = old[j]
    <2>1. j \in LiveAt(old)
      BY <1>4 DEF LiveAt
    <2>2. Compact(old)[j] # old[j]
      BY <1>2, <1>5
    <2>. HIDE DEF new, n
    <2>. QED BY <1>0, <1>5, <2>1, <2>2, CompactSwaps DEF n
  <1>7. slots[t] \in DOMAIN e /\ e[slots[t]] = [old |-> old[t], new |-> new[t]]
    BY <1>6 DEF EditsOf
  <1>8. e[slots[t]].new = old[j]
    BY <1>6, <1>7
  <1>. QED BY <1>3, <1>4, <1>7, <1>8

\* What is read is a record, wherever it comes from.
LEMMA ViewTyped == TypeOK => View \in [Slot -> Record]
  BY AbsentAssumption DEF TypeOK, View

\* A plan for a directory, made from a reading of it.
FromDirectory(q, slots, p, lost, from, mode) ==
    /\ p \in 1 .. Len(DirSlots(volume)) /\ mode \in {"sweep", "compact"}
    /\ IsReading(slots, from, lost, p)
    /\ EditsOf(q.edits, slots, Contents(slots, View), LayoutDirectory(Contents(slots, View), mode))
    /\ q.mode = mode /\ q.from = from /\ q.set = {} /\ q.warned = FALSE
    /\ q.made = changes /\ q.complete = Complete(lost) /\ q.fresh = Fresh /\ q.checked = FALSE

\* A plan for the records of a deleted file.
FromRecords(q, set, fill, refused, lost) ==
    /\ set \in FileSets /\ fill \in {"neutral", "zero"}
    /\ \A s \in set : View[s].mark = "deleted"
    /\ DOMAIN q.edits = {s \in set : Filled(View[s], fill) # View[s]}
    /\ \A s \in DOMAIN q.edits : q.edits[s] = [old |-> View[s], new |-> Filled(View[s], fill)]
    /\ q.mode = fill /\ q.from = 0 /\ q.set = set
    /\ q.warned = InUseAfter(After(set), refused, lost)
    /\ q.made = changes /\ q.complete = Complete(lost) /\ q.fresh = Fresh /\ q.checked = FALSE

LEMMA ScrubOffers ==
    ASSUME TypeOK, Scrub
    PROVE  /\ phase' = "popup" /\ plan' # NoPlan /\ UNCHANGED <<volume, rec, cached, changes>>
           /\ DOMAIN plan' = DOMAIN NoPlan
           /\ \/ \E slots, p, lost, from, mode : FromDirectory(plan', slots, p, lost, from, mode)
              \/ \E set, fill, refused, lost : FromRecords(plan', set, fill, refused, lost)
  <1>1. UNCHANGED <<volume, rec, cached, changes>> /\ volume \in Volumes
    BY DEF Scrub, TypeOK
  <1>2. PICK refused \in Few({s \in Slot : cached[s] = Absent}, Faults) :
        \E lost \in Few(Cluster, Faults - Cardinality(refused)) :
           \/ \E from \in Shown(lost), mode \in {"sweep", "compact"} :
                 Offered(DirectoryPlan(from, mode, refused, lost))
           \/ \E set \in FileSets, fill \in {"neutral", "zero"} :
                 Offered(RecordPlan(set, fill, refused, lost))
    BY DEF Scrub
  <1>3. PICK lost \in Few(Cluster, Faults - Cardinality(refused)) :
           \/ \E from \in Shown(lost), mode \in {"sweep", "compact"} :
                 Offered(DirectoryPlan(from, mode, refused, lost))
           \/ \E set \in FileSets, fill \in {"neutral", "zero"} :
                 Offered(RecordPlan(set, fill, refused, lost))
    BY <1>2
  <1>4. ASSUME NEW from \in Shown(lost), NEW mode \in {"sweep", "compact"},
               Offered(DirectoryPlan(from, mode, refused, lost))
        PROVE  /\ phase' = "popup" /\ plan' # NoPlan /\ DOMAIN plan' = DOMAIN NoPlan
               /\ \E slots, p, l, f, m : FromDirectory(plan', slots, p, l, f, m)
    <2>. DEFINE slots == SlotsRead(volume.fat, from, lost)
                records == Contents(slots, View)
                edits == Changed(slots, records, LayoutDirectory(records, mode))
    <2>1. phase' = "popup" /\ plan' # NoPlan /\ plan' = DirectoryPlan(from, mode, refused, lost)
      BY <1>4 DEF Offered
    <2>2. plan' = [mode |-> mode, from |-> from, edits |-> edits, set |-> {}, warned |-> FALSE,
                   made |-> changes, complete |-> Complete(lost), fresh |-> Fresh,
                   checked |-> FALSE]
      BY <2>1 DEF DirectoryPlan
    <2>3. PICK p \in 1 .. Len(DirSlots(volume)) : IsReading(slots, from, lost, p)
      BY <1>1, Reading
    <2>4. Distinct(slots)
      BY <2>3 DEF IsReading
    <2>5. EditsOf(edits, slots, records, LayoutDirectory(records, mode))
      <3>. HIDE DEF slots, records
      <3>. QED BY <2>4, ChangedFacts
    <2>. HIDE DEF slots, edits
    <2>6. FromDirectory(plan', slots, p, lost, from, mode)
      BY <2>2, <2>3, <2>5 DEF FromDirectory
    <2>7. DOMAIN plan' = DOMAIN NoPlan
      BY <2>2 DEF NoPlan
    <2>. QED BY <2>1, <2>6, <2>7
  <1>5. ASSUME NEW set \in FileSets, NEW fill \in {"neutral", "zero"},
               Offered(RecordPlan(set, fill, refused, lost))
        PROVE  /\ phase' = "popup" /\ plan' # NoPlan /\ DOMAIN plan' = DOMAIN NoPlan
               /\ \E s, f, r, l : FromRecords(plan', s, f, r, l)
    <2>. DEFINE changed == {s \in set : Filled(View[s], fill) # View[s]}
                edits == [s \in changed |-> [old |-> View[s], new |-> Filled(View[s], fill)]]
                made == [mode |-> fill, from |-> 0, edits |-> edits, set |-> set,
                         warned |-> InUseAfter(After(set), refused, lost), made |-> changes,
                         complete |-> Complete(lost), fresh |-> Fresh, checked |-> FALSE]
    <2>1. phase' = "popup" /\ plan' # NoPlan /\ plan' = RecordPlan(set, fill, refused, lost)
      BY <1>5 DEF Offered
    <2>2. plan' = made /\ \A s \in set : View[s].mark = "deleted"
      BY <2>1 DEF RecordPlan
    <2>3. /\ made.edits = edits /\ made.mode = fill /\ made.from = 0 /\ made.set = set
          /\ made.warned = InUseAfter(After(set), refused, lost)
          /\ made.made = changes /\ made.complete = Complete(lost)
          /\ made.fresh = Fresh /\ made.checked = FALSE
      OBVIOUS
    <2>6. DOMAIN made = DOMAIN NoPlan
      BY DEF NoPlan
    <2>4. DOMAIN edits = changed
          /\ \A s \in changed : edits[s] = [old |-> View[s], new |-> Filled(View[s], fill)]
      OBVIOUS
    <2>. HIDE DEF made, edits
    <2>5. FromRecords(plan', set, fill, refused, lost)
      BY <2>2, <2>3, <2>4 DEF FromRecords
    <2>. QED BY <2>1, <2>2, <2>5, <2>6
  <1>6. CASE \E from \in Shown(lost), mode \in {"sweep", "compact"} :
                 Offered(DirectoryPlan(from, mode, refused, lost))
    BY <1>1, <1>4, <1>6
  <1>7. CASE \E set \in FileSets, fill \in {"neutral", "zero"} :
                 Offered(RecordPlan(set, fill, refused, lost))
    BY <1>1, <1>5, <1>7
  <1>. QED BY <1>3, <1>6, <1>7

LEMMA FileSetFacts ==
    ASSUME volume \in Volumes, NEW set \in FileSets
    PROVE  LET D == DirSlots(volume)
           IN  \E i, k \in 1 .. Len(D) : set = {D[i], D[k]} /\ (k = i \/ k = i + 1)
  <1>. DEFINE D == DirSlots(volume)
              n == Len(D)
  <1>1. n \in Nat
    BY DirFacts
  <1>2. FileSets = {{D[i]} : i \in 1 .. n} \cup {{D[i], D[i + 1]} : i \in 1 .. n - 1}
    BY DEF FileSets
  <1>. HIDE DEF D, n
  <1>3. CASE set \in {{D[i]} : i \in 1 .. n}
    <2>1. PICK i \in 1 .. n : set = {D[i]}
      BY <1>3
    <2>2. set = {D[i], D[i]}
      BY <2>1
    <2>. QED BY <2>2 DEF D, n
  <1>4. CASE set \in {{D[i], D[i + 1]} : i \in 1 .. n - 1}
    <2>1. PICK i \in 1 .. n - 1 : set = {D[i], D[i + 1]}
      BY <1>4
    <2>2. i \in 1 .. n /\ i + 1 \in 1 .. n
      BY <1>1
    <2>. QED BY <2>1, <2>2 DEF D, n
  <1>. QED BY <1>2, <1>3, <1>4

LEMMA FilledFacts ==
    ASSUME NEW r \in Record, NEW fill \in {"neutral", "zero"}
    PROVE  Filled(r, fill) \in Record
  BY DEF Filled, Neutral, Blank, Record, Holding

\* What every plan is, whatever the disk refused.
LEMMA PlanTyped ==
    ASSUME TypeOK, Scrub
    PROVE  /\ plan'.mode \in Mode /\ plan'.from \in Slot /\ plan'.set \subseteq Slot
           /\ plan'.warned \in BOOLEAN /\ plan'.made = changes /\ plan'.complete \in BOOLEAN
           /\ plan'.fresh \in BOOLEAN /\ plan'.checked = FALSE /\ plan'.mode # "none"
           /\ TypedEdits(plan'.edits) /\ Swaps(plan'.edits)
           /\ OnlyThisDirectory'
  <1>. DEFINE D == DirSlots(volume)
  <1>1. volume \in Volumes /\ View \in [Slot -> Record] /\ UNCHANGED <<volume, rec, changes>>
    BY ScrubOffers, ViewTyped DEF TypeOK
  <1>2. D \in Seq(Slot) /\ \A i \in 1 .. Len(D) : D[i] \in Slot
    BY <1>1, DirFacts
  <1>3. OnlyThisDirectory' <=> (NoStaleLink => DOMAIN (plan'.edits) \subseteq ToSet(D))
    BY <1>1 DEF OnlyThisDirectory, NoStaleLink
  <1>4. \A i \in 1 .. Len(D) : D[i] \in ToSet(D)
    BY <1>2 DEF ToSet
  <1>5. Fresh \in BOOLEAN /\ \A l : Complete(l) \in BOOLEAN
    BY DEF Complete, Fresh
  <1>6. ASSUME NEW slots, NEW p, NEW lost, NEW from, NEW mode,
               FromDirectory(plan', slots, p, lost, from, mode)
        PROVE  /\ plan'.mode \in Mode /\ plan'.from \in Slot /\ plan'.set \subseteq Slot
               /\ plan'.warned \in BOOLEAN /\ plan'.made = changes /\ plan'.complete \in BOOLEAN
               /\ plan'.fresh \in BOOLEAN /\ plan'.checked = FALSE /\ plan'.mode # "none"
               /\ TypedEdits(plan'.edits) /\ Swaps(plan'.edits)
               /\ NoStaleLink => DOMAIN (plan'.edits) \subseteq ToSet(D)
    <2>. DEFINE old == Contents(slots, View)
                new == LayoutDirectory(old, mode)
    <2>1. /\ p \in 1 .. Len(D) /\ mode \in {"sweep", "compact"} /\ IsReading(slots, from, lost, p)
          /\ EditsOf(plan'.edits, slots, old, new)
          /\ plan'.mode = mode /\ plan'.from = from /\ plan'.set = {} /\ plan'.warned = FALSE
          /\ plan'.made = changes /\ plan'.complete = Complete(lost)
          /\ plan'.fresh = Fresh /\ plan'.checked = FALSE
      BY <1>6 DEF FromDirectory
    <2>2. Distinct(slots) /\ D[p] = from
          /\ (NoStaleLink => \A i \in 1 .. Len(slots) : \E h \in 1 .. Len(D) : slots[i] = D[h])
      BY <2>1 DEF IsReading
    <2>3. Len(slots) \in Nat /\ old \in [1 .. Len(slots) -> Record]
      BY <1>1, <2>2, RecordsRead
    <2>. HIDE DEF old
    <2>4. new \in [1 .. Len(slots) -> Record]
      BY <2>3, LayoutFacts
    <2>5. Swaps(plan'.edits)
      BY <2>1, <2>2, <2>3, LayoutSwaps
    <2>. HIDE DEF new
    <2>6. TypedEdits(plan'.edits)
      BY <2>1, <2>2, <2>3, <2>4, EditsTyped
    <2>7. NoStaleLink => DOMAIN (plan'.edits) \subseteq ToSet(D)
      <3>. SUFFICES ASSUME NoStaleLink, NEW s \in DOMAIN (plan'.edits) PROVE s \in ToSet(D)
        OBVIOUS
      <3>1. PICK i \in 1 .. Len(slots) : s = slots[i]
        BY <2>1 DEF EditsOf
      <3>. QED BY <1>4, <2>2, <3>1
    <2>8. from \in Slot
      BY <1>2, <2>1, <2>2
    <2>. QED BY <1>5, <2>1, <2>5, <2>6, <2>7, <2>8 DEF Mode
  <1>7. ASSUME NEW set, NEW fill, NEW refused, NEW lost,
               FromRecords(plan', set, fill, refused, lost)
        PROVE  /\ plan'.mode \in Mode /\ plan'.from \in Slot /\ plan'.set \subseteq Slot
               /\ plan'.warned \in BOOLEAN /\ plan'.made = changes /\ plan'.complete \in BOOLEAN
               /\ plan'.fresh \in BOOLEAN /\ plan'.checked = FALSE /\ plan'.mode # "none"
               /\ TypedEdits(plan'.edits) /\ Swaps(plan'.edits)
               /\ NoStaleLink => DOMAIN (plan'.edits) \subseteq ToSet(D)
    <2>1. /\ set \in FileSets /\ fill \in {"neutral", "zero"}
          /\ \A s \in set : View[s].mark = "deleted"
          /\ DOMAIN plan'.edits \subseteq set
          /\ \A s \in DOMAIN plan'.edits :
                plan'.edits[s] = [old |-> View[s], new |-> Filled(View[s], fill)]
          /\ plan'.mode = fill /\ plan'.from = 0 /\ plan'.set = set
          /\ plan'.warned = InUseAfter(After(set), refused, lost)
          /\ plan'.made = changes /\ plan'.complete = Complete(lost)
          /\ plan'.fresh = Fresh /\ plan'.checked = FALSE
      BY <1>7 DEF FromRecords
    <2>2. \A s \in set : s \in ToSet(D) /\ s \in Slot
      BY <1>1, <1>2, <1>4, <2>1, FileSetFacts
    <2>3. 0 \in Slot
      <3>1. (LastCluster - 1) * PerCluster > 0
        OBVIOUS
      <3>. QED BY <3>1 DEF Slot
    <2>4. InUseAfter(After(set), refused, lost) \in BOOLEAN
      BY DEF InUseAfter
    <2>5. ASSUME NEW s \in DOMAIN plan'.edits
          PROVE  /\ s \in Slot /\ s \in ToSet(D)
                 /\ plan'.edits[s].old \in Record /\ plan'.edits[s].new \in Record
                 /\ ~IsLive(plan'.edits[s].old)
      <3>1. s \in set /\ s \in Slot /\ s \in ToSet(D) /\ View[s] \in Record
        BY <1>1, <2>1, <2>2
      <3>2. plan'.edits[s].old = View[s] /\ plan'.edits[s].new = Filled(View[s], fill)
        <4>1. plan'.edits[s] = [old |-> View[s], new |-> Filled(View[s], fill)]
          BY <2>1
        <4>. QED BY <4>1
      <3>3. Filled(View[s], fill) \in Record
        BY <2>1, <3>1, FilledFacts
      <3>. QED BY <2>1, <3>1, <3>2, <3>3 DEF IsLive
    <2>6. TypedEdits(plan'.edits) /\ Swaps(plan'.edits)
      BY <2>5 DEF TypedEdits, Swaps
    <2>. QED BY <1>5, <2>1, <2>2, <2>3, <2>4, <2>5, <2>6 DEF Mode
  <1>8. CASE \E slots, p, lost, from, mode : FromDirectory(plan', slots, p, lost, from, mode)
    BY <1>3, <1>6, <1>8
  <1>9. CASE \E set, fill, refused, lost : FromRecords(plan', set, fill, refused, lost)
    BY <1>3, <1>7, <1>9
  <1>. QED BY <1>8, <1>9, ScrubOffers

---------------------------------------------------------------------------
(* Types, and the records in use.                                          *)

LEMMA NoPlanFacts ==
    /\ NoPlan.mode = "none" /\ NoPlan.from = 0 /\ NoPlan.edits = <<>> /\ NoPlan.set = {}
    /\ NoPlan.warned = FALSE /\ NoPlan.made = 0 /\ NoPlan.complete = TRUE
    /\ NoPlan.fresh = TRUE /\ NoPlan.checked = FALSE
    /\ DOMAIN NoPlan.edits = {} /\ 0 \in Slot
  <1>1. 0 \in Slot
    <2>1. (LastCluster - 1) * PerCluster > 0
      OBVIOUS
    <2>. QED BY <2>1 DEF Slot
  <1>2. NoPlan.edits = <<>>
    BY DEF NoPlan
  <1>3. DOMAIN NoPlan.edits = {}
    BY <1>2
  <1>. QED BY <1>1, <1>2, <1>3 DEF NoPlan

LEMMA ImageTyped ==
    ASSUME volume \in Volumes, NEW kind \in [DOMAIN DirSlots(volume) -> Marks],
           NEW stream \in [DOMAIN DirSlots(volume) -> Stream], NEW others \in Others
    PROVE  Image(kind, stream, DirSlots(volume), others) \in [Slot -> Record]
  <1>. DEFINE D == DirSlots(volume)
              At(s) == CHOOSE i \in DOMAIN D : D[i] = s
              Kinds == {"live", "deleted", "blank", "residue"}
  <1>1. ASSUME NEW k \in Kinds, NEW b \in BOOLEAN, NEW s \in Slot PROVE Initial(k, b, s) \in Record
    BY DEF Initial, Blank, Record, Holding
  <1>2. others \in Kinds /\ \A i \in DOMAIN D : kind[i] \in Kinds /\ stream[i] \in BOOLEAN
    BY MarksAssumption DEF Stream
  <1>3. ASSUME NEW s \in Slot
        PROVE  Image(kind, stream, D, others)[s] \in Record
    <2>1. CASE \E i \in DOMAIN D : D[i] = s
      <3>1. At(s) \in DOMAIN D
        BY <2>1
      <3>2. Image(kind, stream, D, others)[s] = Initial(kind[At(s)], stream[At(s)], s)
        BY <2>1 DEF Image
      <3>. HIDE DEF D, At, Kinds
      <3>. QED BY <1>1, <1>2, <3>1, <3>2
    <2>2. CASE ~ \E i \in DOMAIN D : D[i] = s
      <3>1. Image(kind, stream, D, others)[s] = Initial(others, FALSE, s)
        BY <2>2 DEF Image
      <3>. HIDE DEF D, Kinds
      <3>. QED BY <1>1, <1>2, <3>1
    <2>. QED BY <2>1, <2>2
  <1>4. DOMAIN Image(kind, stream, D, others) = Slot
        /\ Image(kind, stream, D, others) = [s \in Slot |-> Image(kind, stream, D, others)[s]]
    BY DEF Image
  <1>. QED BY <1>3, <1>4

LEMMA InitTypes == Init => TypeOK
  <1>. SUFFICES ASSUME Init PROVE TypeOK
    OBVIOUS
  <1>1. volume \in Volumes /\ phase = "idle" /\ plan = NoPlan /\ changes = 0
    BY DEF Init
  <1>2. rec \in [Slot -> Record]
    <2>1. PICK kind \in [DOMAIN DirSlots(volume) -> Marks],
               stream \in [DOMAIN DirSlots(volume) -> Stream], others \in Others :
               rec = Image(kind, stream, DirSlots(volume), others)
      BY DEF Init
    <2>. QED BY <1>1, <2>1, ImageTyped
  <1>3. cached \in [Slot -> Record \cup {Absent}]
    BY DEF Init
  <1>. QED BY <1>1, <1>2, <1>3, NoPlanFacts DEF TypeOK, Mode

LEMMA ForgetTypes ==
    ASSUME TypeOK, Forget, rec' \in [Slot -> Record], changes' \in Nat,
           UNCHANGED <<volume, cached>>
    PROVE  TypeOK'
  <1>1. plan' = NoPlan /\ phase' = "idle"
    BY DEF Forget
  <1>. QED BY <1>1, NoPlanFacts DEF TypeOK, Mode

LEMMA DriverTypes ==
    ASSUME TypeOK, rec' \in [Slot -> Record], changes' = changes + 1,
           UNCHANGED <<volume, cached, phase, plan>>
    PROVE  TypeOK'
  <1>1. plan.made \in 0 .. changes'
    BY DEF TypeOK
  <1>. QED BY <1>1 DEF TypeOK

\* What Stage notes of the plan changes nothing else of it.
LEMMA Marked ==
    ASSUME TypeOK, NEW b, plan' = [plan EXCEPT !.checked = b]
    PROVE  /\ DOMAIN plan' = DOMAIN plan /\ plan'.checked = b
           /\ plan'.mode = plan.mode /\ plan'.from = plan.from /\ plan'.edits = plan.edits
           /\ plan'.set = plan.set /\ plan'.warned = plan.warned /\ plan'.made = plan.made
           /\ plan'.complete = plan.complete /\ plan'.fresh = plan.fresh
  <1>1. DOMAIN plan = {"mode", "from", "edits", "set", "warned", "made",
                       "complete", "fresh", "checked"}
    BY DEF TypeOK, NoPlan
  <1>. QED BY <1>1

LEMMA CacheTypes ==
    ASSUME TypeOK, NEW now \in [Slot -> Record \cup {Absent}], NEW b,
           cached' = [s \in Slot |-> IF BlockOf(s) = b THEN now[s] ELSE cached[s]],
           UNCHANGED <<volume, rec, phase, plan, changes>>
    PROVE  TypeOK'
  <1>1. cached' \in [Slot -> Record \cup {Absent}]
    BY DEF TypeOK
  <1>. QED BY <1>1 DEF TypeOK

LEMMA NextTypes == TypeOK /\ [Next]_vars => TypeOK'
  <1>. SUFFICES ASSUME TypeOK, [Next]_vars PROVE TypeOK'
    OBVIOUS
  <1>1. CASE Scrub
    <2>1. phase' = "popup" /\ DOMAIN plan' = DOMAIN NoPlan /\ UNCHANGED <<volume, rec, cached, changes>>
      BY <1>1, ScrubOffers
    <2>2. /\ plan'.mode \in Mode /\ plan'.from \in Slot /\ plan'.set \subseteq Slot
          /\ plan'.warned \in BOOLEAN /\ plan'.made = changes /\ plan'.complete \in BOOLEAN
          /\ plan'.fresh \in BOOLEAN /\ plan'.checked = FALSE /\ plan'.mode # "none"
          /\ TypedEdits(plan'.edits)
      BY <1>1, PlanTyped
    <2>3. phase' # "idle" /\ (phase' = "idle") = (plan'.mode = "none")
      BY <2>1, <2>2
    <2>4. /\ DOMAIN (plan'.edits) \subseteq Slot
          /\ \A s \in DOMAIN (plan'.edits) : plan'.edits[s].old \in Record /\ plan'.edits[s].new \in Record
      BY <2>2 DEF TypedEdits
    <2>5. plan'.made \in 0 .. changes' /\ changes' \in Nat
      BY <2>1, <2>2 DEF TypeOK
    <2>. QED BY <2>1, <2>2, <2>3, <2>4, <2>5 DEF TypeOK
  <1>2. CASE Stage
    <2>1. CASE Forget
      BY <1>2, <2>1, ForgetTypes DEF Stage, TypeOK
    <2>2. CASE ~Forget
      <3>. DEFINE same == (Stale \cap DOMAIN plan.edits = {})
      <3>1. phase = "popup" /\ phase' = "staged" /\ plan' = [plan EXCEPT !.checked = same]
            /\ UNCHANGED <<volume, rec, cached, changes>>
        BY <1>2, <2>2 DEF Stage
      <3>2. same \in BOOLEAN
        OBVIOUS
      <3>. HIDE DEF same
      <3>3. /\ DOMAIN plan' = DOMAIN plan /\ plan'.checked = same
            /\ plan'.mode = plan.mode /\ plan'.from = plan.from /\ plan'.edits = plan.edits
            /\ plan'.set = plan.set /\ plan'.warned = plan.warned /\ plan'.made = plan.made
            /\ plan'.complete = plan.complete /\ plan'.fresh = plan.fresh
        BY <3>1, Marked
      <3>. QED BY <3>1, <3>2, <3>3 DEF TypeOK
    <2>. QED BY <2>1, <2>2
  <1>3. CASE Cancel
    BY <1>3, ForgetTypes DEF Cancel, TypeOK
  <1>4. CASE Commit
    <2>1. \A s \in Slot : rec[s] \in Record /\ View[s] \in Record
      BY ViewTyped DEF TypeOK
    <2>2. \A s \in Slot : s \in DOMAIN plan.edits => plan.edits[s].new \in Record
      BY DEF TypeOK
    <2>3. rec' = [s \in Slot |-> IF s \in DOMAIN plan.edits THEN plan.edits[s].new
                                 ELSE IF s \in Touched(plan.edits) THEN View[s] ELSE rec[s]]
      BY <1>4 DEF Commit, Written
    <2>4. rec' \in [Slot -> Record]
      BY <2>1, <2>2, <2>3
    <2>. QED BY <1>4, <2>4, ForgetTypes DEF Commit, TypeOK
  <1>5. CASE DriverDelete
    <2>. DEFINE D == DirSlots(volume)
    <2>1. D \in Seq(Slot)
      BY DirFacts DEF TypeOK
    <2>2. PICK i \in Listed(Contents(D, rec)) : rec' = [rec EXCEPT ![D[i]].mark = "deleted"]
      BY <1>5 DEF DriverDelete
    <2>3. i \in DOMAIN D
      BY <2>2 DEF Listed, Scanned, Contents
    <2>4. D[i] \in Slot
      BY <2>1, <2>3
    <2>5. rec' \in [Slot -> Record]
      <3>. DEFINE s == D[i]
      <3>1. rec \in [Slot -> Record] /\ s \in Slot
        BY <2>4 DEF TypeOK
      <3>2. rec' = [rec EXCEPT ![s] = [rec[s] EXCEPT !.mark = "deleted"]]
        BY <2>2
      <3>. HIDE DEF s
      <3>3. [rec[s] EXCEPT !.mark = "deleted"] \in Record
        BY <3>1 DEF Record
      <3>. QED BY <3>1, <3>2, <3>3
    <2>. QED BY <1>5, <2>5, DriverTypes DEF DriverDelete
  <1>6. CASE DriverCreate
    <2>. DEFINE D == DirSlots(volume)
                first == Cardinality(Scanned(Contents(D, rec))) + 1
                New(i, b, s) == IF s = D[i] THEN [mark |-> "live", stream |-> b, holds |-> NewName]
                                ELSE IF i = first /\ i < Len(D) /\ s = D[i + 1]
                                THEN [mark |-> "free", stream |-> FALSE, holds |-> rec[s].holds]
                                ELSE rec[s]
    <2>1. PICK i \in DOMAIN D, b \in BOOLEAN : rec' = [s \in Slot |-> New(i, b, s)]
      BY <1>6 DEF DriverCreate, Stream
    <2>2. rec \in [Slot -> Record]
      BY DEF TypeOK
    <2>3. \A s \in Slot : New(i, b, s) \in Record
      <3>. HIDE DEF D, first
      <3>. QED BY <2>2 DEF Record, Holding
    <2>. HIDE DEF New
    <2>4. rec' \in [Slot -> Record]
      BY <2>1, <2>3
    <2>. QED BY <1>6, <2>4, DriverTypes DEF DriverCreate
  <1>7. CASE UNCHANGED vars
    BY <1>7 DEF vars, TypeOK
  <1>8. CASE Load
    <2>1. View \in [Slot -> Record \cup {Absent}]
      BY ViewTyped
    <2>. QED BY <1>8, <2>1, CacheTypes DEF Load
  <1>9. CASE GiveUp
    <2>. DEFINE gone == [s \in Slot |-> Absent]
    <2>1. PICK b \in Block : cached' = [s \in Slot |-> IF BlockOf(s) = b THEN Absent ELSE cached[s]]
      BY <1>9 DEF GiveUp
    <2>2. gone \in [Slot -> Record \cup {Absent}]
          /\ cached' = [s \in Slot |-> IF BlockOf(s) = b THEN gone[s] ELSE cached[s]]
      BY <2>1
    <2>. HIDE DEF gone
    <2>. QED BY <1>9, <2>2, CacheTypes DEF GiveUp
  <1>. QED BY <1>1, <1>2, <1>3, <1>4, <1>5, <1>6, <1>7, <1>8, <1>9 DEF Next

\* The types, for every volume, mixture of records and fault.
THEOREM TypeCorrect == Spec => []TypeOK
  BY InitTypes, NextTypes, PTL DEF Spec

\* What plan_directory and plan_record would write is part of the directory they were
\* called for, however much of its chain could be read, when the FAT leads nowhere from the
\* end of it.  From the end of a contiguous exFAT directory it may lead on to clusters of
\* others, and nothing is shown of that case.
THEOREM PlansStayInside == Spec => []OnlyThisDirectory
  <1>1. Init => OnlyThisDirectory
    BY NoPlanFacts DEF Init, OnlyThisDirectory
  <1>2. TypeOK /\ OnlyThisDirectory /\ [Next]_vars => OnlyThisDirectory'
    <2>. SUFFICES ASSUME TypeOK, OnlyThisDirectory, [Next]_vars PROVE OnlyThisDirectory'
      OBVIOUS
    <2>1. CASE Scrub
      BY <2>1, PlanTyped
    <2>2. ASSUME UNCHANGED volume, plan'.edits = plan.edits \/ plan' = NoPlan
          PROVE  OnlyThisDirectory'
      BY <2>2, NoPlanFacts DEF OnlyThisDirectory, NoStaleLink
    <2>3. CASE Stage
      <3>1. plan' = NoPlan \/ \E b : plan' = [plan EXCEPT !.checked = b]
        BY <2>3 DEF Stage, Forget
      <3>2. plan' = NoPlan \/ plan'.edits = plan.edits
        BY <3>1, Marked
      <3>. QED BY <2>2, <2>3, <3>2 DEF Stage
    <2>4. CASE Cancel \/ Commit
      BY <2>2, <2>4 DEF Cancel, Commit, Forget
    <2>5. CASE DriverDelete \/ DriverCreate \/ Load \/ GiveUp
      BY <2>2, <2>5 DEF DriverDelete, DriverCreate, Load, GiveUp
    <2>6. CASE UNCHANGED vars
      BY <2>2, <2>6 DEF vars
    <2>. QED BY <2>1, <2>3, <2>4, <2>5, <2>6 DEF Next
  <1>. QED BY <1>1, <1>2, TypeCorrect, PTL DEF Spec

\* A plan keeps what it overwrites, and once it is staged, and was compared with what
\* the device has, it still knows what that is.
PlanKeeps ==
    /\ Swaps(plan.edits)
    /\ phase = "staged" /\ plan.checked => \A s \in DOMAIN plan.edits : rec[s] = plan.edits[s].old

LEMMA InitKeeps == Init => PlanKeeps
  BY NoPlanFacts DEF Init, PlanKeeps, Swaps

LEMMA NextKeeps ==
    ASSUME "staged" \notin DriverActs, TypeOK, PlanKeeps, [Next]_vars
    PROVE  PlanKeeps'
  <1>1. CASE Scrub
    BY <1>1, ScrubOffers, PlanTyped DEF PlanKeeps
  <1>2. ASSUME Forget PROVE PlanKeeps'
    BY <1>2, NoPlanFacts DEF Forget, PlanKeeps, Swaps
  <1>3. CASE Stage
    <2>1. CASE Forget
      BY <1>2, <2>1
    <2>2. CASE ~Forget
      <3>. DEFINE same == (Stale \cap DOMAIN plan.edits = {})
      <3>1. BasisHolds(plan) /\ plan' = [plan EXCEPT !.checked = same] /\ UNCHANGED rec
        BY <1>3, <2>2 DEF Stage
      <3>2. \A s \in DOMAIN plan.edits : s \in Slot /\ View[s] = plan.edits[s].old
        BY <3>1 DEF BasisHolds, TypeOK
      <3>3. same => \A s \in DOMAIN plan.edits : rec[s] = plan.edits[s].old
        BY <3>2 DEF Stale
      <3>. HIDE DEF same
      <3>4. plan'.edits = plan.edits /\ plan'.checked = same
        BY <3>1, Marked
      <3>. QED BY <3>1, <3>3, <3>4 DEF PlanKeeps
    <2>. QED BY <2>1, <2>2
  <1>4. CASE Cancel \/ Commit
    BY <1>2, <1>4 DEF Cancel, Commit
  <1>5. CASE DriverDelete \/ DriverCreate
    <2>1. phase # "staged" /\ UNCHANGED <<phase, plan>>
      BY <1>5 DEF DriverDelete, DriverCreate
    <2>. QED BY <2>1 DEF PlanKeeps
  <1>6. CASE UNCHANGED vars \/ Load \/ GiveUp
    BY <1>6 DEF vars, PlanKeeps, Load, GiveUp
  <1>. QED BY <1>1, <1>3, <1>4, <1>5, <1>6 DEF Next

LEMMA OnlyCommit ==
    ASSUME [Next]_vars, Committing
    PROVE  Commit
  BY DEF Committing, Next, vars, Load, GiveUp, Scrub, Offered, Stage, Cancel, DriverDelete,
         DriverCreate, Forget

LEMMA CommitKeepsLive ==
    ASSUME TypeOK, PlanKeeps, [Next]_vars, Committing, Compared
    PROVE  Held(rec) \subseteq Held(rec')
  <1>1. Commit
    BY OnlyCommit
  <1>2. ASSUME NEW s \in Slot
        PROVE  rec'[s] = IF s \in DOMAIN plan.edits THEN plan.edits[s].new ELSE rec[s]
    <2>1. rec'[s] = IF s \in DOMAIN plan.edits THEN plan.edits[s].new
                    ELSE IF s \in Touched(plan.edits) THEN View[s] ELSE rec[s]
      BY <1>1 DEF Commit, Written
    <2>2. s \in Touched(plan.edits) => View[s] = rec[s]
      BY DEF Compared, Stale
    <2>. QED BY <2>1, <2>2
  <1>3. \A s \in DOMAIN plan.edits : s \in Slot /\ rec[s] = plan.edits[s].old
    BY DEF Committing, Compared, PlanKeeps, TypeOK
  <1>. SUFFICES ASSUME NEW s \in Slot, IsLive(rec[s])
                PROVE  \E t \in Slot : IsLive(rec'[t]) /\ rec'[t].holds = rec[s].holds
    BY DEF Held
  <1>4. CASE s \in DOMAIN plan.edits
    <2>1. PICK t \in DOMAIN plan.edits : /\ IsLive(plan.edits[t].new)
                                         /\ plan.edits[t].new.holds = plan.edits[s].old.holds
      BY <1>3, <1>4 DEF PlanKeeps, Swaps
    <2>2. t \in Slot /\ rec'[t] = plan.edits[t].new /\ rec[s] = plan.edits[s].old
      BY <1>2, <1>3, <1>4
    <2>. QED BY <2>1, <2>2
  <1>5. CASE s \notin DOMAIN plan.edits
    BY <1>2, <1>5
  <1>. QED BY <1>4, <1>5

\* As long as no driver acts on the volume between staging and commit, and the cache has
\* what the device has where the plan is compared and its sectors are written back, no
\* record in use is overwritten, whatever a driver did before: plan_directory reads it,
\* stage_plan compares it, and what is moved is written where it goes to.
THEOREM LiveRecordsKept ==
    ASSUME "staged" \notin DriverActs
    PROVE  Spec => NoLiveRecordLost
  <1>1. TypeOK /\ PlanKeeps /\ [Next]_vars => PlanKeeps'
    BY NextKeeps
  <1>2. TypeOK /\ PlanKeeps /\ [Next]_vars => [Committing /\ Compared => Held(rec) \subseteq Held(rec')]_vars
    BY CommitKeepsLive
  <1>. QED BY <1>1, <1>2, InitKeeps, TypeCorrect, PTL DEF Spec, NoLiveRecordLost

---------------------------------------------------------------------------
(* What a driver lists.                                                    *)

LEMMA PrefixFacts ==
    ASSUME NEW s \in Seq(Record), NEW t \in Seq(Record), Len(s) <= Len(t),
           \A k \in 1 .. Len(s) : s[k] = t[k]
    PROVE  IsPrefix(s, t)
  <1>. DEFINE m == Len(s)
  <1>1. SubSeq(s, 1, m) = [k \in 1 .. m |-> s[k]] /\ SubSeq(t, 1, m) = [k \in 1 .. m |-> t[k]]
    OBVIOUS
  <1>. QED BY <1>1 DEF IsPrefix

LEMMA ListedFacts ==
    ASSUME NEW n \in Nat, NEW R \in [1 .. n -> Record]
    PROVE  /\ Listed(R) \in SUBSET (1 .. n)
           /\ \A i \in 1 .. n : i \in Listed(R) <=> /\ IsLive(R[i])
                                                    /\ \A j \in 1 .. i : ~IsFree(R[j])
           /\ \A i, j \in 1 .. n : i \in Listed(R) /\ j <= i /\ IsLive(R[j]) => j \in Listed(R)
  <1>1. \A i \in 1 .. n : i \in Listed(R) <=> IsLive(R[i]) /\ \A j \in 1 .. i : ~IsFree(R[j])
    BY DEF Listed, Scanned
  <1>2. Listed(R) \in SUBSET (1 .. n)
    BY DEF Listed, Scanned
  <1>3. \A i, j \in 1 .. n : j <= i => \A h \in 1 .. j : h \in 1 .. i
    OBVIOUS
  <1>. QED BY <1>1, <1>2, <1>3

\* The listing of a directory whose records are R.
Shows(R) == Only(R, Listed(R))

LEMMA ShowsTyped ==
    ASSUME NEW n \in Nat, NEW R \in [1 .. n -> Record]
    PROVE  /\ Cardinality(Listed(R)) \in Nat
           /\ Shows(R) \in Seq(Record) /\ Len(Shows(R)) = Cardinality(Listed(R))
           /\ \A k \in 1 .. Cardinality(Listed(R)) :
                 Nth(Listed(R), k) \in Listed(R) /\ Shows(R)[k] = R[Nth(Listed(R), k)]
  <1>. DEFINE L == Listed(R)
  <1>1. L \in SUBSET (1 .. n)
    BY ListedFacts
  <1>. HIDE DEF L
  <1>2. Cardinality(L) \in Nat
    BY <1>1, RankFacts
  <1>3. \A k \in 1 .. Cardinality(L) : Nth(L, k) \in L
    BY <1>1, NthFacts
  <1>4. Shows(R) = [k \in 1 .. Cardinality(L) |-> R[Nth(L, k)]]
    BY DEF Shows, Only, L
  <1>. DEFINE s == Shows(R)
              m == Cardinality(L)
  <1>5. s \in [1 .. m -> Record] /\ m \in Nat
    BY <1>1, <1>2, <1>3, <1>4
  <1>. HIDE DEF s, m
  <1>6. s \in Seq(Record) /\ Len(s) = m
    BY <1>5
  <1>. QED BY <1>2, <1>3, <1>4, <1>6 DEF L, s, m

\* Records that stay where they are, with nothing freed before one of them.
LEMMA SameListing ==
    ASSUME NEW n \in Nat, NEW R \in [1 .. n -> Record], NEW S \in [1 .. n -> Record],
           \A i \in 1 .. n : /\ IsLive(R[i]) => S[i] = R[i]
                             /\ ~IsLive(R[i]) => ~IsLive(S[i])
                             /\ IsFree(R[i]) => IsFree(S[i]),
           \A j \in Listed(R) : \A i \in 1 .. j : ~IsFree(S[i])
    PROVE  Shows(S) = Shows(R) /\ IsPrefix(Shows(R), Shows(S))
  <1>1. Listed(S) = Listed(R)
    <2>1. ASSUME NEW i \in Listed(R) PROVE i \in Listed(S)
      <3>1. i \in 1 .. n /\ IsLive(R[i]) /\ \A j \in 1 .. i : ~IsFree(S[j])
        BY ListedFacts
      <3>. QED BY <3>1, ListedFacts
    <2>2. ASSUME NEW i \in Listed(S) PROVE i \in Listed(R)
      <3>1. i \in 1 .. n /\ IsLive(S[i]) /\ \A j \in 1 .. i : j \in 1 .. n /\ ~IsFree(S[j])
        BY ListedFacts
      <3>2. IsLive(R[i]) /\ \A j \in 1 .. i : ~IsFree(R[j])
        BY <3>1
      <3>. QED BY <3>1, <3>2, ListedFacts
    <2>. QED BY <2>1, <2>2
  <1>2. \A i \in Listed(R) : R[i] = S[i]
    BY ListedFacts
  <1>3. Shows(S) = Shows(R)
    <2>1. Shows(R) = [k \in 1 .. Cardinality(Listed(R)) |-> R[Nth(Listed(R), k)]]
      BY DEF Shows, Only
    <2>2. Shows(S) = [k \in 1 .. Cardinality(Listed(R)) |-> S[Nth(Listed(R), k)]]
      BY <1>1 DEF Shows, Only
    <2>3. \A k \in 1 .. Cardinality(Listed(R)) : Nth(Listed(R), k) \in Listed(R)
      BY ShowsTyped
    <2>. QED BY <1>2, <2>1, <2>2, <2>3
  <1>4. IsPrefix(Shows(R), Shows(R))
    <2>. DEFINE s == Shows(R)
    <2>1. s \in Seq(Record)
      BY ShowsTyped
    <2>. HIDE DEF s
    <2>2. IsPrefix(s, s)
      BY <2>1, PrefixFacts
    <2>. QED BY <2>2 DEF s
  <1>. QED BY <1>3, <1>4

\* Records that stay in order, without a gap among them.
LEMMA ListingGrows ==
    ASSUME NEW n \in Nat, NEW R \in [1 .. n -> Record], NEW S \in [1 .. n -> Record],
           NEW f, InOrder(f, Listed(R), Listed(S)),
           \A i \in Listed(R) : S[f[i]] = R[i]
    PROVE  IsPrefix(Shows(R), Shows(S))
  <1>. DEFINE L == Listed(R)
              M == Listed(S)
              m == Cardinality(L)
              l == Cardinality(M)
  <1>1. L \in SUBSET (1 .. n) /\ M \in SUBSET (1 .. n)
    BY ListedFacts
  <1>2. \A i \in L : Rank(M, f[i]) = Rank(L, i)
    <2>1. InOrder(f, L, M)
      OBVIOUS
    <2>2. L \in SUBSET (1 .. n)
      BY <1>1
    <2>3. M \in SUBSET (1 .. n)
      BY <1>1
    <2>4. n \in Nat
      OBVIOUS
    <2>. HIDE DEF L, M
    <2>. QED BY ONLY <2>1, <2>2, <2>3, <2>4, SameRank, Zenon
  <1>3. /\ m \in Nat /\ l \in Nat
        /\ Shows(R) \in Seq(Record) /\ Shows(S) \in Seq(Record)
        /\ Len(Shows(R)) = m /\ Len(Shows(S)) = l
    BY ShowsTyped
  <1>4. ASSUME NEW k \in 1 .. m PROVE k \in 1 .. l /\ Shows(R)[k] = Shows(S)[k]
    <2>. DEFINE i == Nth(L, k)
    <2>1. i \in L /\ Rank(L, i) = k
      <3>. HIDE DEF L
      <3>. QED BY <1>1, NthFacts
    <2>2. f[i] \in M /\ Rank(M, f[i]) = k
      BY <1>2, <2>1 DEF InOrder
    <2>3. k \in 1 .. l /\ Nth(M, k) = f[i]
      <3>. HIDE DEF M, i
      <3>. QED BY <1>1, <2>2, RankFacts, NthFacts
    <2>4. Shows(R)[k] = R[i] /\ Shows(S)[k] = S[f[i]]
      BY <2>3, ShowsTyped
    <2>. QED BY <2>1, <2>3, <2>4
  <1>5. m <= l
    <2>. HIDE DEF m, l
    <2>. QED BY <1>3, <1>4
  <1>. DEFINE r == Shows(R)
              s == Shows(S)
  <1>6. /\ r \in Seq(Record) /\ s \in Seq(Record) /\ Len(r) = m /\ Len(s) = l
        /\ \A k \in 1 .. m : r[k] = s[k]
    BY <1>3, <1>4
  <1>. HIDE DEF m, l, r, s
  <1>7. IsPrefix(r, s)
    BY <1>3, <1>5, <1>6, PrefixFacts
  <1>. QED BY <1>7 DEF r, s

\* The records from the p-th on, laid out anew.
Rewritten(n, R, S, p, mode) ==
    LET old == [i \in 1 .. n - p + 1 |-> R[p + i - 1]]
    IN  /\ \A i \in 1 .. n : i < p => S[i] = R[i]
        /\ \A i \in 1 .. n : i >= p => S[i] = LayoutDirectory(old, mode)[i - p + 1]

LEMMA SweepListing ==
    ASSUME NEW n \in Nat, NEW R \in [1 .. n -> Record], NEW S \in [1 .. n -> Record],
           NEW p \in 1 .. n, Rewritten(n, R, S, p, "sweep")
    PROVE  IsPrefix(Shows(R), Shows(S))
  <1>. DEFINE m == n - p + 1
              old == [i \in 1 .. m |-> R[p + i - 1]]
              new == Sweep(old)
  <1>1. m \in Nat /\ (\A i \in 1 .. m : p + i - 1 \in 1 .. n)
        /\ \A i \in 1 .. n : i >= p => i - p + 1 \in 1 .. m /\ p + (i - p + 1) - 1 = i
    OBVIOUS
  <1>2. old \in [1 .. m -> Record] /\ \A i \in 1 .. n : i >= p => old[i - p + 1] = R[i]
    BY <1>1
  <1>3. \A i \in 1 .. n : IF i < p THEN S[i] = R[i] ELSE S[i] = new[i - p + 1]
    BY DEF Rewritten, LayoutDirectory
  <1>. HIDE DEF m, old, new
  <1>4. /\ \A i \in 1 .. m : /\ IsLive(old[i]) => new[i] = old[i]
                             /\ ~IsLive(old[i]) => ~IsLive(new[i])
                             /\ IsFree(old[i]) => IsFree(new[i])
        /\ \A i, j \in 1 .. m : i <= j /\ IsLive(old[j]) /\ ~IsFree(old[i]) => ~IsFree(new[i])
    BY <1>1, <1>2, SweepFacts DEF new
  <1>5. ASSUME NEW i \in 1 .. n
        PROVE  /\ IsLive(R[i]) => S[i] = R[i]
               /\ ~IsLive(R[i]) => ~IsLive(S[i])
               /\ IsFree(R[i]) => IsFree(S[i])
    <2>1. CASE i < p
      BY <1>3, <2>1
    <2>2. CASE ~(i < p)
      <3>1. i >= p
        BY <2>2
      <3>2. i - p + 1 \in 1 .. m /\ old[i - p + 1] = R[i] /\ S[i] = new[i - p + 1]
        BY <1>1, <1>2, <1>3, <2>2, <3>1
      <3>. DEFINE k == i - p + 1
      <3>. HIDE DEF k
      <3>3. k \in 1 .. m /\ old[k] = R[i] /\ S[i] = new[k]
        BY <3>2 DEF k
      <3>. QED BY <1>4, <3>3
    <2>. QED BY <2>1, <2>2
  <1>6. ASSUME NEW j \in Listed(R), NEW i \in 1 .. j PROVE ~IsFree(S[i])
    <2>1. j \in 1 .. n /\ i \in 1 .. n /\ i <= j /\ IsLive(R[j]) /\ ~IsFree(R[i])
      BY ListedFacts
    <2>2. CASE i < p
      BY <1>3, <2>1, <2>2
    <2>3. CASE ~(i < p)
      <3>1. i >= p /\ j >= p
        BY <2>1, <2>3
      <3>2. i - p + 1 <= j - p + 1
        BY <2>1
      <3>. DEFINE a == i - p + 1
                  b == j - p + 1
      <3>3. a \in 1 .. m /\ b \in 1 .. m /\ old[a] = R[i] /\ old[b] = R[j] /\ S[i] = new[a]
        BY <1>1, <1>2, <1>3, <2>1, <2>3, <3>1
      <3>. HIDE DEF a, b
      <3>. QED BY <1>4, <2>1, <3>2, <3>3 DEF a, b
    <2>. QED BY <2>2, <2>3
  <1>. QED BY <1>5, <1>6, SameListing

LEMMA CompactListing ==
    ASSUME NEW n \in Nat, NEW R \in [1 .. n -> Record], NEW S \in [1 .. n -> Record],
           NEW p \in 1 .. n, Rewritten(n, R, S, p, "compact")
    PROVE  IsPrefix(Shows(R), Shows(S))
  <1>. DEFINE m == n - p + 1
              q == p - 1
              old == [i \in 1 .. m |-> R[p + i - 1]]
              new == Compact(old)
              V == LiveAt(old)
              size == Cardinality(V)
              L == Listed(R)
              M == Listed(S)
              f == [i \in L |-> IF i < p THEN i ELSE q + Rank(V, i - q)]
  <1>1. /\ m \in Nat /\ q \in Nat /\ p = q + 1 /\ n = q + m
        /\ \A i \in 1 .. m : p + i - 1 = q + i /\ q + i \in 1 .. n
        /\ \A i \in 1 .. n : ~(i < p) => /\ i - q \in 1 .. m /\ i - p + 1 = i - q
                                         /\ q + (i - q) = i /\ i >= p
    OBVIOUS
  <1>2. old \in [1 .. m -> Record] /\ \A i \in 1 .. m : old[i] = R[q + i]
    BY <1>1
  <1>3. \A i \in 1 .. n : i < p => S[i] = R[i]
    BY DEF Rewritten
  <1>4. \A i \in 1 .. m : S[q + i] = new[i]
    <2>. SUFFICES ASSUME NEW i \in 1 .. m PROVE S[q + i] = new[i]
      OBVIOUS
    <2>1. q + i \in 1 .. n /\ q + i >= p /\ q + i - p + 1 = i
      BY <1>1
    <2>2. S[q + i] = LayoutDirectory(old, "compact")[q + i - p + 1]
      BY <2>1 DEF Rewritten
    <2>. QED BY <2>1, <2>2 DEF LayoutDirectory
  <1>5. /\ V \in SUBSET (1 .. m) /\ size \in 0 .. m
        /\ \A i \in V : Rank(V, i) \in 1 .. size /\ new[Rank(V, i)] = old[i]
        /\ \A k \in 1 .. size : Nth(V, k) \in V /\ IsLive(new[k])
    <2>. HIDE DEF m, old
    <2>. QED BY <1>1, <1>2, CompactFacts
  <1>6. \A i \in 1 .. m : i \in V <=> IsLive(R[q + i])
    BY <1>2 DEF LiveAt
  <1>7. /\ L \in SUBSET (1 .. n) /\ M \in SUBSET (1 .. n)
        /\ \A i \in 1 .. n : i \in L <=> IsLive(R[i]) /\ \A j \in 1 .. i : ~IsFree(R[j])
        /\ \A i \in 1 .. n : i \in M <=> IsLive(S[i]) /\ \A j \in 1 .. i : ~IsFree(S[j])
        /\ \A i, j \in 1 .. n : i \in L /\ j <= i /\ IsLive(R[j]) => j \in L
    BY ListedFacts
  <1>8. \A r : IsLive(r) => ~IsFree(r)
    BY DEF IsLive, IsFree
  <1>. HIDE DEF m, q, old, new, V, size, L, M
  <1>9. /\ \A i \in V : i \in Nat /\ i \in 1 .. m /\ Rank(V, i) \in Nat /\ Rank(V, i) <= i
        /\ \A i, j \in V : i < j => Rank(V, i) < Rank(V, j)
        /\ \A k \in 1 .. size : Rank(V, Nth(V, k)) = k
    <2>1. (\A i \in V : Rank(V, i) <= i) /\ (\A i, j \in V : i < j => Rank(V, i) < Rank(V, j))
      BY <1>1, <1>5, RankFacts
    <2>2. \A k \in 1 .. size : Rank(V, Nth(V, k)) = k
      BY <1>1, <1>5, NthFacts DEF size
    <2>3. \A i \in V : i \in Nat /\ i \in 1 .. m /\ Rank(V, i) \in Nat
      BY <1>5
    <2>. QED BY <2>1, <2>2, <2>3
  <1>10. \A i \in L : i \in 1 .. n /\ i \in Nat /\ IsLive(R[i]) /\ \A j \in 1 .. i : ~IsFree(R[j])
    <2>. SUFFICES ASSUME NEW i \in L
                  PROVE i \in 1 .. n /\ i \in Nat /\ IsLive(R[i]) /\ \A j \in 1 .. i : ~IsFree(R[j])
      OBVIOUS
    <2>1. i \in 1 .. n
      BY <1>7
    <2>. QED BY <1>7, <2>1
  <1>11. ASSUME NEW i \in L, ~(i < p)
         PROVE  /\ i - q \in V /\ i = q + (i - q) /\ f[i] = q + Rank(V, i - q)
                /\ Rank(V, i - q) \in 1 .. size /\ Rank(V, i - q) \in 1 .. m
                /\ f[i] <= i /\ f[i] >= p /\ f[i] \in 1 .. n
    <2>. DEFINE k == i - q
    <2>1. i \in 1 .. n /\ IsLive(R[i])
      BY <1>10
    <2>2. k \in 1 .. m /\ i = q + k
      BY <1>1, <1>11, <2>1
    <2>. HIDE DEF k
    <2>3. k \in V
      BY <1>6, <2>1, <2>2
    <2>. DEFINE r == Rank(V, k)
    <2>4. r \in 1 .. size /\ r \in Nat /\ r <= k
      BY <1>5, <1>9, <2>3
    <2>5. f[i] = q + r
      BY <1>11 DEF k
    <2>. HIDE DEF r
    <2>6. r \in 1 .. m /\ q + r <= i /\ q + r >= p /\ q + r \in 1 .. n
      <3>1. p = q + 1 /\ n = q + m /\ q \in Nat /\ m \in Nat /\ size \in 0 .. m /\ k \in Nat
        BY <1>1, <1>5, <2>2
      <3>2. i = q + k
        BY <2>2
      <3>. QED BY ONLY <2>4, <3>1, <3>2
    <2>7. f[i] <= i /\ f[i] >= p /\ f[i] \in 1 .. n
      BY ONLY <2>5, <2>6
    <2>8. k \in V /\ i = q + k /\ r \in 1 .. size
      BY <2>2, <2>3, <2>4
    <2>. QED BY ONLY <2>5, <2>6, <2>7, <2>8 DEF k, r
  <1>12. ASSUME NEW i \in L PROVE S[f[i]] = R[i] /\ f[i] <= i /\ f[i] \in 1 .. n
    <2>1. CASE i < p
      BY <1>3, <1>10, <2>1
    <2>2. CASE ~(i < p)
      <3>. DEFINE k == i - q
                  r == Rank(V, k)
      <3>1. k \in V /\ i = q + k /\ f[i] = q + r /\ r \in 1 .. m /\ f[i] <= i /\ f[i] \in 1 .. n
        BY <1>11, <2>2
      <3>. HIDE DEF k, r
      <3>2. S[q + r] = new[r] /\ new[r] = old[k] /\ old[k] = R[q + k]
        BY <1>2, <1>4, <1>5, <1>9, <3>1 DEF r
      <3>. QED BY <3>1, <3>2
    <2>. QED BY <2>1, <2>2
  <1>13. ASSUME NEW i \in L PROVE f[i] \in M
    <2>1. f[i] \in 1 .. n /\ IsLive(S[f[i]]) /\ f[i] <= i
      BY <1>10, <1>12
    <2>2. ASSUME NEW j \in 1 .. f[i] PROVE ~IsFree(S[j])
      <3>1. j \in 1 .. n /\ j \in 1 .. i /\ j <= f[i]
        BY <1>10, <2>1
      <3>2. CASE j < p
        BY <1>3, <1>10, <3>1, <3>2
      <3>3. CASE ~(j < p)
        <4>1. ~(i < p)
          <5>1. i \in Nat /\ j \in 1 .. i
            BY <1>10, <3>1
          <5>. HIDE DEF f
          <5>. QED BY <3>3, <5>1
        <4>. DEFINE k == j - q
        <4>2. k \in 1 .. m /\ j = q + k
          BY <1>1, <3>1, <3>3
        <4>3. k \in 1 .. size
          <5>. DEFINE r == Rank(V, i - q)
          <5>1. f[i] = q + r /\ r \in 1 .. size
            BY <1>11, <4>1
          <5>. HIDE DEF r, k
          <5>. QED BY <1>1, <1>5, <3>1, <4>2, <5>1
        <4>. HIDE DEF k
        <4>. QED BY <1>4, <1>5, <1>8, <4>2, <4>3
      <3>. QED BY <3>2, <3>3
    <2>. QED BY <1>7, <2>1, <2>2
  <1>14. ASSUME NEW i \in L, NEW j \in L, i < j PROVE f[i] < f[j]
    <2>1. CASE j < p
      <3>1. i < p
        BY <1>10, <1>14, <2>1
      <3>. QED BY <1>14, <2>1, <3>1
    <2>2. CASE i < p /\ ~(j < p)
      <3>1. f[j] >= p /\ f[j] \in 1 .. n
        BY <1>11, <2>2
      <3>2. f[i] = i /\ i \in Nat
        BY <1>10, <2>2
      <3>. HIDE DEF f
      <3>. QED BY <2>2, <3>1, <3>2
    <2>3. CASE ~(i < p)
      <3>1. ~(j < p)
        BY <1>10, <1>14, <2>3
      <3>. DEFINE a == i - q
                  b == j - q
      <3>2. a \in V /\ i = q + a /\ f[i] = q + Rank(V, a) /\ b \in V /\ j = q + b /\ f[j] = q + Rank(V, b)
        BY <1>11, <2>3, <3>1
      <3>. HIDE DEF a, b, f
      <3>3. a < b
        BY <1>1, <1>9, <1>14, <3>2
      <3>4. Rank(V, a) < Rank(V, b) /\ Rank(V, a) \in Nat /\ Rank(V, b) \in Nat
        BY <1>9, <3>2, <3>3
      <3>. QED BY <1>1, <3>2, <3>4
    <2>. QED BY <2>1, <2>2, <2>3
  <1>15. ASSUME NEW i \in L, NEW j \in M, j < f[i] PROVE \E h \in L : f[h] = j
    <2>1. j \in 1 .. n /\ IsLive(S[j]) /\ i \in 1 .. n /\ f[i] <= i /\ f[i] \in 1 .. n
      BY <1>7, <1>10, <1>12
    <2>2. j < i /\ j <= i
      BY <1>15, <2>1
    <2>3. CASE j < p
      <3>1. IsLive(R[j])
        BY <1>3, <2>1, <2>3
      <3>2. j \in L
        BY <1>7, <2>1, <2>2, <3>1
      <3>. QED BY <2>3, <3>2
    <2>4. CASE ~(j < p)
      <3>1. ~(i < p)
        BY <2>1, <2>2, <2>4
      <3>. DEFINE a == i - q
                  k == j - q
      <3>2. /\ a \in V /\ i = q + a /\ f[i] = q + Rank(V, a) /\ Rank(V, a) \in 1 .. size
            /\ k \in 1 .. m /\ j = q + k
        BY <1>1, <1>11, <2>1, <2>4, <3>1
      <3>. HIDE DEF a, k
      <3>3. k < Rank(V, a) /\ k \in 1 .. size
        <4>. DEFINE r == Rank(V, a)
        <4>1. j < f[i] /\ f[i] = q + r /\ r \in 1 .. size /\ j = q + k
          BY <1>15, <3>2
        <4>2. k \in Nat /\ k >= 1
          BY <3>2
        <4>. HIDE DEF f, r
        <4>3. k < r
          BY <1>1, <1>5, <4>1, <4>2
        <4>. QED BY <1>5, <4>1, <4>2, <4>3 DEF r
      <3>. DEFINE b == Nth(V, k)
      <3>4. b \in V /\ Rank(V, b) = k
        BY <1>5, <1>9, <3>3
      <3>. HIDE DEF b
      <3>5. b < a /\ b \in 1 .. m
        <4>1. a \in Nat /\ b \in Nat /\ b \in 1 .. m
          BY <1>9, <3>2, <3>4
        <4>2. b # a /\ ~(a < b)
          BY <1>9, <3>2, <3>3, <3>4
        <4>. QED BY <4>1, <4>2
      <3>. DEFINE h == q + b
      <3>6. h \in 1 .. n /\ h <= i /\ ~(h < p) /\ h - q = b
        BY <1>1, <1>9, <3>2, <3>5
      <3>7. IsLive(R[h])
        BY <1>6, <3>4, <3>5
      <3>. HIDE DEF h
      <3>8. h \in L
        BY <1>7, <2>1, <3>6, <3>7
      <3>9. f[h] = q + Rank(V, b)
        BY <3>6, <3>8
      <3>. QED BY <3>2, <3>4, <3>8, <3>9
    <2>. QED BY <2>3, <2>4
  <1>16. InOrder(f, L, M)
    <2>1. f \in [L -> M]
      BY <1>13
    <2>. HIDE DEF f
    <2>. QED BY <1>14, <1>15, <2>1 DEF InOrder
  <1>17. \A i \in L : S[f[i]] = R[i]
    BY <1>12
  <1>. HIDE DEF f
  <1>. QED BY <1>16, <1>17, ListingGrows DEF L, M

---------------------------------------------------------------------------
(* What the staged plan would do, if nothing happened since it was made.   *)

\* What a commit of q must not do to the listing, and what it must leave behind.
Harmless(q) ==
    LET D == DirSlots(volume)
        after == Patched(rec, q.edits)
    IN  /\ q.mode # "zero" => IsPrefix(Listing(volume, rec), Listing(volume, after))
        /\ (q.mode = "zero" /\ ~q.warned /\ OnTheDisk(D, After(q.set)))
              => Listing(volume, after) = Listing(volume, rec)
        /\ (q.mode \in {"sweep", "compact"} /\ q.from = D[1])
              => \A s \in ToSet(D) : \/ IsLive(after[s]) \/ after[s] = Blank
                                     \/ q.mode = "sweep" /\ after[s].holds = Nothing

LEMMA DirRecords ==
    ASSUME volume \in Volumes, NEW image \in [Slot -> Record]
    PROVE  /\ Distinct(DirSlots(volume)) /\ Len(DirSlots(volume)) \in Nat
           /\ Contents(DirSlots(volume), image) \in [1 .. Len(DirSlots(volume)) -> Record]
           /\ \A i \in 1 .. Len(DirSlots(volume)) :
                 /\ DirSlots(volume)[i] \in Slot
                 /\ Contents(DirSlots(volume), image)[i] = image[DirSlots(volume)[i]]
           /\ Listing(volume, image) = Shows(Contents(DirSlots(volume), image))
  <1>. DEFINE D == DirSlots(volume)
  <1>1. Distinct(D)
    BY DirFacts DEF Distinct
  <1>2. Listing(volume, image) = Shows(Contents(D, image))
    BY DEF Listing, Shows
  <1>. HIDE DEF D
  <1>3. /\ Len(D) \in Nat /\ Contents(D, image) \in [1 .. Len(D) -> Record]
        /\ \A i \in 1 .. Len(D) : D[i] \in Slot /\ Contents(D, image)[i] = image[D[i]]
    BY <1>1, RecordsRead
  <1>. QED BY <1>1, <1>2, <1>3 DEF D

\* What is read of a fresh directory is what the device has, as long as nothing is
\* written; the cache only comes closer to it.
LEMMA FreshView ==
    ASSUME volume \in Volumes, Fresh
    PROVE  \A i \in 1 .. Len(DirSlots(volume)) : View[DirSlots(volume)[i]] = rec[DirSlots(volume)[i]]
  <1>. DEFINE D == DirSlots(volume)
  <1>1. D \in Seq(Slot)
    BY DirFacts
  <1>2. \A i \in 1 .. Len(D) : D[i] \in Slot /\ D[i] \in ToSet(D)
    <2>. HIDE DEF D
    <2>. QED BY <1>1 DEF ToSet
  <1>. HIDE DEF D
  <1>3. Stale \cap ToSet(D) = {}
    BY DEF Fresh, D
  <1>. QED BY <1>2, <1>3 DEF Stale, D

LEMMA StaysFresh ==
    ASSUME TypeOK, Load \/ GiveUp, Fresh
    PROVE  Fresh'
  <1>1. \A s \in Slot : View[s] # Absent
    BY ViewTyped, AbsentAssumption
  <1>2. UNCHANGED <<volume, rec>>
    BY DEF Load, GiveUp
  <1>3. PICK b \in Block : \/ cached' = [s \in Slot |-> IF BlockOf(s) = b THEN View[s] ELSE cached[s]]
                           \/ cached' = [s \in Slot |-> IF BlockOf(s) = b THEN Absent ELSE cached[s]]
    BY DEF Load, GiveUp
  <1>4. \A s \in Slot : View'[s] = View[s] \/ View'[s] = rec[s]
    BY <1>1, <1>2, <1>3 DEF View
  <1>5. Stale' \subseteq Stale
    BY <1>2, <1>4 DEF Stale
  <1>. QED BY <1>2, <1>5 DEF Fresh

LEMMA AfterTyped ==
    ASSUME NEW image \in [Slot -> Record], NEW e, TypedEdits(e)
    PROVE  Patched(image, e) \in [Slot -> Record]
  <1>1. \A s \in Slot : s \in DOMAIN e => e[s].new \in Record
    BY DEF TypedEdits
  <1>. QED BY <1>1 DEF Patched

LEMMA DirectoryHarmless ==
    ASSUME TypeOK, volume \in Volumes, rec \in [Slot -> Record], Fresh, NEW q, TypedEdits(q.edits),
           NEW slots, NEW p, NEW lost, NEW from, NEW mode,
           FromDirectory(q, slots, p, lost, from, mode), Complete(lost)
    PROVE  Harmless(q)
  <1>. DEFINE D == DirSlots(volume)
              n == Len(D)
              after == Patched(rec, q.edits)
              R == Contents(D, rec)
              S == Contents(D, after)
              m == n - p + 1
              old == [i \in 1 .. m |-> R[p + i - 1]]
              new == LayoutDirectory(old, mode)
  <1>1. /\ p \in 1 .. n /\ mode \in {"sweep", "compact"} /\ q.mode = mode /\ q.from = from
        /\ IsReading(slots, from, lost, p)
        /\ EditsOf(q.edits, slots, Contents(slots, View), LayoutDirectory(Contents(slots, View), mode))
    BY DEF FromDirectory
  <1>2. /\ Distinct(slots) /\ D[p] = from /\ Len(slots) = m
        /\ \A i \in 1 .. Len(slots) : slots[i] = D[p + i - 1]
    BY <1>1 DEF IsReading
  <1>3. after \in [Slot -> Record]
    BY AfterTyped
  <1>. HIDE DEF after
  <1>4. /\ Distinct(D) /\ n \in Nat /\ R \in [1 .. n -> Record] /\ S \in [1 .. n -> Record]
        /\ \A i \in 1 .. n : D[i] \in Slot /\ R[i] = rec[D[i]] /\ S[i] = after[D[i]]
        /\ Listing(volume, rec) = Shows(R) /\ Listing(volume, after) = Shows(S)
    BY <1>3, DirRecords
  <1>5. \A i, j \in 1 .. n : D[i] = D[j] => i = j
    BY <1>4 DEF Distinct
  <1>. HIDE DEF D, R, S
  <1>. HIDE DEF n
  <1>6. /\ m \in Nat /\ \A i \in 1 .. m : p + i - 1 \in 1 .. n
        /\ \A i \in 1 .. n : i >= p => i - p + 1 \in 1 .. m /\ p + (i - p + 1) - 1 = i
    BY <1>1, <1>4
  <1>7. Contents(slots, rec) = old /\ Contents(slots, View) = old
    <2>1. Contents(slots, rec) \in [1 .. m -> Record]
          /\ \A i \in 1 .. m : Contents(slots, rec)[i] = rec[slots[i]]
      BY <1>2, RecordsRead
    <2>2. Contents(slots, View) \in [1 .. m -> Record]
          /\ \A i \in 1 .. m : Contents(slots, View)[i] = View[slots[i]]
      BY <1>2, ViewTyped, RecordsRead
    <2>3. \A i \in 1 .. n : View[D[i]] = rec[D[i]]
      BY FreshView DEF D, n
    <2>4. ASSUME NEW i \in 1 .. m
          PROVE  rec[slots[i]] = R[p + i - 1] /\ View[slots[i]] = R[p + i - 1]
      <3>1. p + i - 1 \in 1 .. n /\ slots[i] = D[p + i - 1]
        BY <1>2, <1>6
      <3>. QED BY <1>4, <2>3, <3>1, Zenon
    <2>. QED BY <2>1, <2>2, <2>4
  <1>8. old \in [1 .. m -> Record]
    BY <1>4, <1>6
  <1>9. EditsOf(q.edits, slots, Contents(slots, rec), new)
    BY <1>1, <1>7
  <1>. HIDE DEF m, old, new
  <1>10. /\ \A i \in 1 .. m : after[slots[i]] = new[i]
         /\ \A s \in Slot : (\A i \in 1 .. m : slots[i] # s) => after[s] = rec[s]
    <2>1. Distinct(slots)
      BY <1>2
    <2>2. /\ \A i \in 1 .. Len(slots) : Patched(rec, q.edits)[slots[i]] = new[i]
          /\ \A s \in Slot : (\A i \in 1 .. Len(slots) : slots[i] # s)
                                => Patched(rec, q.edits)[s] = rec[s]
      BY <1>9, <2>1, PatchedFacts
    <2>. QED BY <1>2, <2>2 DEF after
  <1>11. \A i \in 1 .. n : i >= p => S[i] = new[i - p + 1]
    <2>. SUFFICES ASSUME NEW i \in 1 .. n, i >= p PROVE S[i] = new[i - p + 1]
      OBVIOUS
    <2>. DEFINE k == i - p + 1
    <2>1. k \in 1 .. m /\ p + k - 1 = i
      BY <1>6
    <2>. HIDE DEF k
    <2>2. slots[k] = D[i] /\ after[slots[k]] = new[k]
      BY <1>2, <1>10, <2>1
    <2>3. S[i] = new[k]
      BY <1>4, <2>2
    <2>. QED BY <2>3 DEF k
  <1>12. \A i \in 1 .. n : i < p => S[i] = R[i]
    <2>. SUFFICES ASSUME NEW i \in 1 .. n, i < p PROVE S[i] = R[i]
      OBVIOUS
    <2>0. i < p
      OBVIOUS
    <2>1. ASSUME NEW k \in 1 .. m PROVE slots[k] # D[i]
      <3>1. p + k - 1 \in 1 .. n
        BY <1>6
      <3>2. p + k - 1 # i
        <4>1. p \in Int /\ i \in Int /\ k \in Int /\ k >= 1 /\ i < p
          BY <1>1, <1>4, <1>6, <2>0
        <4>. QED BY ONLY <4>1
      <3>3. slots[k] = D[p + k - 1]
        BY <1>2
      <3>. QED BY <1>5, <3>1, <3>2, <3>3
    <2>. QED BY <1>4, <1>10, <2>1
  <1>13. Rewritten(n, R, S, p, mode)
    BY <1>11, <1>12 DEF Rewritten, new, old, m
  <1>14. IsPrefix(Shows(R), Shows(S))
    <2>1. CASE mode = "sweep"
      <3>1. Rewritten(n, R, S, p, "sweep")
        BY <1>13, <2>1
      <3>. QED BY <1>1, <1>4, <3>1, SweepListing
    <2>2. CASE mode = "compact"
      <3>1. Rewritten(n, R, S, p, "compact")
        BY <1>13, <2>2
      <3>. QED BY <1>1, <1>4, <3>1, CompactListing
    <2>. QED BY <1>1, <2>1, <2>2
  <1>15. ASSUME q.from = D[1], NEW s \in ToSet(D)
         PROVE  \/ IsLive(after[s]) \/ after[s] = Blank
                \/ mode = "sweep" /\ after[s].holds = Nothing
    <2>1. PICK i \in 1 .. n : s = D[i]
      BY <1>4, <1>15 DEF ToSet, Distinct, n
    <2>2. p = 1
      <3>1. 1 \in 1 .. n
        BY <1>1, <1>4
      <3>. QED BY <1>1, <1>2, <1>5, <1>15, <3>1
    <2>3. i \in 1 .. m /\ after[s] = new[i]
      <3>1. i >= p /\ i - p + 1 = i
        BY <2>2
      <3>. QED BY <1>4, <1>6, <1>11, <2>1, <3>1
    <2>4. CASE mode = "sweep"
      <3>1. new = Sweep(old)
        BY <2>4 DEF new, LayoutDirectory
      <3>2. IsLive(old[i]) => new[i] = old[i]
        BY <1>6, <1>8, <2>3, <3>1, SweepFacts
      <3>3. ~IsLive(old[i]) => new[i].holds = Nothing
        BY <1>6, <1>8, <2>3, <3>1, SweepFacts
      <3>. QED BY <2>3, <2>4, <3>2, <3>3
    <2>5. CASE mode = "compact"
      <3>. DEFINE size == Cardinality(LiveAt(old))
      <3>1. new = Compact(old)
        BY <2>5 DEF new, LayoutDirectory
      <3>2. /\ size \in 0 .. m /\ \A k \in 1 .. size : IsLive(new[k])
            /\ \A k \in 1 .. m : k > size => new[k] = Blank
        BY <1>6, <1>8, <3>1, CompactFacts
      <3>. HIDE DEF size
      <3>3. i > size \/ i \in 1 .. size
        BY <1>6, <2>3, <3>2
      <3>. QED BY <2>3, <3>2, <3>3
    <2>. QED BY <1>1, <2>4, <2>5
  <1>. QED BY <1>1, <1>4, <1>14, <1>15 DEF Harmless, D, after

\* The record after a file's last one, when the directory goes on there.
LEMMA AfterFacts ==
    ASSUME volume \in Volumes,
           NEW a \in 1 .. Len(DirSlots(volume)), NEW b \in 1 .. Len(DirSlots(volume)),
           b = a \/ b = a + 1,
           OnTheDisk(DirSlots(volume), After({DirSlots(volume)[a], DirSlots(volume)[b]})),
           b + 1 \in 1 .. Len(DirSlots(volume))
    PROVE  After({DirSlots(volume)[a], DirSlots(volume)[b]}) = DirSlots(volume)[b + 1]
  <1>. DEFINE D == DirSlots(volume)
              n == Len(D)
              last == After({D[a], D[b]}) - 1
  <1>1. /\ D \in Seq(Slot) /\ n \in Nat /\ a \in 1 .. n /\ b \in 1 .. n
        /\ \A i, j \in 1 .. n : D[i] = D[j] => i = j
    BY DirFacts
  <1>2. \A i \in 1 .. n : D[i] \in Nat
    <2>1. \A s \in Slot : s \in Nat
      BY DEF Slot
    <2>. HIDE DEF D
    <2>. QED BY <1>1, <2>1
  <1>. DEFINE set == {D[a], D[b]}
              top == CHOOSE s \in set : \A t \in set : t <= s
  <1>3. top \in set /\ D[a] <= top /\ D[b] <= top
    <2>1. \E s \in set : \A t \in set : t <= s
      <3>1. D[a] <= D[b] \/ D[b] <= D[a]
        BY <1>2
      <3>2. D[a] <= D[a] /\ D[b] <= D[b]
        BY <1>2
      <3>. HIDE DEF D
      <3>. QED BY <3>1, <3>2
    <2>. HIDE DEF D
    <2>. QED BY <2>1
  <1>4. After(set) = top + 1
    BY DEF After
  <1>. HIDE DEF D, top
  <1>5. \A i \in 1 .. n - 1 : D[i] + 1 = top + 1 => D[i + 1] = top + 1
    BY <1>4 DEF OnTheDisk, D
  <1>6. top = D[b]
    <2>. SUFFICES ASSUME top # D[b] PROVE FALSE
      OBVIOUS
    <2>1. top = D[a] /\ b = a + 1
      BY <1>3
    <2>3. a \in 1 .. n - 1
      <3>. HIDE DEF n
      <3>. QED BY <1>1, <2>1
    <2>2. D[b] = D[a] + 1
      BY <1>5, <2>1, <2>3
    <2>. QED BY <1>1, <1>2, <1>3, <2>1, <2>2
  <1>7. b \in 1 .. n - 1
    BY <1>1 DEF D
  <1>8. D[b + 1] = top + 1
    BY <1>5, <1>6, <1>7
  <1>. QED BY <1>4, <1>8 DEF D

\* What in_use_after finds: no answer "no" when a listed record follows.
LEMMA ListedBehind ==
    ASSUME TypeOK, volume \in Volumes, rec \in [Slot -> Record], Fresh,
           NEW lost, NEW refused, Complete(lost),
           NEW b \in 1 .. Len(DirSlots(volume)), b + 1 \in 1 .. Len(DirSlots(volume)),
           NEW j \in Listed(Contents(DirSlots(volume), rec)), b < j
    PROVE  InUseAfter(DirSlots(volume)[b + 1], refused, lost)
  <1>. DEFINE D == DirSlots(volume)
              n == Len(D)
              R == Contents(D, rec)
              start == D[b + 1]
              slots == RunsFrom(volume.fat, start, lost)
              C == Contents(slots, View)
  <1>1. /\ Distinct(D) /\ n \in Nat /\ R \in [1 .. n -> Record]
        /\ \A i \in 1 .. n : D[i] \in Slot /\ R[i] = rec[D[i]]
    BY DirRecords
  <1>2. volume.chained \/ Len(volume.dir) <= 1
    <2>1. volume.dir \in Seq(Cluster)
      BY VolumesAssumption
    <2>2. \A i \in 1 .. Len(volume.dir) - 1 : volume.chained
      BY DEF Complete
    <2>3. 1 \in 1 .. Len(volume.dir) - 1 \/ Len(volume.dir) <= 1
      BY <2>1
    <2>. QED BY <2>2, <2>3
  <1>3. /\ IsSlice(slots, D, b + 1)
        /\ (Len(volume.dir) <= MaxClusters
              /\ \A i \in 1 .. Len(volume.dir) - 1 : volume.dir[i] \notin lost)
            => Len(slots) = Len(D) - (b + 1) + 1
    BY <1>2, RunsAreSlice DEF Complete, NoStaleLink
  <1>4. /\ Len(slots) = Len(D) - (b + 1) + 1 /\ slots \in Seq(Slot)
        /\ \A i \in 1 .. Len(slots) : slots[i] = D[(b + 1) + i - 1]
    BY <1>3 DEF Complete, IsSlice
  <1>5. Distinct(slots)
    BY RunsDistinct
  <1>. HIDE DEF slots
  <1>6. C \in [1 .. Len(slots) -> Record] /\ \A i \in 1 .. Len(slots) : C[i] = View[slots[i]]
    BY <1>5, ViewTyped, RecordsRead
  <1>7. j \in 1 .. n /\ IsLive(R[j]) /\ \A i \in 1 .. j : ~IsFree(R[i])
    <2>. HIDE DEF R
    <2>. QED BY <1>1, ListedFacts DEF R
  <1>. DEFINE k == j - b
  <1>8. Len(slots) = n - b /\ Len(slots) \in Nat /\ k \in 1 .. n - b /\ b + k = j
    <2>1. Len(slots) = Len(D) - (b + 1) + 1 /\ j \in 1 .. n /\ IsLive(R[j])
      BY <1>4, <1>7
    <2>2. n \in Nat /\ Len(D) = n /\ b + 1 \in 1 .. n /\ b \in Int /\ b + 1 <= j
      BY <1>1, <1>7
    <2>. HIDE DEF n, D, R, C
    <2>. QED BY ONLY <2>1, <2>2 DEF k
  <1>9. \A i \in 1 .. Len(slots) : C[i] = R[b + i] /\ b + i \in 1 .. n
    <2>. SUFFICES ASSUME NEW i \in 1 .. Len(slots) PROVE C[i] = R[b + i] /\ b + i \in 1 .. n
      OBVIOUS
    <2>1. b + i \in 1 .. n /\ (b + 1) + i - 1 = b + i
      <3>1. b \in 1 .. n
        OBVIOUS
      <3>. DEFINE l == Len(slots)
      <3>2. l = n - b /\ n \in Nat /\ i \in 1 .. l
        BY <1>1, <1>8
      <3>. HIDE DEF n, l
      <3>. QED BY ONLY <3>1, <3>2
    <2>2. slots[i] = D[b + i]
      BY <1>4, <2>1
    <2>3. View[D[b + i]] = rec[D[b + i]]
      BY <2>1, FreshView
    <2>. QED BY <1>1, <1>6, <2>1, <2>2, <2>3
  <1>. HIDE DEF C, D, R, n
  <1>10. \A i \in 1 .. k : i \in 1 .. Len(slots) /\ b + i \in 1 .. j
    BY <1>1, <1>7, <1>8
  <1>11. IsLive(C[k]) /\ \A i \in 1 .. k : ~IsFree(C[i])
    <2>1. k \in 1 .. k /\ C[k] = R[j]
      BY <1>8, <1>9
    <2>2. \A i \in 1 .. k : ~IsFree(C[i])
      BY <1>7, <1>9, <1>10
    <2>. QED BY <1>7, <2>1, <2>2
  <1>12. k \in Listed(C)
    <2>1. k \in 1 .. Len(slots)
      BY <1>8
    <2>. HIDE DEF k
    <2>. QED BY <1>6, <1>8, <1>11, <2>1, ListedFacts
  <1>13. Listed(Contents(RunsFrom(volume.fat, D[b + 1], lost), View)) # {}
    BY <1>12 DEF C, slots
  <1>. QED BY <1>13 DEF InUseAfter, D

LEMMA RecordsHarmless ==
    ASSUME TypeOK, volume \in Volumes, rec \in [Slot -> Record], Fresh, NEW q, TypedEdits(q.edits),
           NEW set, NEW fill, NEW refused, NEW lost,
           FromRecords(q, set, fill, refused, lost), Complete(lost)
    PROVE  Harmless(q)
  <1>. DEFINE D == DirSlots(volume)
              n == Len(D)
              after == Patched(rec, q.edits)
              R == Contents(D, rec)
              S == Contents(D, after)
  <1>1. /\ set \in FileSets /\ fill \in {"neutral", "zero"} /\ q.mode = fill /\ q.set = set
        /\ \A s \in set : rec[s].mark = "deleted"
        /\ DOMAIN q.edits = {s \in set : Filled(rec[s], fill) # rec[s]}
        /\ \A s \in DOMAIN q.edits : q.edits[s] = [old |-> rec[s], new |-> Filled(rec[s], fill)]
        /\ q.warned = InUseAfter(After(set), refused, lost)
    <2>1. /\ set \in FileSets /\ fill \in {"neutral", "zero"} /\ q.mode = fill /\ q.set = set
          /\ \A s \in set : View[s].mark = "deleted"
          /\ DOMAIN q.edits = {s \in set : Filled(View[s], fill) # View[s]}
          /\ \A s \in DOMAIN q.edits : q.edits[s] = [old |-> View[s], new |-> Filled(View[s], fill)]
          /\ q.warned = InUseAfter(After(set), refused, lost)
      BY DEF FromRecords
    <2>2. \A s \in set : View[s] = rec[s]
      BY <2>1, FreshView, FileSetFacts
    <2>3. DOMAIN q.edits = {s \in set : Filled(rec[s], fill) # rec[s]}
      BY <2>1, <2>2
    <2>4. \A s \in DOMAIN q.edits : q.edits[s] = [old |-> rec[s], new |-> Filled(rec[s], fill)]
      BY <2>1, <2>2, <2>3
    <2>. QED BY <2>1, <2>2, <2>3, <2>4
  <1>2. after \in [Slot -> Record]
    BY AfterTyped
  <1>3. \A s \in Slot : after[s] = IF s \in set THEN Filled(rec[s], fill) ELSE rec[s]
    <2>. SUFFICES ASSUME NEW s \in Slot
                  PROVE after[s] = IF s \in set THEN Filled(rec[s], fill) ELSE rec[s]
      OBVIOUS
    <2>1. after[s] = IF s \in DOMAIN q.edits THEN q.edits[s].new ELSE rec[s]
      BY DEF Patched
    <2>2. CASE s \in DOMAIN q.edits
      <3>1. q.edits[s].new = Filled(rec[s], fill)
        <4>1. q.edits[s] = [old |-> rec[s], new |-> Filled(rec[s], fill)]
          BY <1>1, <2>2
        <4>. QED BY <4>1
      <3>. QED BY <1>1, <2>1, <2>2, <3>1
    <2>3. CASE s \notin DOMAIN q.edits
      BY <1>1, <2>1, <2>3
    <2>. QED BY <2>2, <2>3
  <1>. HIDE DEF after
  <1>4. /\ n \in Nat /\ R \in [1 .. n -> Record] /\ S \in [1 .. n -> Record]
        /\ \A i \in 1 .. n : D[i] \in Slot /\ R[i] = rec[D[i]] /\ S[i] = after[D[i]]
        /\ Listing(volume, rec) = Shows(R) /\ Listing(volume, after) = Shows(S)
    BY <1>2, DirRecords
  <1>5. PICK a \in 1 .. n : \E b \in 1 .. n : set = {D[a], D[b]} /\ (b = a \/ b = a + 1)
    BY <1>1, FileSetFacts
  <1>6. PICK b \in 1 .. n : set = {D[a], D[b]} /\ (b = a \/ b = a + 1)
    BY <1>5
  <1>7. \A i, j \in 1 .. n : D[i] = D[j] => i = j
    BY DirFacts
  <1>. HIDE DEF D, R, S, n
  <1>8. \A i \in 1 .. n : D[i] \in set <=> i = a \/ i = b
    BY <1>6, <1>7
  <1>9. ASSUME NEW i \in 1 .. n
        PROVE  IF i = a \/ i = b THEN R[i].mark = "deleted" /\ S[i] = Filled(R[i], fill)
                                 ELSE S[i] = R[i]
    BY <1>1, <1>3, <1>4, <1>8
  <1>10. Blank.mark = "free"
    BY DEF Blank
  <1>11. \A r : Neutral(r).mark = r.mark
    BY DEF Neutral
  <1>12. ASSUME NEW i \in 1 .. n
         PROVE  /\ IsLive(R[i]) => S[i] = R[i]
                /\ ~IsLive(R[i]) => ~IsLive(S[i])
                /\ IsFree(R[i]) => IsFree(S[i])
    BY <1>9, <1>10, <1>11 DEF Filled, IsLive, IsFree
  <1>13. CASE fill = "neutral"
    <2>1. ASSUME NEW i \in 1 .. n, ~IsFree(R[i]) PROVE ~IsFree(S[i])
      BY <1>9, <1>11, <1>13, <2>1 DEF Filled, IsFree
    <2>2. \A j \in Listed(R) : \A i \in 1 .. j : ~IsFree(S[i])
      <3>. SUFFICES ASSUME NEW j \in Listed(R), NEW i \in 1 .. j PROVE ~IsFree(S[i])
        OBVIOUS
      <3>1. j \in 1 .. n /\ \A h \in 1 .. j : ~IsFree(R[h])
        BY <1>4, ListedFacts
      <3>2. i \in 1 .. n
        BY <1>4, <3>1
      <3>. QED BY <2>1, <3>1, <3>2
    <2>3. IsPrefix(Shows(R), Shows(S))
      BY <1>4, <1>12, <2>2, SameListing
    <2>. QED BY <1>1, <1>4, <1>13, <2>3 DEF Harmless, after
  <1>14. CASE fill = "zero"
    <2>1. ASSUME ~InUseAfter(After(set), refused, lost), OnTheDisk(D, After(set))
          PROVE  Shows(S) = Shows(R)
      <3>1. ASSUME NEW j \in Listed(R), NEW i \in 1 .. j PROVE ~IsFree(S[i])
        <4>1. j \in 1 .. n /\ IsLive(R[j]) /\ \A h \in 1 .. j : ~IsFree(R[h])
          BY <1>4, ListedFacts
        <4>2. i \in 1 .. n
          BY <1>4, <4>1
        <4>3. CASE i = a \/ i = b
          <5>1. j # a /\ j # b
            BY <1>9, <4>1 DEF IsLive
          <5>2. b < j /\ b + 1 \in 1 .. n
            BY <1>4, <1>6, <4>1, <4>3, <5>1
          <5>3. After({D[a], D[b]}) = D[b + 1]
            BY <1>6, <2>1, <5>2, AfterFacts DEF D, n
          <5>4. InUseAfter(D[b + 1], refused, lost)
            BY <5>2, ListedBehind DEF D, R, n
          <5>. QED BY <1>6, <2>1, <5>3, <5>4
        <4>4. CASE ~(i = a \/ i = b)
          BY <1>9, <4>1, <4>2, <4>4
        <4>. QED BY <4>3, <4>4
      <3>. QED BY <1>4, <1>12, <3>1, SameListing
    <2>. QED BY <1>1, <1>4, <1>14, <2>1 DEF Harmless, after, D
  <1>. QED BY <1>1, <1>13, <1>14

\* The plan at hand harms nothing, as long as nothing is written and what was read of the
\* directory is what is there.
PlanHarmless == phase # "idle" /\ Undisturbed => Harmless(plan) /\ Fresh

LEMMA NextHarmless ==
    ASSUME TypeOK, PlanHarmless, [Next]_vars
    PROVE  PlanHarmless'
  <1>1. CASE Scrub
    <2>1. /\ UNCHANGED <<volume, rec, cached, changes>> /\ volume \in Volumes
          /\ rec \in [Slot -> Record]
      BY <1>1, ScrubOffers DEF TypeOK
    <2>2. TypedEdits(plan'.edits)
      BY <1>1, PlanTyped
    <2>3. plan'.complete /\ plan'.fresh => Harmless(plan') /\ Fresh
      <3>1. CASE \E slots, p, lost, from, mode : FromDirectory(plan', slots, p, lost, from, mode)
        <4>1. PICK slots, p, lost, from, mode : FromDirectory(plan', slots, p, lost, from, mode)
          BY <3>1
        <4>2. plan'.complete = Complete(lost) /\ plan'.fresh = Fresh
          BY <4>1 DEF FromDirectory
        <4>. QED BY <2>1, <2>2, <4>1, <4>2, DirectoryHarmless
      <3>2. CASE \E set, fill, refused, lost : FromRecords(plan', set, fill, refused, lost)
        <4>1. PICK set, fill, refused, lost : FromRecords(plan', set, fill, refused, lost)
          BY <3>2
        <4>2. plan'.complete = Complete(lost) /\ plan'.fresh = Fresh
          BY <4>1 DEF FromRecords
        <4>. QED BY <2>1, <2>2, <4>1, <4>2, RecordsHarmless
      <3>. QED BY <1>1, <3>1, <3>2, ScrubOffers
    <2>4. (Harmless(plan)' <=> Harmless(plan')) /\ (Fresh' <=> Fresh)
      BY <2>1 DEF Harmless, Fresh, Stale, View
    <2>. QED BY <2>3, <2>4 DEF PlanHarmless, Undisturbed
  <1>2. CASE Stage
    <2>1. CASE Forget
      BY <2>1 DEF Forget, PlanHarmless
    <2>2. CASE ~Forget
      <3>1. /\ phase = "popup" /\ \E b : plan' = [plan EXCEPT !.checked = b]
            /\ UNCHANGED <<volume, rec, cached, changes>>
        BY <1>2, <2>2 DEF Stage
      <3>2. /\ plan'.mode = plan.mode /\ plan'.from = plan.from /\ plan'.edits = plan.edits
            /\ plan'.set = plan.set /\ plan'.warned = plan.warned /\ plan'.made = plan.made
            /\ plan'.complete = plan.complete /\ plan'.fresh = plan.fresh
        BY <3>1, Marked
      <3>3. Undisturbed' <=> Undisturbed
        BY <3>1, <3>2 DEF Undisturbed
      <3>4. Fresh' <=> Fresh
        BY <3>1 DEF Fresh, Stale, View
      <3>5. Harmless(plan)' <=> Harmless(plan)
        BY <3>1, <3>2 DEF Harmless
      <3>. QED BY <3>1, <3>3, <3>4, <3>5 DEF PlanHarmless
    <2>. QED BY <2>1, <2>2
  <1>3. CASE Cancel \/ Commit
    BY <1>3 DEF Cancel, Commit, Forget, PlanHarmless
  <1>4. CASE DriverDelete \/ DriverCreate
    <2>1. changes' = changes + 1 /\ UNCHANGED plan
      BY <1>4 DEF DriverDelete, DriverCreate
    <2>2. ~(plan.made = changes + 1)
      BY DEF TypeOK
    <2>. QED BY <2>1, <2>2 DEF PlanHarmless, Undisturbed
  <1>5. CASE UNCHANGED vars
    BY <1>5 DEF vars, PlanHarmless, Undisturbed, Harmless, Fresh, Stale, View
  <1>6. CASE Load \/ GiveUp
    <2>1. UNCHANGED <<volume, rec, phase, plan, changes>>
      BY <1>6 DEF Load, GiveUp
    <2>2. (Undisturbed' <=> Undisturbed) /\ (Harmless(plan)' <=> Harmless(plan))
      BY <2>1 DEF Undisturbed, Harmless
    <2>3. Fresh => Fresh'
      BY <1>6, StaysFresh
    <2>. QED BY <2>1, <2>2, <2>3 DEF PlanHarmless
  <1>. QED BY <1>1, <1>2, <1>3, <1>4, <1>5, <1>6 DEF Next

LEMMA CommitHarmless ==
    ASSUME TypeOK, PlanHarmless, [Next]_vars, Committing, Undisturbed
    PROVE  LET after == Patched(rec, plan.edits)
           IN  /\ Harmless(plan)
               /\ Listing(volume, rec') = Listing(volume, after)
               /\ \A s \in ToSet(DirSlots(volume)) : rec'[s] = after[s]
  <1>. DEFINE D == DirSlots(volume)
              after == Patched(rec, plan.edits)
  <1>1. Commit
    BY OnlyCommit
  <1>2. Harmless(plan) /\ Fresh /\ volume \in Volumes
    BY <1>1 DEF Commit, PlanHarmless, TypeOK
  <1>3. D \in Seq(Slot)
    BY <1>2, DirFacts
  <1>4. ASSUME NEW i \in 1 .. Len(D) PROVE rec'[D[i]] = after[D[i]]
    <2>1. D[i] \in Slot
      BY <1>3
    <2>2. View[D[i]] = rec[D[i]]
      BY <1>2, FreshView
    <2>. HIDE DEF D
    <2>. QED BY <1>1, <2>1, <2>2 DEF Commit, Written, Patched
  <1>5. DOMAIN D = 1 .. Len(D)
    BY <1>3
  <1>. HIDE DEF D, after
  <1>6. \A s \in ToSet(D) : rec'[s] = after[s]
    BY <1>4, <1>5 DEF ToSet
  <1>7. Contents(D, rec') = Contents(D, after)
    BY <1>4, <1>5 DEF Contents
  <1>8. Listing(volume, rec') = Listing(volume, after)
    BY <1>7 DEF Listing, D
  <1>. QED BY <1>2, <1>6, <1>8 DEF D, after

\* As core/scrub.rs promises, of a plan made from what the directory holds: what a driver
\* lists is listed still after a sweep, a compaction or a neutral fill, first and in the
\* same order; a zero fill that was offered without a warning changes nothing of it.
THEOREM ListingStays == Spec => ListingKept
  <1>1. Init => PlanHarmless
    BY DEF Init, PlanHarmless
  <1>2. TypeOK /\ PlanHarmless /\ [Next]_vars => PlanHarmless'
    BY NextHarmless
  <1>. DEFINE Kept == Committing /\ Undisturbed =>
                 /\ plan.mode # "zero" => IsPrefix(Listing(volume, rec), Listing(volume, rec'))
                 /\ (plan.mode = "zero" /\ ~plan.warned
                       /\ OnTheDisk(DirSlots(volume), After(plan.set)))
                       => Listing(volume, rec') = Listing(volume, rec)
  <1>3. TypeOK /\ PlanHarmless /\ [Next]_vars => [Kept]_vars
    BY CommitHarmless DEF Harmless
  <1>4. Init /\ []TypeOK /\ [][Next]_vars => [][Kept]_vars
    BY <1>1, <1>2, <1>3, PTL
  <1>. QED BY <1>4, TypeCorrect, PTL DEF Spec, ListingKept

\* A sweep or a compaction that began at the first record of the directory, and was planned
\* from what it holds, leaves nothing of a record that is not in use.
THEOREM NothingIsLeft == Spec => ResidueGone
  <1>1. Init => PlanHarmless
    BY DEF Init, PlanHarmless
  <1>2. TypeOK /\ PlanHarmless /\ [Next]_vars => PlanHarmless'
    BY NextHarmless
  <1>. DEFINE Gone == Committing /\ Undisturbed /\ DirectoryWide /\ plan.from = DirSlots(volume)[1] =>
                 \A s \in ToSet(DirSlots(volume)) :
                     \/ IsLive(rec'[s]) \/ rec'[s] = Blank
                     \/ plan.mode = "sweep" /\ rec'[s].holds = Nothing
  <1>3. TypeOK /\ PlanHarmless /\ [Next]_vars => [Gone]_vars
    <2>. SUFFICES ASSUME TypeOK, PlanHarmless, [Next]_vars, Committing, Undisturbed,
                         DirectoryWide, plan.from = DirSlots(volume)[1],
                         NEW s \in ToSet(DirSlots(volume))
                  PROVE  \/ IsLive(rec'[s]) \/ rec'[s] = Blank
                         \/ plan.mode = "sweep" /\ rec'[s].holds = Nothing
      OBVIOUS
    <2>. DEFINE after == Patched(rec, plan.edits)
    <2>1. Harmless(plan) /\ rec'[s] = after[s]
      BY CommitHarmless
    <2>2. \/ IsLive(after[s]) \/ after[s] = Blank
          \/ plan.mode = "sweep" /\ after[s].holds = Nothing
      BY <2>1 DEF Harmless, DirectoryWide
    <2>. HIDE DEF after
    <2>. QED BY <2>1, <2>2
  <1>4. Init /\ []TypeOK /\ [][Next]_vars => [][Gone]_vars
    BY <1>1, <1>2, <1>3, PTL
  <1>. QED BY <1>4, TypeCorrect, PTL DEF Spec, ResidueGone

---------------------------------------------------------------------------
(* The default mode stays on offer.                                        *)

\* No directory is cut off by the limits of the scan.
WithinLimits == \A v \in Volumes : Len(v.dir) <= MaxClusters /\ Len(DirSlots(v)) <= MaxRecords

\* With nothing lost and no stale link to lead on, a scan from the first record reads the
\* directory's records and nothing else.
LEMMA FrontOfRuns ==
    ASSUME WithinLimits, volume \in Volumes, Shown({}) # {}, NoStaleLink
    PROVE  LET D == DirSlots(volume)
               runs == RunsFrom(volume.fat, D[1], {})
           IN  /\ Len(D) \in Nat /\ Distinct(runs)
               /\ \A i \in 1 .. Len(D) : i \in 1 .. Len(runs) /\ runs[i] = D[i]
               /\ \A i \in 1 .. Len(runs) : i \in 1 .. Len(D)
  <1>. DEFINE D == DirSlots(volume)
              runs == RunsFrom(volume.fat, D[1], {})
              row == volume.dir
  <1>0. PICK from \in Shown({}) : TRUE
    OBVIOUS
  <1>1. row \in Seq(Cluster) /\ (volume.chained \/ Len(row) <= 1)
    BY <1>0, ShownInside, VolumesAssumption
  <1>2. D \in Seq(Slot) /\ Len(D) \in Nat /\ 1 \in 1 .. Len(D)
    <2>1. \E p \in 1 .. Len(D) : D[p] = from
      BY <1>0, ShownInside
    <2>2. D \in Seq(Slot)
      BY DirFacts
    <2>. HIDE DEF D
    <2>. QED BY <2>1, <2>2
  <1>3. Distinct(runs)
    BY <1>2, RunsDistinct
  <1>4. /\ IsSlice(runs, D, 1)
        /\ (Len(row) <= MaxClusters /\ \A i \in 1 .. Len(row) - 1 : row[i] \notin {})
            => Len(runs) = Len(D) - 1 + 1
    BY <1>1, <1>2, RunsAreSlice DEF NoStaleLink
  <1>5. Len(runs) = Len(D) - 1 + 1 /\ \A i \in 1 .. Len(runs) : runs[i] = D[1 + i - 1]
    BY <1>4 DEF WithinLimits, IsSlice
  <1>. HIDE DEF D, runs
  <1>6. Len(runs) = Len(D) /\ \A i \in 1 .. Len(runs) : 1 + i - 1 = i
    BY <1>2, <1>5
  <1>. QED BY <1>2, <1>3, <1>5, <1>6 DEF D, runs

LEMMA CompactAlways ==
    ASSUME WithinLimits, TypeOK
    PROVE  CompactStaysAvailable
  <1>. DEFINE D == DirSlots(volume)
              runs == RunsFrom(volume.fat, D[1], {})
              P == {i \in DOMAIN runs : i <= MaxRecords \/ BeginsRun(runs, i)}
              slots == SlotsRead(volume.fat, D[1], {})
              records == Contents(slots, View)
              edits == Changed(slots, records, Compact(records))
              shown == Contents(D, View)
  <1>. SUFFICES ASSUME /\ Shown({}) # {} /\ NoStaleLink
                       /\ \E i \in DOMAIN D : shown[i].mark = "deleted"
                       /\ ~ \E i \in DOMAIN D : Tombstone(shown[i]) \/ StreamExtension(shown[i])
                PROVE  DirectoryPlan(D[1], "compact", {}, {}) # NoPlan
    BY DEF CompactStaysAvailable
  <1>0. \A i \in DOMAIN D : shown[i] = View[D[i]]
    BY DEF Contents
  <1>. HIDE DEF shown
  <1>1. volume \in Volumes /\ View \in [Slot -> Record]
    BY ViewTyped DEF TypeOK
  <1>2. /\ Len(D) \in Nat /\ Distinct(runs)
        /\ \A i \in 1 .. Len(D) : i \in 1 .. Len(runs) /\ runs[i] = D[i]
        /\ \A i \in 1 .. Len(runs) : i \in 1 .. Len(D)
    BY <1>1, FrontOfRuns
  <1>3. DOMAIN D = 1 .. Len(D) /\ Len(D) <= MaxRecords
    BY <1>1, DirFacts DEF WithinLimits
  <1>4. slots = Only(runs, P)
    BY DEF SlotsRead
  <1>. HIDE DEF D, runs, slots
  <1>5. P \in SUBSET (1 .. Len(runs)) /\ Len(runs) \in Nat
    BY <1>2 DEF Distinct
  <1>6. \A i \in 1 .. Len(D) : i \in P
    BY <1>2, <1>3, <1>5 DEF Distinct
  <1>. HIDE DEF P
  <1>7. Distinct(slots) /\ \A k \in 1 .. Len(slots) : \E i \in 1 .. Len(runs) : slots[k] = runs[i]
    <2>1. Distinct(runs)
      BY <1>2
    <2>2. P \in SUBSET (1 .. Len(runs))
      BY <1>5
    <2>3. Distinct(Only(runs, P)) /\ \A k \in 1 .. Len(Only(runs, P)) :
             \E i \in 1 .. Len(runs) : Only(runs, P)[k] = runs[i]
      BY ONLY <2>1, <2>2, OnlyDistinct
    <2>. QED BY <1>4, <2>3
  <1>8. /\ Len(slots) \in Nat /\ records \in [1 .. Len(slots) -> Record]
        /\ \A k \in 1 .. Len(slots) : records[k] = View[slots[k]]
    BY <1>1, <1>7, RecordsRead
  <1>9. PICK i \in 1 .. Len(D) : View[D[i]].mark = "deleted"
    BY <1>0, <1>3
  <1>10. PICK k \in 1 .. Len(slots) : slots[k] = D[i]
    <2>1. DOMAIN slots = 1 .. Cardinality(P)
      BY <1>4, <1>5, OnlyFacts
    <2>2. DOMAIN slots = 1 .. Len(slots)
      BY <1>7 DEF Distinct
    <2>3. i \in P
      BY <1>6
    <2>4. Rank(P, i) \in 1 .. Cardinality(P) /\ Nth(P, Rank(P, i)) = i
      BY <1>5, <2>3, RankFacts, NthFacts
    <2>5. slots[Rank(P, i)] = runs[i]
      BY <1>4, <2>4 DEF Only
    <2>. QED BY <1>2, <2>1, <2>2, <2>4, <2>5
  <1>11. records[k].mark = "deleted"
    BY <1>8, <1>9, <1>10
  <1>12. Compact(records)[k] # records[k]
    <2>. DEFINE size == Cardinality(LiveAt(records))
    <2>1. /\ size \in 0 .. Len(slots)
          /\ \A h \in 1 .. size : IsLive(Compact(records)[h])
          /\ \A h \in 1 .. Len(slots) : h > size => Compact(records)[h] = Blank
      <3>. HIDE DEF records
      <3>. QED BY <1>8, CompactFacts
    <2>. HIDE DEF size
    <2>2. k \in 1 .. size \/ k > size
      BY <1>8, <2>1
    <2>3. Compact(records)[k].mark # "deleted"
      BY <2>1, <2>2 DEF IsLive, Blank
    <2>. QED BY <1>11, <2>3
  <1>13. slots[k] \in DOMAIN edits
    <2>1. EditsOf(edits, slots, records, Compact(records))
      BY <1>7, ChangedFacts
    <2>. HIDE DEF edits, records
    <2>. QED BY <1>12, <2>1 DEF EditsOf
  <1>14. LooksLikeDirectory(records)
    <2>. DEFINE used == {h \in DOMAIN records : ~IsFree(records[h])}
    <2>1. k \in used
      BY <1>8, <1>11 DEF IsFree
    <2>2. ASSUME NEW h \in used PROVE Plausible(records[h])
      <3>1. h \in 1 .. Len(slots) /\ ~IsFree(records[h]) /\ records[h] = View[slots[h]]
        BY <1>8
      <3>2. PICK g \in 1 .. Len(runs) : slots[h] = runs[g]
        BY <1>7, <3>1
      <3>3. g \in 1 .. Len(D) /\ slots[h] = D[g]
        BY <1>2, <3>2
      <3>4. ~Tombstone(shown[g]) /\ ~StreamExtension(shown[g]) /\ shown[g] = View[D[g]]
        BY <1>0, <1>3, <3>3
      <3>5. volume.format \in {"fat", "exfat"} /\ records[h] \in Record
        BY <1>1, <1>8, <3>1, VolumesAssumption
      <3>6. records[h] = shown[g]
        BY <3>1, <3>3, <3>4
      <3>. QED BY <3>1, <3>4, <3>5, <3>6 DEF Tombstone, StreamExtension, Plausible, Record
    <2>. HIDE DEF records
    <2>. QED BY <2>1, <2>2 DEF LooksLikeDirectory
  <1>15. LayoutDirectory(records, "compact") = Compact(records)
    BY DEF LayoutDirectory
  <1>16. DirectoryPlan(D[1], "compact", {}, {})
            = [mode |-> "compact", from |-> D[1], edits |-> edits, set |-> {}, warned |-> FALSE,
               made |-> changes, complete |-> Complete({}), fresh |-> Fresh, checked |-> FALSE]
    BY <1>13, <1>14, <1>15 DEF DirectoryPlan, slots
  <1>17. DirectoryPlan(D[1], "compact", {}, {}).mode = "compact"
    BY <1>16
  <1>. QED BY <1>17, NoPlanFacts DEF D

\* The default mode of the scrub can always remove what is deleted in a directory within
\* the limits whose FAT leads nowhere from its end: no sequence of scrubs and driver acts
\* leads plan_directory to refuse it, but for the records looks_like_directory takes for
\* file data: on FAT one that was emptied, on exFAT any stream extension.
THEOREM CompactOffered ==
    ASSUME WithinLimits
    PROVE  Spec => []CompactStaysAvailable
  <1>1. TypeOK => CompactStaysAvailable
    BY CompactAlways
  <1>. QED BY <1>1, TypeCorrect, PTL

===========================================================================
