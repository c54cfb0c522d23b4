------------------------- MODULE Selection_proofs -------------------------
(***************************************************************************)
(* Induction over the numbers and over the turns of a loop, and what Only  *)
(* leaves of a sequence: the element of the place i is where its rank      *)
(* among the places says.                                                  *)
(***************************************************************************)
EXTENDS Selection, FiniteSetTheorems, WellFoundedInduction, TLAPS, Sequences

---------------------------------------------------------------------------
(* Numbers, and the elements of a sequence at some of its places.          *)

\* A set of numbers that has one, has a least one.
LEMMA LeastNumber ==
    ASSUME NEW S \in SUBSET Nat, S # {}
    PROVE  \E n \in S : \A m \in S : n <= m
  <1>1. PICK n \in S : \A m \in S : ~ (<<m, n>> \in OpToRel(<, Nat))
    BY NatLessThanWellFounded, WFMin
  <1>2. \A m \in S : ~ (m < n)
    BY <1>1 DEF OpToRel
  <1>. QED BY <1>2

\* Induction over the numbers, of a set.
LEMMA AllNumbers ==
    ASSUME NEW S, 0 \in S, \A n \in Nat : n \in S => n + 1 \in S
    PROVE  Nat \subseteq S
  <1>. DEFINE T == {n \in Nat : n \notin S}
  <1>. SUFFICES ASSUME T # {} PROVE FALSE
    OBVIOUS
  <1>1. PICK n \in T : \A m \in T : n <= m
    BY LeastNumber
  <1>2. n # 0 /\ n - 1 \in Nat /\ n - 1 \notin T
    BY <1>1
  <1>. QED BY <1>1, <1>2

\* f runs through the steps of a loop.
Runs(f, n, base, step) == f = [k \in 0 .. n |-> IF k = 0 THEN base ELSE step[k][f[k - 1]]]

\* A loop over 1 .. n that starts and stays in S can be run.
LEMMA LoopRuns ==
    ASSUME NEW n \in Nat, NEW S, NEW base \in S, NEW step \in [1 .. n -> [S -> S]]
    PROVE  \E f \in [0 .. n -> S] : Runs(f, n, base, step)
  <1>. DEFINE Some(m) == \E f \in [0 .. m -> S] : Runs(f, m, base, step)
              T == {m \in Nat : m <= n => Some(m)}
  <1>1. Some(0)
    <2>. DEFINE f == [k \in 0 .. 0 |-> base]
    <2>1. f \in [0 .. 0 -> S] /\ Runs(f, 0, base, step)
      BY DEF Runs
    <2>. QED BY <2>1
  <1>2. ASSUME NEW m \in Nat, m + 1 <= n, Some(m) PROVE Some(m + 1)
    <2>1. PICK f \in [0 .. m -> S] : Runs(f, m, base, step)
      BY <1>2
    <2>. DEFINE g == [k \in 0 .. m + 1 |-> IF k <= m THEN f[k] ELSE step[m + 1][f[m]]]
    <2>2. step[m + 1] \in [S -> S] /\ step[m + 1][f[m]] \in S
      BY <1>2
    <2>3. g \in [0 .. m + 1 -> S]
      BY <2>2
    <2>4. g[0] = base
      BY <2>1 DEF Runs
    <2>5. ASSUME NEW k \in 1 .. m + 1 PROVE g[k] = step[k][g[k - 1]]
      <3>1. CASE k <= m
        <4>1. k \in 0 .. m /\ k # 0 /\ k - 1 \in 0 .. m
          BY <3>1
        <4>2. f[k] = step[k][f[k - 1]]
          BY <2>1, <4>1 DEF Runs
        <4>. QED BY <4>1, <4>2
      <3>2. CASE k = m + 1
        <4>1. k - 1 = m /\ m \in 0 .. m + 1 /\ k \in 0 .. m + 1 /\ ~ (k <= m)
          BY <3>2
        <4>. QED BY <3>2, <4>1
      <3>. QED BY <3>1, <3>2
    <2>6. g = [k \in 0 .. m + 1 |-> g[k]]
      OBVIOUS
    <2>. HIDE DEF g
    <2>7. \A k \in 0 .. m + 1 : g[k] = IF k = 0 THEN base ELSE step[k][g[k - 1]]
      BY <2>4, <2>5
    <2>8. Runs(g, m + 1, base, step)
      BY <2>6, <2>7 DEF Runs
    <2>. QED BY <2>3, <2>8
  <1>. HIDE DEF Some
  <1>3. Nat \subseteq T
    <2>1. 0 \in T
      BY <1>1
    <2>2. \A m \in Nat : m \in T => m + 1 \in T
      BY <1>2
    <2>. QED BY ONLY <2>1, <2>2, AllNumbers
  <1>4. Some(n)
    BY <1>3
  <1>. QED BY <1>4 DEF Some

\* What each step of a loop keeps true holds at its end.
LEMMA LoopKeeps ==
    ASSUME NEW n \in Nat, NEW f, NEW Good, f[0] \in Good[0],
           \A k \in 1 .. n : f[k - 1] \in Good[k - 1] => f[k] \in Good[k]
    PROVE  f[n] \in Good[n]
  <1>. DEFINE T == {m \in Nat : m <= n => f[m] \in Good[m]}
  <1>1. 0 \in T
    OBVIOUS
  <1>2. \A m \in Nat : m \in T => m + 1 \in T
    <2>. SUFFICES ASSUME NEW m \in Nat, m \in T, m + 1 <= n PROVE f[m + 1] \in Good[m + 1]
      OBVIOUS
    <2>1. m + 1 \in 1 .. n /\ (m + 1) - 1 = m
      OBVIOUS
    <2>. QED BY <2>1
  <1>3. Nat \subseteq T
    BY ONLY <1>1, <1>2, AllNumbers
  <1>. QED BY <1>3

\* A loop each of whose steps takes what is good so far to what is good next can be run.
LEMMA LoopGood ==
    ASSUME NEW n \in Nat, NEW Good, NEW base \in Good[0], NEW step,
           \A k \in 1 .. n : \A a \in Good[k - 1] : step[k][a] \in Good[k]
    PROVE  \E f : Runs(f, n, base, step) /\ \A k \in 0 .. n : f[k] \in Good[k]
  <1>. DEFINE S == UNION {Good[k] : k \in 0 .. n}
              safe == [k \in 1 .. n |->
                          [a \in S |-> IF a \in Good[k - 1] THEN step[k][a] ELSE base]]
  <1>1. base \in S
    OBVIOUS
  <1>2. ASSUME NEW k \in 1 .. n, NEW a \in S
        PROVE  (IF a \in Good[k - 1] THEN step[k][a] ELSE base) \in S
    BY <1>1
  <1>3. safe \in [1 .. n -> [S -> S]]
    BY <1>2
  <1>4. \A k \in 1 .. n : \A a \in Good[k - 1] : safe[k][a] = step[k][a]
    <2>. SUFFICES ASSUME NEW k \in 1 .. n, NEW a \in Good[k - 1] PROVE safe[k][a] = step[k][a]
      OBVIOUS
    <2>1. k - 1 \in 0 .. n
      OBVIOUS
    <2>2. a \in S
      BY <2>1
    <2>. QED BY <2>2
  <1>. HIDE DEF S, safe
  <1>5. PICK f \in [0 .. n -> S] : Runs(f, n, base, safe)
    BY <1>1, <1>3, LoopRuns
  <1>6. f[0] = base /\ \A k \in 1 .. n : f[k] = safe[k][f[k - 1]]
    BY <1>5 DEF Runs
  <1>7. \A k \in 1 .. n : f[k - 1] \in Good[k - 1] => f[k] \in Good[k]
    BY <1>4, <1>6
  <1>8. ASSUME NEW m \in 0 .. n PROVE f[m] \in Good[m]
    <2>1. m \in Nat /\ \A k \in 1 .. m : k \in 1 .. n
      OBVIOUS
    <2>2. \A k \in 1 .. m : f[k - 1] \in Good[k - 1] => f[k] \in Good[k]
      BY <1>7, <2>1
    <2>3. f[0] \in Good[0]
      BY <1>6
    <2>. QED BY ONLY <2>1, <2>2, <2>3, LoopKeeps
  <1>9. \A k \in 1 .. n : f[k] = step[k][f[k - 1]]
    <2>. SUFFICES ASSUME NEW k \in 1 .. n PROVE f[k] = step[k][f[k - 1]]
      OBVIOUS
    <2>1. k - 1 \in 0 .. n
      OBVIOUS
    <2>. QED BY <1>4, <1>6, <1>8, <2>1
  <1>10. f = [k \in 0 .. n |-> IF k = 0 THEN base ELSE step[k][f[k - 1]]]
    <2>1. f = [k \in 0 .. n |-> f[k]]
      OBVIOUS
    <2>2. \A k \in 0 .. n : f[k] = IF k = 0 THEN base ELSE step[k][f[k - 1]]
      BY <1>6, <1>9
    <2>. QED BY <2>1, <2>2
  <1>. QED BY <1>8, <1>10 DEF Runs

---------------------------------------------------------------------------
(* Arithmetic.                                                             *)

LEMMA MulNat == \A m, n \in Nat : m * n \in Nat
OBVIOUS

LEMMA DivNat == \A m \in Nat, n \in Nat \ {0} : m \div n \in Nat
OBVIOUS

LEMMA Element ==
    ASSUME NEW S, NEW s \in Seq(S), NEW i \in Nat \ {0}, i <= Len(s)
    PROVE  i \in DOMAIN s /\ s[i] \in S
OBVIOUS

LEMMA Products ==
    ASSUME NEW m \in Nat, NEW n \in Nat, NEW k \in Nat, m <= n
    PROVE  m * k <= n * k /\ m * k \in Nat /\ n * k \in Nat
<1>1. PICK d \in Nat : n = m + d
  <2>1. n - m \in Nat OBVIOUS
  <2> QED BY <2>1
<1>2. n * k = m * k + d * k BY <1>1
<1>3. d * k \in Nat /\ m * k \in Nat BY <1>1, MulNat
<1> QED BY <1>2, <1>3

LEMMA DivMod ==
    ASSUME NEW q \in Nat, NEW p \in Nat \ {0}, NEW r \in 0 .. p - 1
    PROVE  (q * p + r) \div p = q /\ (q * p + r) % p = r
<1>1. q * p \in Nat BY MulNat
<1> QED BY <1>1

---------------------------------------------------------------------------
(* Places.                                                                 *)

\* The places of P up to i.
UpTo(P, i) == {j \in P : j <= i}
Rank(P, i) == Cardinality(UpTo(P, i))

LEMMA UpToFacts ==
    ASSUME NEW n \in Nat, NEW P \in SUBSET (1 .. n)
    PROVE  /\ \A i \in P : i \in 1 .. n /\ i \in Nat /\ i \in UpTo(P, i)
           /\ \A i \in P : UpTo(P, i) \subseteq P /\ UpTo(P, i) \subseteq 1 .. i
                         /\ UpTo(P, i) \subseteq 1 .. n
           /\ \A i, j \in P : j \in UpTo(P, i) <=> j <= i
  <1>1. \A i \in P : i \in 1 .. n /\ i \in Nat
    OBVIOUS
  <1>2. \A i \in P : i \in UpTo(P, i)
    BY <1>1 DEF UpTo
  <1>3. ASSUME NEW i \in P, NEW j \in UpTo(P, i)
        PROVE  j \in P /\ j \in 1 .. i /\ j \in 1 .. n
    BY <1>1 DEF UpTo
  <1>4. \A i, j \in P : j \in UpTo(P, i) <=> j <= i
    BY <1>1 DEF UpTo
  <1>. QED BY <1>1, <1>2, <1>3, <1>4

LEMMA RankFacts ==
    ASSUME NEW n \in Nat, NEW P \in SUBSET (1 .. n)
    PROVE  /\ IsFiniteSet(P) /\ Cardinality(P) \in Nat /\ Cardinality(P) <= n
           /\ \A i \in P : Rank(P, i) \in 1 .. Cardinality(P) /\ Rank(P, i) <= i
           /\ \A i, j \in P : i < j => Rank(P, i) < Rank(P, j)
  <1>1. IsFiniteSet(1 .. n) /\ Cardinality(1 .. n) = n
    BY FS_Interval
  <1>2. IsFiniteSet(P) /\ Cardinality(P) \in Nat /\ Cardinality(P) <= n
    BY <1>1, FS_Subset, FS_CardinalityType
  <1>3. ASSUME NEW i \in P
        PROVE  /\ IsFiniteSet(UpTo(P, i)) /\ Rank(P, i) \in Nat
               /\ Rank(P, i) <= Cardinality(P) /\ Rank(P, i) >= 1 /\ Rank(P, i) <= i
    <2>1. UpTo(P, i) \subseteq P /\ UpTo(P, i) \subseteq 1 .. i /\ i \in UpTo(P, i) /\ i \in 1 .. n
      BY UpToFacts
    <2>2. IsFiniteSet(UpTo(P, i)) /\ Rank(P, i) \in Nat /\ Rank(P, i) <= Cardinality(P)
      BY <1>2, <2>1, FS_Subset, FS_CardinalityType DEF Rank
    <2>3. Rank(P, i) <= i
      <3>1. IsFiniteSet(1 .. i) /\ Cardinality(1 .. i) = i
        BY <2>1, FS_Interval
      <3>. QED BY <2>1, <3>1, FS_Subset DEF Rank
    <2>4. Rank(P, i) # 0
      BY <2>1, <2>2, FS_EmptySet DEF Rank
    <2>. QED BY <2>2, <2>3, <2>4
  <1>4. ASSUME NEW i \in P, NEW j \in P, i < j
        PROVE  Rank(P, i) < Rank(P, j)
    <2>1. UpTo(P, i) \subseteq UpTo(P, j) /\ j \in UpTo(P, j) /\ j \notin UpTo(P, i)
      <3>1. i \in Nat /\ j \in Nat
        BY UpToFacts
      <3>2. ASSUME NEW h \in UpTo(P, i) PROVE h \in UpTo(P, j)
        <4>1. h \in P /\ h \in 1 .. i /\ h <= j
          BY <1>4, <3>1, UpToFacts
        <4>. QED BY <4>1, UpToFacts
      <3>. QED BY <1>4, <3>1, <3>2, UpToFacts
    <2>2. IsFiniteSet(UpTo(P, j)) /\ IsFiniteSet(UpTo(P, i))
      BY <1>3
    <2>3. Rank(P, i) <= Rank(P, j) /\ (Rank(P, i) = Rank(P, j) => UpTo(P, i) = UpTo(P, j))
      BY <2>1, <2>2, FS_Subset DEF Rank
    <2>4. Rank(P, i) \in Nat /\ Rank(P, j) \in Nat
      BY <1>3
    <2>. QED BY <2>1, <2>3, <2>4
  <1>. QED BY <1>2, <1>3, <1>4

\* The rank is one to one, so it is onto: there is a k-th place.
LEMMA NthFacts ==
    ASSUME NEW n \in Nat, NEW P \in SUBSET (1 .. n)
    PROVE  /\ \A k \in 1 .. Cardinality(P) : Nth(P, k) \in P /\ Rank(P, Nth(P, k)) = k
           /\ \A i \in P : Nth(P, Rank(P, i)) = i
  <1>. DEFINE size == Cardinality(P)
              rank == [i \in P |-> Rank(P, i)]
  <1>1. IsFiniteSet(P) /\ size \in Nat
    BY RankFacts
  <1>2. \A i, j \in P : Rank(P, i) = Rank(P, j) => i = j
    <2>. SUFFICES ASSUME NEW i \in P, NEW j \in P, i # j PROVE Rank(P, i) # Rank(P, j)
      OBVIOUS
    <2>1. i < j \/ j < i
      OBVIOUS
    <2>2. Rank(P, i) \in Nat /\ Rank(P, j) \in Nat
      BY RankFacts
    <2>. QED BY <2>1, <2>2, RankFacts
  <1>3. rank \in Injection(P, 1 .. size)
    <2>1. rank \in [P -> 1 .. size]
      BY RankFacts
    <2>2. \A i, j \in P : rank[i] = rank[j] => i = j
      BY <1>2
    <2>. QED BY <2>1, <2>2 DEF Injection, IsInjective
  <1>4. IsFiniteSet(1 .. size) /\ Cardinality(1 .. size) = Cardinality(P)
    BY <1>1, FS_Interval
  <1>5. rank \in Surjection(P, 1 .. size)
    BY <1>1, <1>3, <1>4, FS_Injection
  <1>6. ASSUME NEW k \in 1 .. size PROVE Nth(P, k) \in P /\ Rank(P, Nth(P, k)) = k
    <2>1. \E i \in P : Rank(P, i) = k
      BY <1>5 DEF Surjection
    <2>. QED BY <2>1 DEF Nth, Rank, UpTo
  <1>7. ASSUME NEW i \in P PROVE Nth(P, Rank(P, i)) = i
    <2>1. Rank(P, i) \in 1 .. size
      BY RankFacts
    <2>. QED BY <1>2, <1>6, <2>1
  <1>. QED BY <1>6, <1>7

\* All places of a sequence, in order, are the sequence.
LEMMA NthOfAll ==
    ASSUME NEW n \in Nat, NEW k \in 1 .. n
    PROVE  Nth(1 .. n, k) = k
  <1>1. UpTo(1 .. n, k) = 1 .. k
    BY DEF UpTo
  <1>2. Rank(1 .. n, k) = k
    BY <1>1, FS_Interval DEF Rank
  <1>3. 1 .. n \in SUBSET (1 .. n)
    OBVIOUS
  <1>4. Nth(1 .. n, Rank(1 .. n, k)) = k
    BY <1>3, NthFacts
  <1>. QED BY <1>2, <1>4

\* Places that correspond, in order and without a gap, have the same ranks.
InOrder(f, P, Q) ==
    /\ f \in [P -> Q]
    /\ \A i, j \in P : i < j => f[i] < f[j]
    /\ \A i \in P : \A j \in Q : j < f[i] => \E h \in P : f[h] = j

LEMMA SameRank ==
    ASSUME NEW n \in Nat, NEW P \in SUBSET (1 .. n), NEW Q \in SUBSET (1 .. n),
           NEW f, InOrder(f, P, Q)
    PROVE  \A i \in P : Rank(Q, f[i]) = Rank(P, i)
  <1>. TAKE i \in P
  <1>0. /\ f \in [P -> Q]
        /\ \A a, b \in P : a < b => f[a] < f[b]
        /\ \A a \in P : \A j \in Q : j < f[a] => \E h \in P : f[h] = j
    BY DEF InOrder
  <1>. DEFINE g == [h \in UpTo(P, i) |-> f[h]]
  <1>1. \A h \in P : h \in Nat /\ f[h] \in Q /\ f[h] \in Nat
    <2>1. (\A h \in P : h \in Nat) /\ (\A j \in Q : j \in Nat)
      OBVIOUS
    <2>. QED BY <1>0, <2>1
  <1>2. ASSUME NEW h \in UpTo(P, i) PROVE h \in P /\ f[h] \in UpTo(Q, f[i])
    <2>1. h \in P /\ h <= i
      BY UpToFacts
    <2>2. f[h] <= f[i]
      <3>1. h = i \/ h < i
        BY <1>1, <2>1
      <3>. QED BY <1>0, <1>1, <2>1, <3>1
    <2>. QED BY <1>1, <2>1, <2>2, UpToFacts
  <1>3. ASSUME NEW a \in UpTo(P, i), NEW b \in UpTo(P, i), g[a] = g[b] PROVE a = b
    <2>1. a \in P /\ b \in P /\ f[a] = f[b]
      BY <1>2, <1>3
    <2>2. ~(a < b) /\ ~(b < a)
      BY <1>0, <1>1, <2>1
    <2>. QED BY <1>1, <2>1, <2>2
  <1>4. ASSUME NEW j \in UpTo(Q, f[i]) PROVE \E h \in UpTo(P, i) : g[h] = j
    <2>1. j \in Q /\ j \in Nat /\ (j = f[i] \/ j < f[i])
      <3>1. j \in Q /\ j <= f[i]
        BY DEF UpTo
      <3>2. j \in Nat
        BY <3>1
      <3>. QED BY <1>1, <3>1, <3>2
    <2>2. PICK h \in P : f[h] = j
      BY <1>0, <1>1, <2>1
    <2>3. ~(i < h)
      BY <1>0, <1>1, <2>1, <2>2
    <2>4. h \in UpTo(P, i)
      <3>1. h <= i
        BY <1>1, <2>3
      <3>. QED BY <3>1 DEF UpTo
    <2>. QED BY <2>2, <2>4
  <1>5. g \in Bijection(UpTo(P, i), UpTo(Q, f[i]))
    <2>1. g \in [UpTo(P, i) -> UpTo(Q, f[i])]
      BY <1>2
    <2>. QED BY <1>3, <1>4, <2>1 DEF Bijection, Surjection, Injection, IsInjective
  <1>6. IsFiniteSet(UpTo(P, i))
    <2>1. UpTo(P, i) \subseteq 1 .. n
      BY UpToFacts
    <2>2. IsFiniteSet(1 .. n)
      BY FS_Interval
    <2>. QED BY <2>1, <2>2, FS_Subset
  <1>. QED BY <1>5, <1>6, FS_Bijection DEF Rank, ExistsBijection

LEMMA OnlyFacts ==
    ASSUME NEW n \in Nat, NEW P \in SUBSET (1 .. n), NEW seq
    PROVE  /\ DOMAIN Only(seq, P) = 1 .. Cardinality(P)
           /\ \A i \in P : /\ Rank(P, i) \in 1 .. Cardinality(P)
                           /\ Only(seq, P)[Rank(P, i)] = seq[i]
           /\ \A k \in 1 .. Cardinality(P) : /\ Nth(P, k) \in P
                                             /\ Only(seq, P)[k] = seq[Nth(P, k)]
  <1>1. \A k \in 1 .. Cardinality(P) : Only(seq, P)[k] = seq[Nth(P, k)]
    BY DEF Only
  <1>2. \A i \in P : Rank(P, i) \in 1 .. Cardinality(P) /\ Nth(P, Rank(P, i)) = i
    BY RankFacts, NthFacts
  <1>3. \A k \in 1 .. Cardinality(P) : Nth(P, k) \in P
    BY NthFacts
  <1>4. DOMAIN Only(seq, P) = 1 .. Cardinality(P)
    BY DEF Only
  <1>. QED BY <1>1, <1>2, <1>3, <1>4

LEMMA OnlyAll ==
    ASSUME NEW n \in Nat, NEW seq, seq = [i \in 1 .. n |-> seq[i]]
    PROVE  Only(seq, 1 .. n) = seq
  <1>1. Cardinality(1 .. n) = n
    BY FS_Interval
  <1>2. Only(seq, 1 .. n) = [k \in 1 .. n |-> seq[Nth(1 .. n, k)]]
    BY <1>1 DEF Only
  <1>3. \A k \in 1 .. n : seq[Nth(1 .. n, k)] = seq[k]
    BY NthOfAll
  <1>. QED BY <1>2, <1>3
===========================================================================
