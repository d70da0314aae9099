------------------------- MODULE KeyPartitionProofs -------------------------
(***************************************************************************)
(* Proofs about the partition policies, for every number of buckets and    *)
(* every list of workers.                                                  *)
(*                                                                         *)
(* The results of the policies are counted by ranks: if a finite set is    *)
(* totally ordered, the number of elements up to and with each one numbers *)
(* the set, so a rank range has as many elements as numbers.  The donated  *)
(* buckets of a worker are a range of ranks among its own, and those that  *)
(* a recipient gets are a range of their turns.                            *)
(***************************************************************************)
EXTENDS KeyPartition, FiniteSetTheorems, WellFoundedInduction, TLAPS

-----------------------------------------------------------------------------
(* Sizes of sets.                                                          *)

\* Sets with a one-to-one correspondence have the same size.
LEMMA SameSize ==
  ASSUME NEW S, IsFiniteSet(S), NEW T, NEW f \in [S -> T],
         \A a, b \in S : f[a] = f[b] => a = b,
         \A t \in T : \E s \in S : f[s] = t
  PROVE  IsFiniteSet(T) /\ Cardinality(T) = Cardinality(S)
<1>1. f \in Bijection(S, T)
  BY DEF Bijection, Injection, Surjection, IsInjective
<1> QED
  BY <1>1, FS_Bijection DEF ExistsBijection

LEMMA IntervalSize ==
  ASSUME NEW a \in Int, NEW b \in Int, a <= b + 1
  PROVE  IsFiniteSet(a .. b) /\ Cardinality(a .. b) = b + 1 - a
<1>1. b - a + 1 = b + 1 - a /\ (a > b => b + 1 - a = 0)
  OBVIOUS
<1> QED
  BY <1>1, FS_Interval

LEMMA BucketsFinite == IsFiniteSet(Buckets) /\ Cardinality(Buckets) = NumBuckets
<1>1. 0 \in Int /\ NumBuckets - 1 \in Int /\ 0 <= NumBuckets - 1 + 1
      /\ NumBuckets - 1 + 1 - 0 = NumBuckets
  BY NumBucketsAssumption
<1> QED
  BY <1>1, IntervalSize DEF Buckets

-----------------------------------------------------------------------------
(* Shares and blocks.                                                      *)

\* The share of a worker, and where the next one's begins.
LEMMA Shares ==
  ASSUME NEW n \in 1 .. NumBuckets, NEW i \in 1 .. n
  PROVE  /\ Desired(n, i) \in 1 .. NumBuckets
         /\ Start(n, i) \in Nat
         /\ Start(n, i + 1) = Start(n, i) + Desired(n, i)
<1> DEFINE q == NumBuckets \div n
           r == NumBuckets % n
<1>1. NumBuckets \in Nat /\ n \in Nat \ {0} /\ i \in Nat
  BY NumBucketsAssumption
<1>2. q \in Nat /\ r \in 0 .. n - 1 /\ NumBuckets = n * q + r
  BY <1>1
<1>3. q >= 1
  BY <1>1, <1>2
<1>4. q <= NumBuckets /\ (r > 0 => q + 1 <= NumBuckets)
  BY <1>1, <1>2
<1>5. (i - 1) * q \in Nat /\ i * q = (i - 1) * q + q
  BY <1>1, <1>2
<1> HIDE DEF q, r
<1>6. Desired(n, i) = q + (IF i <= r THEN 1 ELSE 0)
  BY DEF Desired, q, r
<1>7. Start(n, i) = (i - 1) * q + (IF i - 1 <= r THEN i - 1 ELSE r)
  BY DEF Start, q, r
<1>8. Start(n, i + 1) = i * q + (IF i <= r THEN i ELSE r)
  BY <1>1 DEF Start, q, r
<1> QED
  BY <1>1, <1>2, <1>3, <1>4, <1>5, <1>6, <1>7, <1>8

\* The blocks begin at bucket 0 and end with the last bucket.
LEMMA Ends ==
  ASSUME NEW n \in 1 .. NumBuckets
  PROVE  Start(n, 1) = 0 /\ Start(n, n + 1) = NumBuckets
  BY NumBucketsAssumption DEF Start

LEMMA StartMonotone ==
  ASSUME NEW n \in 1 .. NumBuckets, NEW i \in 1 .. n + 1, NEW j \in 1 .. n + 1, i <= j
  PROVE  Start(n, i) \in Nat /\ Start(n, j) \in Nat /\ Start(n, i) <= Start(n, j)
<1> DEFINE q == NumBuckets \div n
           r == NumBuckets % n
<1>1. NumBuckets \in Nat /\ n \in Nat \ {0} /\ i \in Nat \ {0} /\ j \in Nat \ {0}
  BY NumBucketsAssumption
<1>2. q \in Nat /\ r \in 0 .. n - 1
  BY <1>1
<1>3. (i - 1) * q \in Nat /\ (j - i) * q \in Nat /\ (j - 1) * q = (i - 1) * q + (j - i) * q
  BY <1>1, <1>2
<1> HIDE DEF q, r
<1>4. /\ Start(n, i) = (i - 1) * q + (IF i - 1 <= r THEN i - 1 ELSE r)
      /\ Start(n, j) = (j - 1) * q + (IF j - 1 <= r THEN j - 1 ELSE r)
  BY DEF Start, q, r
<1> QED
  BY <1>1, <1>2, <1>3, <1>4

\* With more workers no worker of the list has a larger share.
LEMMA ShareShrinks ==
  ASSUME NEW n \in 1 .. NumBuckets, NEW m \in 1 .. NumBuckets, n <= m, NEW i \in 1 .. n
  PROVE  Desired(m, i) <= Desired(n, i)
<1> DEFINE qn == NumBuckets \div n
           rn == NumBuckets % n
           qm == NumBuckets \div m
           rm == NumBuckets % m
<1>1. NumBuckets \in Nat /\ n \in Nat \ {0} /\ m \in Nat \ {0} /\ i \in Nat
  BY NumBucketsAssumption
<1>2. /\ qn \in Nat /\ rn \in 0 .. n - 1 /\ NumBuckets = n * qn + rn
      /\ qm \in Nat /\ rm \in 0 .. m - 1 /\ NumBuckets = m * qm + rm
  BY <1>1
<1>3. /\ Desired(n, i) = qn + (IF i <= rn THEN 1 ELSE 0)
      /\ Desired(m, i) = qm + (IF i <= rm THEN 1 ELSE 0)
  BY DEF Desired
<1> HIDE DEF qn, rn, qm, rm
<1>4. qm <= qn
  <2> SUFFICES ASSUME qm >= qn + 1 PROVE FALSE
    BY <1>2
  <2>1. m * qm >= n * qm
    BY <1>1, <1>2
  <2>2. n * qm >= n * (qn + 1)
    BY <1>1, <1>2
  <2>3. n * (qn + 1) = n * qn + n
    BY <1>1, <1>2
  <2> QED
    BY <1>1, <1>2, <2>1, <2>2, <2>3
<1>5. CASE qm < qn
  BY <1>2, <1>3, <1>5
<1>6. CASE qm = qn
  <2>1. n * qn <= m * qm
    BY <1>1, <1>2, <1>6
  <2>2. rm <= rn
    BY <1>1, <1>2, <2>1
  <2> QED
    BY <1>1, <1>2, <1>3, <1>6, <2>2
<1> QED
  BY <1>2, <1>4, <1>5, <1>6

\* A set of positive numbers that is not empty has a least one.
LEMMA LeastElement ==
  ASSUME NEW T \in SUBSET Nat, T # {}
  PROVE  \E m \in T : \A y \in T : m <= y
<1>1. PICK m \in T : \A y \in T : ~(<<y, m>> \in OpToRel(<, Nat))
  BY NatLessThanWellFounded, WFMin, Zenon
<1>2. \A y \in T : m <= y
  <2> SUFFICES ASSUME NEW y \in T PROVE m <= y
    OBVIOUS
  <2>1. y \in Nat /\ m \in Nat
    OBVIOUS
  <2>2. ~(y < m)
    BY <1>1, <2>1, Zenon DEF OpToRel
  <2> QED
    BY <2>1, <2>2
<1> QED
  BY <1>2

\* Every bucket is in the block of exactly one worker.
InBlock(n, i, b) == Start(n, i) <= b /\ b < Start(n, i) + Desired(n, i)

LEMMA OneBlock ==
  ASSUME NEW n \in 1 .. NumBuckets, NEW b \in Buckets
  PROVE  \E i \in 1 .. n : InBlock(n, i, b) /\ \A j \in 1 .. n : InBlock(n, j, b) => j = i
<1> DEFINE T == {i \in 1 .. n : b < Start(n, i + 1)}
<1>1. n \in Nat \ {0} /\ b \in Nat /\ b < NumBuckets /\ NumBuckets \in Nat
  BY NumBucketsAssumption DEF Buckets
<1>2. n \in T /\ T \in SUBSET Nat
  BY <1>1, Ends
<1>3. PICK i \in T : \A j \in T : i <= j
  BY <1>2, LeastElement, Zenon
<1>4. Start(n, i) <= b
  <2>1. CASE i = 1
    BY <2>1, <1>1, Ends
  <2>2. CASE i # 1
    <3>1. i - 1 \in 1 .. n /\ i - 1 \notin T
      BY <1>1, <1>3, <2>2
    <3>2. (i - 1) + 1 = i /\ i \in 1 .. n + 1
      BY <1>1
    <3>3. ~(b < Start(n, i))
      BY <3>1, <3>2
    <3> QED
      BY <1>1, <3>2, <3>3, StartMonotone
  <2> QED
    BY <2>1, <2>2
<1>5. i \in 1 .. n /\ InBlock(n, i, b)
  BY <1>4, Shares DEF InBlock
<1>6. ASSUME NEW j \in 1 .. n, InBlock(n, j, b), j # i
      PROVE  FALSE
  <2>1. /\ Start(n, i) \in Nat /\ Start(n, j) \in Nat
        /\ Start(n, i + 1) = Start(n, i) + Desired(n, i)
        /\ Start(n, j + 1) = Start(n, j) + Desired(n, j)
        /\ Desired(n, i) \in Nat /\ Desired(n, j) \in Nat
    BY <1>5, Shares
  <2>2. i < j => Start(n, i + 1) <= Start(n, j)
    BY <1>1, <1>5, StartMonotone
  <2>3. j < i => Start(n, j + 1) <= Start(n, i)
    BY <1>1, <1>5, StartMonotone
  <2> QED
    BY <1>1, <1>5, <1>6, <2>1, <2>2, <2>3 DEF InBlock
<1> QED
  BY <1>5, <1>6

\* A list of workers without duplicates, not empty and not longer than there
\* are buckets: what every policy asks for.
IsWorkerList(ws) ==
  /\ ws \in Seq(Range(ws)) /\ Len(ws) \in 1 .. NumBuckets
  /\ \A i, j \in 1 .. Len(ws) : ws[i] = ws[j] => i = j

\* Every worker of the list has its share of the buckets of table, and nobody
\* else has any.
IsEven(ws, table) ==
  /\ table \in [Buckets -> Range(ws)]
  /\ \A i \in 1 .. Len(ws) : Cardinality(Owned(table, ws[i])) = Desired(Len(ws), i)

LEMMA WorkerList ==
  ASSUME NEW ws, IsWorkerList(ws)
  PROVE  /\ DOMAIN ws = 1 .. Len(ws) /\ Range(ws) = {ws[i] : i \in 1 .. Len(ws)}
         /\ Len(ws) \in 1 .. NumBuckets
         /\ \A i, j \in 1 .. Len(ws) : ws[i] = ws[j] => i = j
  BY DEF IsWorkerList, Range

\* The first partition of a job, and every one of the uniform policy, gives
\* each worker its share (GenerateBuckets of the even and the uniform policy).
THEOREM BlocksEven ==
  ASSUME NEW ws, IsWorkerList(ws)
  PROVE  IsEven(ws, Blocks(ws))
<1> DEFINE n == Len(ws)
           Block(b) == CHOOSE i \in 1 .. n : Start(n, i) <= b /\ b < Start(n, i) + Desired(n, i)
<1>1. /\ DOMAIN ws = 1 .. n /\ Range(ws) = {ws[i] : i \in 1 .. n} /\ n \in 1 .. NumBuckets
      /\ \A i, j \in 1 .. n : ws[i] = ws[j] => i = j
  BY WorkerList
<1> HIDE DEF n
<1>2. ASSUME NEW b \in Buckets
      PROVE  Block(b) \in 1 .. n /\ InBlock(n, Block(b), b)
  <2>1. \E i \in 1 .. n : InBlock(n, i, b)
    BY <1>1, OneBlock
  <2> QED
    BY <2>1 DEF InBlock
<1> HIDE DEF Block
<1>3. Blocks(ws) = [b \in Buckets |-> ws[Block(b)]]
  BY DEF Blocks, Block, n
<1>4. Blocks(ws) \in [Buckets -> Range(ws)]
  BY <1>1, <1>2, <1>3
<1>5. ASSUME NEW i \in 1 .. n
      PROVE  Cardinality(Owned(Blocks(ws), ws[i])) = Desired(n, i)
  <2>1. /\ Start(n, i) \in Nat /\ Desired(n, i) \in Nat
        /\ Start(n, i) + Desired(n, i) <= NumBuckets
    <3>1. Start(n, i) \in Nat /\ Desired(n, i) \in 1 .. NumBuckets
          /\ Start(n, i + 1) = Start(n, i) + Desired(n, i)
      BY <1>1, Shares, Zenon
    <3>2. Start(n, i + 1) <= Start(n, n + 1)
      BY <1>1, StartMonotone
    <3> QED
      BY <1>1, <3>1, <3>2, Ends, NumBucketsAssumption
  <2>2. Owned(Blocks(ws), ws[i]) = Start(n, i) .. Start(n, i) + Desired(n, i) - 1
    <3>1. ASSUME NEW b \in Buckets, Blocks(ws)[b] = ws[i]
          PROVE  InBlock(n, i, b)
      BY <1>1, <1>2, <1>3, <3>1
    <3>2. ASSUME NEW b \in Buckets, InBlock(n, i, b)
          PROVE  Blocks(ws)[b] = ws[i]
      <4>1. PICK j \in 1 .. n : \A k \in 1 .. n : InBlock(n, k, b) => k = j
        BY <1>1, OneBlock
      <4>2. Block(b) = i
        BY <1>2, <3>2, <4>1
      <4> QED
        BY <1>3, <4>2
    <3>3. \A b \in Buckets : InBlock(n, i, b)
                               <=> b \in Start(n, i) .. Start(n, i) + Desired(n, i) - 1
      BY <2>1, NumBucketsAssumption DEF InBlock, Buckets
    <3>4. Start(n, i) .. Start(n, i) + Desired(n, i) - 1 \subseteq Buckets
      BY <2>1, NumBucketsAssumption DEF Buckets
    <3> QED
      BY <3>1, <3>2, <3>3, <3>4, Zenon DEF Owned
  <2>3. LET a == Start(n, i)
            b == Start(n, i) + Desired(n, i) - 1
        IN  a \in Int /\ b \in Int /\ a <= b + 1 /\ b + 1 - a = Desired(n, i)
    BY <2>1
  <2> QED
    BY <2>2, <2>3, IntervalSize
<1> QED
  BY <1>4, <1>5 DEF IsEven, n

-----------------------------------------------------------------------------
(* Ranks.                                                                  *)

\* R orders S totally.
TotalOrder(S, R) ==
  /\ \A a \in S : <<a, a>> \in R
  /\ \A a, b, c \in S : <<a, b>> \in R /\ <<b, c>> \in R => <<a, c>> \in R
  /\ \A a, b \in S : <<a, b>> \in R /\ <<b, a>> \in R => a = b
  /\ \A a, b \in S : <<a, b>> \in R \/ <<b, a>> \in R

Rank(S, R) == [b \in S |-> Cardinality({c \in S : <<c, b>> \in R})]

\* Different elements have different ranks, between 1 and the size of the set.
LEMMA RankInjective ==
  ASSUME NEW S, IsFiniteSet(S), NEW R, TotalOrder(S, R)
  PROVE  /\ Rank(S, R) \in [S -> 1 .. Cardinality(S)]
         /\ \A a, b \in S : Rank(S, R)[a] = Rank(S, R)[b] => a = b
<1> DEFINE Down(b) == {c \in S : <<c, b>> \in R}
<1>1. \A b \in S : Rank(S, R)[b] = Cardinality(Down(b))
  BY DEF Rank
<1>2. \A b \in S : Down(b) \in SUBSET S /\ b \in Down(b)
  BY DEF TotalOrder
<1>3. \A a, b \in S : <<a, b>> \in R => Down(a) \subseteq Down(b)
  BY DEF TotalOrder
<1>4. \A a, b \in S : Down(a) = Down(b) => a = b
  BY <1>2, Zenon DEF TotalOrder
<1> HIDE DEF Down
<1>5. ASSUME NEW b \in S
      PROVE  Cardinality(Down(b)) \in 1 .. Cardinality(S) /\ IsFiniteSet(Down(b))
  <2>1. IsFiniteSet(Down(b)) /\ Cardinality(Down(b)) <= Cardinality(S)
    BY <1>2, FS_Subset
  <2>2. Cardinality(Down(b)) \in Nat /\ Cardinality(S) \in Nat
    BY <2>1, FS_CardinalityType
  <2>3. Cardinality(Down(b)) # 0
    BY <1>2, <2>1, FS_EmptySet
  <2> QED
    BY <2>1, <2>2, <2>3
<1>6. ASSUME NEW a \in S, NEW b \in S, Cardinality(Down(a)) = Cardinality(Down(b))
      PROVE  a = b
  <2>1. CASE <<a, b>> \in R
    BY <1>3, <1>4, <1>5, <1>6, <2>1, FS_Subset
  <2>2. CASE <<b, a>> \in R
    BY <1>3, <1>4, <1>5, <1>6, <2>2, FS_Subset
  <2> QED
    BY <2>1, <2>2 DEF TotalOrder
<1>7. Rank(S, R) \in [S -> 1 .. Cardinality(S)]
  BY <1>1, <1>5 DEF Rank
<1> QED
  BY <1>1, <1>6, <1>7

\* A range of ranks has as many elements as numbers.
LEMMA RankRange ==
  ASSUME NEW S, IsFiniteSet(S), NEW R, TotalOrder(S, R),
         NEW l \in Nat, NEW e \in Nat, l <= e, e <= Cardinality(S)
  PROVE  LET T == {b \in S : l < Rank(S, R)[b] /\ Rank(S, R)[b] <= e}
         IN  IsFiniteSet(T) /\ Cardinality(T) = e - l
<1> DEFINE f == Rank(S, R)
           n == Cardinality(S)
           T == {b \in S : l < f[b] /\ f[b] <= e}
<1>1. n \in Nat /\ f \in [S -> 1 .. n] /\ \A a, b \in S : f[a] = f[b] => a = b
  BY RankInjective, FS_CardinalityType
<1> HIDE DEF f, n
<1>2. {f[b] : b \in S} = 1 .. n
  <2> DEFINE I == {f[b] : b \in S}
  <2>1. f \in [S -> I] /\ \A t \in I : \E s \in S : f[s] = t
    BY <1>1
  <2> HIDE DEF I
  <2>2. IsFiniteSet(I) /\ Cardinality(I) = n
    BY <1>1, <2>1, SameSize, Zenon DEF n
  <2> USE DEF I
  <2>3. I \subseteq 1 .. n
    BY <1>1
  <2>4. IsFiniteSet(1 .. n) /\ Cardinality(1 .. n) = n
    <3>1. 1 \in Int /\ n \in Int /\ 1 <= n + 1 /\ n + 1 - 1 = n
      BY <1>1
    <3> QED
      BY <3>1, IntervalSize
  <2> HIDE DEF I
  <2>5. 1 .. n = I
    BY <2>2, <2>3, <2>4, FS_Subset, Zenon
  <2> QED
    BY <2>5 DEF I
<1>3. IsFiniteSet(T)
  BY FS_Subset
<1> DEFINE g == [b \in T |-> f[b]]
<1>4. g \in [T -> (l + 1) .. e] /\ \A a, b \in T : g[a] = g[b] => a = b
  BY <1>1
<1>5. ASSUME NEW x \in (l + 1) .. e PROVE \E b \in T : g[b] = x
  <2>1. x \in 1 .. n
    BY <1>1 DEF n
  <2>2. PICK b \in S : f[b] = x
    BY <1>2, <2>1
  <2> QED
    BY <2>2
<1> HIDE DEF T, g
<1>6. Cardinality((l + 1) .. e) = Cardinality(T)
  BY <1>3, <1>4, <1>5, SameSize
<1>7. Cardinality(T) = e - l
  <2>1. l + 1 \in Int /\ e \in Int /\ l + 1 <= e + 1 /\ e + 1 - (l + 1) = e - l
    OBVIOUS
  <2> QED
    BY <1>6, <2>1, IntervalSize
<1> QED
  BY <1>3, <1>7 DEF T, f

-----------------------------------------------------------------------------
(* The even policy: what a worker gives.                                   *)

LEMMA OwnedFinite ==
  ASSUME NEW table, NEW w
  PROVE  /\ Owned(table, w) \in SUBSET Buckets /\ IsFiniteSet(Owned(table, w))
         /\ Cardinality(Owned(table, w)) \in 0 .. NumBuckets
<1>1. Owned(table, w) \in SUBSET Buckets
  BY DEF Owned
<1>2. IsFiniteSet(Owned(table, w)) /\ Cardinality(Owned(table, w)) <= NumBuckets
  BY <1>1, BucketsFinite, FS_Subset
<1>3. Cardinality(Owned(table, w)) \in Nat
  BY <1>2, FS_CardinalityType
<1> QED
  BY <1>1, <1>2, <1>3, NumBucketsAssumption

LEMMA DesiredOfShare ==
  ASSUME NEW ws, IsWorkerList(ws)
  PROVE  /\ \A i \in 1 .. Len(ws) : DesiredOf(ws, ws[i]) = Desired(Len(ws), i)
         /\ \A w : DesiredOf(ws, w) \in 0 .. NumBuckets
<1>1. /\ DOMAIN ws = 1 .. Len(ws) /\ Range(ws) = {ws[i] : i \in 1 .. Len(ws)}
      /\ Len(ws) \in 1 .. NumBuckets
      /\ \A i, j \in 1 .. Len(ws) : ws[i] = ws[j] => i = j
  BY WorkerList
<1>2. ASSUME NEW i \in 1 .. Len(ws)
      PROVE  Position(ws, ws[i]) = i
  BY <1>1 DEF Position
<1>3. ASSUME NEW i \in 1 .. Len(ws)
      PROVE  DesiredOf(ws, ws[i]) = Desired(Len(ws), i)
  BY <1>1, <1>2 DEF DesiredOf
<1>4. ASSUME NEW w
      PROVE  DesiredOf(ws, w) \in 0 .. NumBuckets
  <2>1. CASE w \in Range(ws)
    <3>1. PICK i \in 1 .. Len(ws) : w = ws[i]
      BY <1>1, <2>1
    <3>2. Desired(Len(ws), i) \in 1 .. NumBuckets
      BY <1>1, Shares, Zenon
    <3> QED
      BY <1>3, <3>1, <3>2, NumBucketsAssumption
  <2>2. CASE w \notin Range(ws)
    BY <2>2, NumBucketsAssumption DEF DesiredOf
  <2> QED
    BY <2>1, <2>2
<1> QED
  BY <1>3, <1>4

\* How many buckets of the owner of b are not before b: the rank of b among
\* them, from the end.
Top(table, b) == Cardinality({c \in Owned(table, table[b]) : c >= b})

LEMMA TopRank ==
  ASSUME NEW table, NEW w
  PROVE  LET own == Owned(table, w)
         IN  /\ \A b \in own : Top(table, b) \in 1 .. Cardinality(own)
             /\ \A b, c \in own : Top(table, b) = Top(table, c) => b = c
             /\ \A l, e \in Nat : l <= e /\ e <= Cardinality(own) =>
                  LET T == {b \in own : l < Top(table, b) /\ Top(table, b) <= e}
                  IN  IsFiniteSet(T) /\ Cardinality(T) = e - l
<1> DEFINE own == Owned(table, w)
           R == {p \in own \X own : p[1] >= p[2]}
<1>1. own \in SUBSET Int /\ IsFiniteSet(own) /\ \A b \in own : table[b] = w
  <2>1. \A b \in own : table[b] = w
    BY DEF Owned
  <2>2. IsFiniteSet(own) /\ own \in SUBSET Buckets
    BY OwnedFinite, Zenon
  <2>3. Buckets \in SUBSET Int
    BY NumBucketsAssumption DEF Buckets
  <2> QED
    BY <2>1, <2>2, <2>3, Zenon
<1> HIDE DEF own
<1>2. \A a, b \in own : <<a, b>> \in R <=> a >= b
  OBVIOUS
<1>3. TotalOrder(own, R)
  BY <1>1, <1>2 DEF TotalOrder
<1>4. ASSUME NEW b \in own
      PROVE  Rank(own, R)[b] = Top(table, b)
  <2>1. {c \in own : <<c, b>> \in R} = {c \in own : c >= b}
    BY <1>2
  <2> QED
    BY <1>1, <2>1, Zenon DEF Rank, Top, own
<1> HIDE DEF R
<1>5. /\ \A b \in own : Rank(own, R)[b] \in 1 .. Cardinality(own)
      /\ \A a, b \in own : Rank(own, R)[a] = Rank(own, R)[b] => a = b
  BY <1>1, <1>3, RankInjective
<1>6. ASSUME NEW l \in Nat, NEW e \in Nat, l <= e, e <= Cardinality(own)
      PROVE  LET T == {b \in own : l < Top(table, b) /\ Top(table, b) <= e}
             IN  IsFiniteSet(T) /\ Cardinality(T) = e - l
  <2> DEFINE T == {b \in own : l < Top(table, b) /\ Top(table, b) <= e}
             U == {b \in own : l < Rank(own, R)[b] /\ Rank(own, R)[b] <= e}
  <2>1. IsFiniteSet(U) /\ Cardinality(U) = e - l
    BY <1>1, <1>3, <1>6, RankRange
  <2>2. T = U
    BY <1>4
  <2> QED
    BY <2>1, <2>2
<1> QED
  BY <1>4, <1>5, <1>6, Zenon DEF own

\* A worker gives what it has in excess.
LEMMA GivesExcess ==
  ASSUME NEW ws, IsWorkerList(ws), NEW table, NEW w
  PROVE  LET gives == Owned(table, w) \cap Donated(ws, table)
             e == Excess(ws, table, w)
         IN  /\ e \in Int
             /\ IsFiniteSet(gives) /\ Cardinality(gives) = IF e > 0 THEN e ELSE 0
<1> DEFINE own == Owned(table, w)
           n == Cardinality(own)
           e == Excess(ws, table, w)
           k == IF e > 0 THEN e ELSE 0
<1>1. n \in Nat /\ DesiredOf(ws, w) \in Nat
  BY OwnedFinite, DesiredOfShare, NumBucketsAssumption
<1>2. e = n - DesiredOf(ws, w)
  BY DEF Excess
<1>3. e \in Int /\ k \in Nat /\ k <= n /\ 0 \in Nat
  BY <1>1, <1>2
<1>4. \A b \in own : table[b] = w /\ b \in Buckets
  BY DEF Owned
<1>5. \A b \in own : Top(table, b) \in 1 .. n
  BY TopRank
<1> HIDE DEF own, n, e
<1>6. ASSUME NEW b \in own
      PROVE  b \in Donated(ws, table) <=> 0 < Top(table, b) /\ Top(table, b) <= k
  <2>1. b \in Donated(ws, table) <=> Top(table, b) <= e
    BY <1>4 DEF Donated, Top, e
  <2> QED
    BY <1>1, <1>3, <1>5, <2>1
<1>7. own \cap Donated(ws, table) = {b \in own : 0 < Top(table, b) /\ Top(table, b) <= k}
  BY <1>6
<1> HIDE DEF k
<1>8. LET T == {b \in own : 0 < Top(table, b) /\ Top(table, b) <= k}
      IN  IsFiniteSet(T) /\ Cardinality(T) = k - 0
  BY <1>3, TopRank DEF own, n
<1>9. k - 0 = k
  BY <1>3
<1>10. IsFiniteSet(own \cap Donated(ws, table)) /\ Cardinality(own \cap Donated(ws, table)) = k
  BY <1>7, <1>8, <1>9, Zenon
<1> QED
  BY <1>3, <1>10, Zenon DEF own, e, k

-----------------------------------------------------------------------------
(* The even policy: the turns.                                             *)

\* The two parts of a turn, as in the definition of Turn.
Round(given, table, c) == Cardinality({d \in given : table[d] = table[c] /\ d > c})
First(table, c) == Min(Owned(table, table[c]))
TurnOrder(given, table) ==
  {p \in given \X given :
     \/ Round(given, table, p[1]) < Round(given, table, p[2])
     \/ /\ Round(given, table, p[1]) = Round(given, table, p[2])
        /\ First(table, p[1]) <= First(table, p[2])}

\* Buckets with the same first bucket of their owner have the same owner.
LEMMA FirstOfOwner ==
  ASSUME NEW table, NEW b \in Buckets, NEW c \in Buckets
  PROVE  /\ First(table, b) \in Nat /\ First(table, c) \in Nat
         /\ First(table, b) = First(table, c) => table[b] = table[c]
<1>1. Buckets \in SUBSET Nat
  BY NumBucketsAssumption DEF Buckets
<1>2. ASSUME NEW d \in Buckets
      PROVE  First(table, d) \in Owned(table, table[d]) /\ First(table, d) \in Nat
  <2>1. d \in Owned(table, table[d]) /\ Owned(table, table[d]) \in SUBSET Nat
    BY <1>1, Zenon DEF Owned
  <2>2. \E m \in Owned(table, table[d]) : \A y \in Owned(table, table[d]) : m <= y
    BY <2>1, LeastElement
  <2>3. First(table, d) \in Owned(table, table[d])
    BY <2>2, Zenon DEF First, Min
  <2> QED
    BY <2>1, <2>3
<1> QED
  BY <1>2 DEF Owned

\* Two buckets of one owner go in different rounds.
LEMMA RoundsDiffer ==
  ASSUME NEW given \in SUBSET Buckets, NEW table
  PROVE  /\ \A b \in given : Round(given, table, b) \in Nat
         /\ \A b, c \in given : table[b] = table[c]
              /\ Round(given, table, b) = Round(given, table, c) => b = c
<1> DEFINE After(c) == {d \in given : table[d] = table[c] /\ d > c}
<1>1. IsFiniteSet(given) /\ given \in SUBSET Nat
  <2>1. IsFiniteSet(given)
    BY BucketsFinite, FS_Subset
  <2>2. Buckets \in SUBSET Nat
    BY NumBucketsAssumption DEF Buckets
  <2> QED
    BY <2>1, <2>2
<1>2. \A b \in given : IsFiniteSet(After(b)) /\ Cardinality(After(b)) \in Nat
  <2> SUFFICES ASSUME NEW b \in given PROVE IsFiniteSet(After(b)) /\ Cardinality(After(b)) \in Nat
    OBVIOUS
  <2>1. After(b) \in SUBSET given
    OBVIOUS
  <2> QED
    BY <1>1, <2>1, FS_Subset, FS_CardinalityType
<1>3. ASSUME NEW b \in given, NEW c \in given, table[b] = table[c], b < c
      PROVE  Cardinality(After(b)) # Cardinality(After(c))
  <2>1. c \in After(b) /\ c \notin After(c)
    BY <1>1, <1>3
  <2>2. \A d \in given : d > c => d > b
    BY <1>1, <1>3
  <2>3. After(c) \in SUBSET After(b)
    BY <1>3, <2>2
  <2> HIDE DEF After
  <2> QED
    BY <1>2, <2>1, <2>3, FS_Subset
<1>4. \A b \in given : Round(given, table, b) = Cardinality(After(b))
  BY DEF Round
<1> HIDE DEF After
<1>5. \A b, c \in given : b = c \/ b < c \/ c < b
  BY <1>1
<1> QED
  BY <1>2, <1>3, <1>4, <1>5

LEMMA TurnsOrdered ==
  ASSUME NEW given \in SUBSET Buckets, NEW table
  PROVE  TotalOrder(given, TurnOrder(given, table))
<1> DEFINE R == TurnOrder(given, table)
           f(b) == Round(given, table, b)
           g(b) == First(table, b)
<1>1. \A b \in given : f(b) \in Nat /\ g(b) \in Nat
  BY RoundsDiffer, FirstOfOwner
<1>2. \A b, c \in given : f(b) = f(c) /\ g(b) = g(c) => b = c
  <2> SUFFICES ASSUME NEW b \in given, NEW c \in given, f(b) = f(c), g(b) = g(c) PROVE b = c
    OBVIOUS
  <2>1. table[b] = table[c]
    BY FirstOfOwner
  <2> QED
    BY <2>1, RoundsDiffer
<1>3. \A b, c \in given : <<b, c>> \in R <=> f(b) < f(c) \/ (f(b) = f(c) /\ g(b) <= g(c))
  BY DEF TurnOrder
<1> HIDE DEF R, f, g
<1>4. \A a \in given : <<a, a>> \in R
  BY <1>1, <1>3
<1>5. ASSUME NEW a \in given, NEW b \in given, NEW c \in given, <<a, b>> \in R, <<b, c>> \in R
      PROVE  <<a, c>> \in R
  BY <1>1, <1>3, <1>5
<1>6. ASSUME NEW a \in given, NEW b \in given, <<a, b>> \in R, <<b, a>> \in R
      PROVE  a = b
  BY <1>1, <1>2, <1>3, <1>6
<1>7. ASSUME NEW a \in given, NEW b \in given
      PROVE  <<a, b>> \in R \/ <<b, a>> \in R
  <2>1. f(a) \in Nat /\ f(b) \in Nat /\ g(a) \in Nat /\ g(b) \in Nat
    BY <1>1
  <2>2. f(a) < f(b) \/ f(b) < f(a) \/ (f(a) = f(b) /\ (g(a) <= g(b) \/ g(b) <= g(a)))
    BY <2>1
  <2> QED
    BY <1>3, <2>2
<1> QED
  BY <1>4, <1>5, <1>6, <1>7, Zenon DEF TotalOrder, R

\* The donated buckets whose turns are after l, up to e.
TurnsIn(ws, table, l, e) ==
  {b \in Donated(ws, table) : l < Turn(ws, table, b) /\ Turn(ws, table, b) <= e}

\* The turns number the donated buckets.
LEMMA Turns ==
  ASSUME NEW ws, NEW table
  PROVE  LET given == Donated(ws, table)
         IN  /\ given \in SUBSET Buckets /\ IsFiniteSet(given)
             /\ \A b \in given : Turn(ws, table, b) \in 1 .. Cardinality(given)
             /\ \A l, e \in Nat : l <= e /\ e <= Cardinality(given) =>
                  /\ IsFiniteSet(TurnsIn(ws, table, l, e))
                  /\ Cardinality(TurnsIn(ws, table, l, e)) = e - l
<1> DEFINE given == Donated(ws, table)
           R == TurnOrder(given, table)
<1>1. given \in SUBSET Buckets
  BY DEF Donated
<1>2. IsFiniteSet(given)
  BY <1>1, BucketsFinite, FS_Subset
<1>3. TotalOrder(given, R)
  BY <1>1, TurnsOrdered
<1>4. ASSUME NEW b \in given
      PROVE  Turn(ws, table, b) = Rank(given, R)[b]
  <2> DEFINE A == {c \in given :
                     \/ Round(given, table, c) < Round(given, table, b)
                     \/ /\ Round(given, table, c) = Round(given, table, b)
                        /\ First(table, c) <= First(table, b)}
  <2>1. Turn(ws, table, b) = Cardinality(A)
    BY DEF Turn, Round, First
  <2>2. A = {c \in given : <<c, b>> \in R}
    BY DEF TurnOrder
  <2> QED
    BY <2>1, <2>2, Zenon DEF Rank
<1> HIDE DEF given, R
<1>5. \A b \in given : Rank(given, R)[b] \in 1 .. Cardinality(given)
  BY <1>2, <1>3, RankInjective
<1>6. ASSUME NEW l \in Nat, NEW e \in Nat, l <= e, e <= Cardinality(given)
      PROVE  /\ IsFiniteSet(TurnsIn(ws, table, l, e))
             /\ Cardinality(TurnsIn(ws, table, l, e)) = e - l
  <2> DEFINE U == {b \in given : l < Rank(given, R)[b] /\ Rank(given, R)[b] <= e}
  <2>1. IsFiniteSet(U) /\ Cardinality(U) = e - l
    BY <1>2, <1>3, <1>6, RankRange
  <2>2. TurnsIn(ws, table, l, e) = U
    BY <1>4 DEF TurnsIn, given
  <2> QED
    BY <2>1, <2>2
<1> QED
  BY <1>1, <1>2, <1>4, <1>5, <1>6 DEF given

-----------------------------------------------------------------------------
(* The even policy: the places.                                            *)

LEMMA NeedType ==
  ASSUME NEW ws, IsWorkerList(ws), NEW table, NEW i \in 1 .. Len(ws)
  PROVE  /\ Need(ws, table, i) \in 0 .. NumBuckets
         /\ Excess(ws, table, ws[i]) \in Int
         /\ Excess(ws, table, ws[i]) = Cardinality(Owned(table, ws[i])) - Desired(Len(ws), i)
         /\ Need(ws, table, i) = IF Excess(ws, table, ws[i]) < 0
                                   THEN -Excess(ws, table, ws[i]) ELSE 0
<1>1. Cardinality(Owned(table, ws[i])) \in 0 .. NumBuckets
  BY OwnedFinite
<1>2. DesiredOf(ws, ws[i]) = Desired(Len(ws), i) /\ DesiredOf(ws, ws[i]) \in 0 .. NumBuckets
  BY DesiredOfShare
<1> QED
  BY <1>1, <1>2, NumBucketsAssumption DEF Need, Excess

LEMMA PlacesFinite ==
  ASSUME NEW ws, NEW table, NEW i \in Nat
  PROVE  /\ IsFiniteSet(Places(ws, table, i)) /\ NeedUpTo(ws, table, i) \in Nat
         /\ \A j \in 0 .. i : NeedUpTo(ws, table, j) <= NeedUpTo(ws, table, i)
<1>1. IsFiniteSet(1 .. i)
  BY FS_Interval, 1 \in Int, i \in Int
<1>2. IsFiniteSet((1 .. i) \X Buckets)
  BY <1>1, BucketsFinite, FS_Product
<1>3. Places(ws, table, i) \in SUBSET ((1 .. i) \X Buckets)
  BY DEF Places
<1>4. IsFiniteSet(Places(ws, table, i))
  BY <1>2, <1>3, FS_Subset
<1>5. ASSUME NEW j \in 0 .. i
      PROVE  NeedUpTo(ws, table, j) <= NeedUpTo(ws, table, i)
  <2>1. 1 .. j \subseteq 1 .. i
    OBVIOUS
  <2>2. Places(ws, table, j) \in SUBSET Places(ws, table, i)
    BY <2>1 DEF Places
  <2> QED
    BY <1>4, <2>2, FS_Subset DEF NeedUpTo
<1> QED
  BY <1>4, <1>5, FS_CardinalityType DEF NeedUpTo

LEMMA NeedStep ==
  ASSUME NEW ws, IsWorkerList(ws), NEW table, NEW i \in 1 .. Len(ws)
  PROVE  NeedUpTo(ws, table, i) = NeedUpTo(ws, table, i - 1) + Need(ws, table, i)
<1> DEFINE k == Need(ws, table, i)
           A == Places(ws, table, i - 1)
           D == 0 .. k - 1
           B == {i} \X D
           f == [x \in D |-> <<i, x>>]
<1>1. k \in 0 .. NumBuckets /\ i \in Nat \ {0} /\ NumBuckets \in Nat
  BY NeedType, NumBucketsAssumption, WorkerList
<1> HIDE DEF k
<1>2. Places(ws, table, i) = A \cup B
  <2>1. \A p \in (1 .. i) \X Buckets : p \in (1 .. i - 1) \X Buckets \/ p[1] = i
    BY <1>1
  <2>2. 1 .. i - 1 \subseteq 1 .. i /\ i \in 1 .. i /\ 0 .. k - 1 \subseteq Buckets
    BY <1>1 DEF Buckets
  <2>3. \A x \in Buckets : x < k <=> x \in 0 .. k - 1
    BY <1>1 DEF Buckets
  <2>4. Places(ws, table, i) \subseteq A \cup B
    BY <2>1, <2>3 DEF Places, k
  <2>5. A \subseteq Places(ws, table, i)
    BY <2>2 DEF Places
  <2>6. B \subseteq Places(ws, table, i)
    BY <2>2, <2>3 DEF Places, k
  <2> QED
    BY <2>4, <2>5, <2>6
<1>3. A \cap B = {}
  BY <1>1 DEF Places
<1>4. IsFiniteSet(A) /\ Cardinality(A) = NeedUpTo(ws, table, i - 1)
  BY <1>1, PlacesFinite DEF NeedUpTo
<1>5. IsFiniteSet(D) /\ Cardinality(D) = k
  <2>1. 0 \in Int /\ k - 1 \in Int /\ 0 <= k - 1 + 1 /\ k - 1 + 1 - 0 = k
    BY <1>1
  <2> QED
    BY <2>1, IntervalSize, Zenon
<1>6. IsFiniteSet(B) /\ Cardinality(B) = k
  <2>1. /\ f \in [D -> B] /\ \A a, b \in D : f[a] = f[b] => a = b
        /\ \A t \in B : \E s \in D : f[s] = t
    OBVIOUS
  <2> HIDE DEF f, B, D
  <2> QED
    BY <1>5, <2>1, SameSize
<1>7. Cardinality(A \cup B) = Cardinality(A) + Cardinality(B) - Cardinality(A \cap B)
  BY <1>4, <1>6, FS_Union
<1>8. Cardinality(A \cap B) = 0
  BY <1>3, FS_EmptySet
<1>9. NeedUpTo(ws, table, i - 1) \in Nat
  BY <1>1, PlacesFinite
<1>10. NeedUpTo(ws, table, i) = Cardinality(A \cup B)
  BY <1>2 DEF NeedUpTo
<1> HIDE DEF A, B
<1> QED
  BY <1>1, <1>4, <1>6, <1>7, <1>8, <1>9, <1>10 DEF k

\* The places of all workers, and those of them that their own buckets fill.
AllPlaces(n) == {p \in (1 .. n) \X Buckets : p[2] < Desired(n, p[1])}
OwnPlaces(ws, table) ==
  {p \in AllPlaces(Len(ws)) : p[2] < Cardinality(Owned(table, ws[p[1]]))}
Retained(ws, table) == Buckets \ Donated(ws, table)

LEMMA AllPlacesCount ==
  ASSUME NEW n \in 1 .. NumBuckets
  PROVE  IsFiniteSet(AllPlaces(n)) /\ Cardinality(AllPlaces(n)) = NumBuckets
<1> DEFINE A == AllPlaces(n)
           f == [p \in A |-> Start(n, p[1]) + p[2]]
<1>1. n \in Nat \ {0} /\ NumBuckets \in Nat
  BY NumBucketsAssumption
<1>2. IsFiniteSet(A)
  <2>1. IsFiniteSet(1 .. n)
    BY <1>1, FS_Interval, 1 \in Int, n \in Int
  <2>2. IsFiniteSet((1 .. n) \X Buckets)
    BY <2>1, BucketsFinite, FS_Product
  <2> QED
    BY <2>2, FS_Subset DEF AllPlaces
<1>3. ASSUME NEW p \in A
      PROVE  /\ p[1] \in 1 .. n /\ p[2] \in Nat /\ p = <<p[1], p[2]>>
             /\ f[p] \in Buckets /\ InBlock(n, p[1], f[p])
             /\ Start(n, p[1]) \in Nat
  <2>1. p[1] \in 1 .. n /\ p[2] \in Nat /\ p[2] < Desired(n, p[1]) /\ p = <<p[1], p[2]>>
    BY DEF AllPlaces, Buckets
  <2>2. /\ Desired(n, p[1]) \in 1 .. NumBuckets /\ Start(n, p[1]) \in Nat
        /\ Start(n, p[1] + 1) = Start(n, p[1]) + Desired(n, p[1])
    BY <2>1, Shares, Zenon
  <2>3. Start(n, p[1] + 1) <= Start(n, n + 1)
    BY <1>1, <2>1, StartMonotone
  <2>4. f[p] = Start(n, p[1]) + p[2]
    OBVIOUS
  <2>5. f[p] \in Nat /\ f[p] < NumBuckets /\ InBlock(n, p[1], f[p])
    BY <1>1, <2>1, <2>2, <2>3, <2>4, Ends DEF InBlock
  <2> QED
    BY <1>1, <2>1, <2>2, <2>5 DEF Buckets
<1>4. f \in [A -> Buckets]
  BY <1>3
<1>5. ASSUME NEW p \in A, NEW t \in A, f[p] = f[t]
      PROVE  p = t
  <2>1. PICK i \in 1 .. n : \A j \in 1 .. n : InBlock(n, j, f[p]) => j = i
    BY <1>3, OneBlock
  <2>2. p[1] = t[1]
    BY <1>3, <1>5, <2>1
  <2>3. p[2] = t[2]
    BY <1>3, <1>5, <2>2
  <2> QED
    BY <1>3, <2>2, <2>3
<1>6. ASSUME NEW b \in Buckets
      PROVE  \E p \in A : f[p] = b
  <2>1. PICK i \in 1 .. n : InBlock(n, i, b)
    BY OneBlock
  <2>2. Desired(n, i) \in 1 .. NumBuckets /\ Start(n, i) \in Nat
    BY Shares, Zenon
  <2>3. b - Start(n, i) \in Buckets /\ b - Start(n, i) < Desired(n, i)
    BY <1>1, <2>1, <2>2 DEF Buckets, InBlock
  <2>4. <<i, b - Start(n, i)>> \in A
    BY <2>3 DEF AllPlaces
  <2>5. f[<<i, b - Start(n, i)>>] = b
    BY <2>2, <2>4 DEF Buckets
  <2> QED
    BY <2>4, <2>5
<1> HIDE DEF f, A
<1>7. Cardinality(Buckets) = Cardinality(A)
  BY <1>2, <1>4, <1>5, <1>6, SameSize
<1> QED
  BY <1>2, <1>7, BucketsFinite DEF A

\* The buckets that stay fill the own places.
LEMMA KeptCount ==
  ASSUME NEW ws, IsWorkerList(ws), NEW table
  PROVE  Cardinality(OwnPlaces(ws, table)) = Cardinality(Retained(ws, table))
<1> DEFINE n == Len(ws)
           own(w) == Owned(table, w)
           size(w) == Cardinality(own(w))
           K == Retained(ws, table)
           P == OwnPlaces(ws, table)
           pos(b) == Position(ws, table[b])
           f == [b \in K |-> <<pos(b), size(table[b]) - Top(table, b)>>]
<1>1. /\ DOMAIN ws = 1 .. n /\ Range(ws) = {ws[i] : i \in 1 .. n} /\ n \in 1 .. NumBuckets
      /\ \A i, j \in 1 .. n : ws[i] = ws[j] => i = j
  BY WorkerList
<1>2. \A w : size(w) \in 0 .. NumBuckets /\ DesiredOf(ws, w) \in 0 .. NumBuckets
  BY OwnedFinite, DesiredOfShare
<1>3. NumBuckets \in Nat
  BY NumBucketsAssumption
<1>4. ASSUME NEW b \in Buckets
      PROVE  /\ b \in own(table[b]) /\ Top(table, b) \in 1 .. size(table[b])
             /\ b \in K <=> Top(table, b) > size(table[b]) - DesiredOf(ws, table[b])
  <2>1. b \in own(table[b])
    BY DEF Owned
  <2>2. Top(table, b) \in 1 .. size(table[b])
    BY <2>1, TopRank
  <2>3. b \in Donated(ws, table) <=> Top(table, b) <= size(table[b]) - DesiredOf(ws, table[b])
    BY DEF Donated, Top, Excess
  <2> QED
    BY <1>2, <1>3, <2>1, <2>2, <2>3 DEF Retained
<1>5. \A i \in 1 .. n : DesiredOf(ws, ws[i]) = Desired(n, i)
  BY DesiredOfShare
<1>6. ASSUME NEW b \in K
      PROVE  pos(b) \in 1 .. n /\ ws[pos(b)] = table[b] /\ b \in Buckets
  <2>1. b \in Buckets
    BY DEF Retained
  <2>2. table[b] \in Range(ws)
    <3> SUFFICES ASSUME table[b] \notin Range(ws) PROVE FALSE
      OBVIOUS
    <3>1. DesiredOf(ws, table[b]) = 0
      BY DEF DesiredOf
    <3> QED
      BY <1>2, <1>3, <1>4, <2>1, <3>1
  <2>3. \E i \in DOMAIN ws : ws[i] = table[b]
    BY <1>1, <2>2
  <2> QED
    BY <1>1, <2>1, <2>3 DEF Position
<1>7. ASSUME NEW b \in K
      PROVE  f[b] \in P
  <2> DEFINE x == size(table[b]) - Top(table, b)
  <2>1. /\ pos(b) \in 1 .. n /\ ws[pos(b)] = table[b] /\ b \in Buckets
        /\ DesiredOf(ws, table[b]) = Desired(n, pos(b))
    BY <1>5, <1>6
  <2>2. x \in Nat /\ x < size(table[b]) /\ x < NumBuckets /\ x < Desired(n, pos(b))
    BY <1>2, <1>3, <1>4, <2>1
  <2>3. x \in Buckets
    BY <1>3, <2>2 DEF Buckets
  <2>4. f[b] = <<pos(b), x>>
    OBVIOUS
  <2> HIDE DEF x, pos, f
  <2> QED
    BY <2>1, <2>2, <2>3, <2>4 DEF OwnPlaces, AllPlaces
<1>8. ASSUME NEW b \in K, NEW c \in K, f[b] = f[c]
      PROVE  b = c
  <2>1. table[b] = table[c]
    BY <1>6, <1>8
  <2>2. size(table[b]) - Top(table, b) = size(table[c]) - Top(table, c)
    BY <1>8
  <2>3. Top(table, b) = Top(table, c)
    BY <1>2, <1>3, <1>4, <1>6, <2>1, <2>2
  <2>4. b \in own(table[b]) /\ c \in own(table[b])
    BY <1>4, <1>6, <2>1
  <2> QED
    BY <2>3, <2>4, TopRank
<1>9. ASSUME NEW p \in P
      PROVE  \E b \in K : f[b] = p
  <2> DEFINE i == p[1]
             s == size(ws[i])
             e == s - p[2]
             T == {b \in own(ws[i]) : e - 1 < Top(table, b) /\ Top(table, b) <= e}
  <2>1. /\ i \in 1 .. n /\ p[2] \in Nat /\ p[2] < s /\ p[2] < Desired(n, i)
        /\ p = <<i, p[2]>>
    BY DEF OwnPlaces, AllPlaces, Buckets
  <2>2. s \in Nat /\ e \in Nat /\ e - 1 \in Nat /\ e - 1 <= e /\ e <= s /\ e - (e - 1) = 1
    BY <1>2, <1>3, <2>1
  <2>3. IsFiniteSet(T) /\ Cardinality(T) = 1
    <3> HIDE DEF e
    <3>1. IsFiniteSet(T) /\ Cardinality(T) = e - (e - 1)
      BY <2>2, TopRank
    <3> QED
      BY <2>2, <3>1
  <2>4. T # {}
    BY <2>3, FS_EmptySet
  <2>5. PICK b \in own(ws[i]) : e - 1 < Top(table, b) /\ Top(table, b) <= e
    BY <2>4
  <2>6. b \in Buckets /\ table[b] = ws[i]
    BY <2>5 DEF Owned
  <2>7. Top(table, b) \in Nat /\ Top(table, b) = e
    BY <1>2, <1>3, <1>4, <2>2, <2>5, <2>6
  <2>8. b \in K
    <3>1. size(table[b]) = s /\ DesiredOf(ws, table[b]) = Desired(n, i)
      BY <1>5, <2>1, <2>6
    <3>2. Desired(n, i) \in Nat
      BY <1>2, <1>3, <1>5, <2>1
    <3> HIDE DEF s
    <3>3. Top(table, b) > s - Desired(n, i)
      BY <2>1, <2>2, <2>7, <3>2
    <3> HIDE DEF K
    <3> QED
      BY <1>4, <2>6, <3>1, <3>3
  <2>9. pos(b) = i
    BY <1>1, <1>6, <2>1, <2>6, <2>8
  <2>10. size(table[b]) - Top(table, b) = p[2]
    BY <2>1, <2>2, <2>6, <2>7
  <2>11. f[b] = <<i, p[2]>>
    BY <2>8, <2>9, <2>10
  <2> QED
    BY <2>1, <2>8, <2>11
<1>10. IsFiniteSet(K)
  BY BucketsFinite, FS_Subset DEF Retained
<1>11. f \in [K -> P]
  BY <1>7
<1> HIDE DEF f, K, P
<1> QED
  BY <1>8, <1>9, <1>10, <1>11, SameSize DEF K, P

\* The other places are what the workers need.
LEMMA NeededCount ==
  ASSUME NEW ws, IsWorkerList(ws), NEW table
  PROVE  Cardinality(AllPlaces(Len(ws)) \ OwnPlaces(ws, table)) = NeedUpTo(ws, table, Len(ws))
<1> DEFINE n == Len(ws)
           size(i) == Cardinality(Owned(table, ws[i]))
           A == Places(ws, table, n)
           B == AllPlaces(n) \ OwnPlaces(ws, table)
           f == [p \in A |-> <<p[1], p[2] + size(p[1])>>]
<1>1. n \in 1 .. NumBuckets /\ n \in Nat /\ NumBuckets \in Nat
  BY WorkerList, NumBucketsAssumption
<1>2. ASSUME NEW i \in 1 .. n
      PROVE  /\ size(i) \in Nat /\ Desired(n, i) \in 1 .. NumBuckets
             /\ Need(ws, table, i) = IF size(i) - Desired(n, i) < 0
                                       THEN Desired(n, i) - size(i) ELSE 0
  <2>1. size(i) \in 0 .. NumBuckets /\ Desired(n, i) \in 1 .. NumBuckets
    BY <1>1, OwnedFinite, Shares, Zenon
  <2>2. /\ Excess(ws, table, ws[i]) = size(i) - Desired(n, i)
        /\ Need(ws, table, i) = IF Excess(ws, table, ws[i]) < 0
                                  THEN -Excess(ws, table, ws[i]) ELSE 0
    BY NeedType
  <2> QED
    BY <1>1, <2>1, <2>2
<1> HIDE DEF n
<1>3. \A p : p \in A <=> /\ p \in (1 .. n) \X Buckets
                         /\ p[2] < Need(ws, table, p[1])
  BY DEF Places
<1>4. \A p : p \in B <=> /\ p \in (1 .. n) \X Buckets
                         /\ p[2] < Desired(n, p[1]) /\ ~(p[2] < size(p[1]))
  BY DEF AllPlaces, OwnPlaces, n
<1>5. IsFiniteSet(A) /\ Cardinality(A) = NeedUpTo(ws, table, n)
  BY <1>1, PlacesFinite DEF NeedUpTo
<1> HIDE DEF A, B, size
<1>6. ASSUME NEW p \in A
      PROVE  f[p] \in B
  <2>1. p[1] \in 1 .. n /\ p[2] \in Nat /\ p[2] < Need(ws, table, p[1])
    BY <1>3 DEF Buckets
  <2>2. p[2] + size(p[1]) \in Nat /\ p[2] + size(p[1]) < Desired(n, p[1])
        /\ ~(p[2] + size(p[1]) < size(p[1])) /\ p[2] + size(p[1]) < NumBuckets
    BY <1>1, <1>2, <2>1
  <2>3. p[2] + size(p[1]) \in Buckets
    BY <1>1, <2>2 DEF Buckets
  <2> QED
    BY <1>4, <2>1, <2>2, <2>3
<1>7. ASSUME NEW p \in A, NEW t \in A, f[p] = f[t]
      PROVE  p = t
  <2>1. p \in (1 .. n) \X Buckets /\ t \in (1 .. n) \X Buckets
    BY <1>3
  <2>2. p[1] = t[1] /\ p[2] + size(p[1]) = t[2] + size(t[1])
    BY <1>7
  <2>3. size(p[1]) \in Nat /\ p[2] \in Nat /\ t[2] \in Nat
    BY <1>2, <2>1 DEF Buckets
  <2>4. p[2] = t[2]
    BY <2>2, <2>3
  <2> QED
    BY <2>1, <2>2, <2>4
<1>8. ASSUME NEW t \in B
      PROVE  \E p \in A : f[p] = t
  <2>1. /\ t \in (1 .. n) \X Buckets /\ t[1] \in 1 .. n /\ t[2] \in Nat /\ t[2] < NumBuckets
        /\ t[2] < Desired(n, t[1]) /\ ~(t[2] < size(t[1]))
    BY <1>4, <1>1 DEF Buckets
  <2> DEFINE x == t[2] - size(t[1])
  <2>2. x \in Nat /\ x < Need(ws, table, t[1]) /\ x < NumBuckets /\ x + size(t[1]) = t[2]
    BY <1>1, <1>2, <2>1
  <2>3. x \in Buckets
    BY <1>1, <2>2 DEF Buckets
  <2> HIDE DEF x
  <2>4. <<t[1], x>> \in A
    BY <1>3, <2>1, <2>2, <2>3
  <2>5. f[<<t[1], x>>] = t
    BY <2>1, <2>2, <2>4
  <2> QED
    BY <2>4, <2>5
<1>9. f \in [A -> B]
  BY <1>6
<1> HIDE DEF f
<1> QED
  BY <1>5, <1>7, <1>8, <1>9, SameSize DEF B, n

\* What the workers need together is what is given.
LEMMA PlacesFill ==
  ASSUME NEW ws, IsWorkerList(ws), NEW table
  PROVE  NeedUpTo(ws, table, Len(ws)) = Cardinality(Donated(ws, table))
<1> DEFINE A == AllPlaces(Len(ws))
           P == OwnPlaces(ws, table)
           K == Retained(ws, table)
           G == Donated(ws, table)
<1>1. IsFiniteSet(A) /\ Cardinality(A) = NumBuckets
  BY AllPlacesCount, WorkerList
<1>2. P \in SUBSET A /\ K \in SUBSET Buckets /\ G = Buckets \ K
  BY DEF OwnPlaces, Retained, Donated
<1>3. Cardinality(P) = Cardinality(K) /\ Cardinality(A \ P) = NeedUpTo(ws, table, Len(ws))
  BY KeptCount, NeededCount
<1> HIDE DEF A, P, K, G
<1>4. IsFiniteSet(P) /\ IsFiniteSet(K)
  BY <1>1, <1>2, BucketsFinite, FS_Subset
<1>5. A \cap P = P /\ Buckets \cap K = K
  BY <1>2
<1>6. Cardinality(A \ P) = Cardinality(A) - Cardinality(A \cap P)
  BY <1>1, <1>4, FS_Difference, Zenon
<1>7. Cardinality(Buckets \ K) = Cardinality(Buckets) - Cardinality(Buckets \cap K)
  BY <1>4, BucketsFinite, FS_Difference
<1> QED
  BY <1>1, <1>2, <1>3, <1>5, <1>6, <1>7, BucketsFinite DEF G

-----------------------------------------------------------------------------
(* The even policy: the result.                                            *)

\* A donated bucket goes to the worker whose places its turn falls into.
LEMMA RecipientTurn ==
  ASSUME NEW ws, IsWorkerList(ws), NEW table, NEW b \in Donated(ws, table)
  PROVE  \E i \in 1 .. Len(ws) :
           /\ Recipient(ws, table, b) = ws[i] /\ Need(ws, table, i) > 0
           /\ NeedUpTo(ws, table, i - 1) < Turn(ws, table, b)
           /\ Turn(ws, table, b) <= NeedUpTo(ws, table, i)
<1> DEFINE n == Len(ws)
           t == Turn(ws, table, b)
           T == {i \in DOMAIN ws : NeedUpTo(ws, table, i) >= t}
<1>1. DOMAIN ws = 1 .. n /\ n \in 1 .. NumBuckets /\ n \in Nat /\ NumBuckets \in Nat
  BY WorkerList, NumBucketsAssumption
<1>2. t \in 1 .. Cardinality(Donated(ws, table)) /\ t \in Nat
  BY Turns
<1>3. \A i \in 0 .. n : NeedUpTo(ws, table, i) \in Nat
  BY <1>1, PlacesFinite
<1> HIDE DEF n, t
<1>4. n \in T
  BY <1>1, <1>2, <1>3, PlacesFill DEF n
<1>5. T \in SUBSET Nat
  BY <1>1
<1>6. Min(T) \in T /\ \A j \in T : Min(T) <= j
  BY <1>4, <1>5, LeastElement, Zenon DEF Min
<1> DEFINE i == Min(T)
<1>7. i \in 1 .. n /\ t <= NeedUpTo(ws, table, i)
  BY <1>1, <1>2, <1>3, <1>6
<1>8. NeedUpTo(ws, table, i - 1) < t
  <2>1. CASE i = 1
    <3>1. Places(ws, table, 0) = {}
      BY DEF Places
    <3>2. NeedUpTo(ws, table, 0) = 0
      BY <3>1, FS_EmptySet DEF NeedUpTo
    <3>3. i - 1 = 0
      BY <2>1
    <3> QED
      BY <1>2, <3>2, <3>3
  <2>2. CASE i # 1
    <3>1. i - 1 \in 1 .. n /\ ~(i <= i - 1)
      BY <1>1, <1>7, <2>2
    <3>2. i - 1 \notin T
      BY <1>6, <3>1
    <3> QED
      BY <1>1, <1>2, <1>3, <3>1, <3>2
  <2> QED
    BY <2>1, <2>2
<1>9. Recipient(ws, table, b) = ws[i]
  BY DEF Recipient, t
<1> HIDE DEF T
<1>10. NeedUpTo(ws, table, i) = NeedUpTo(ws, table, i - 1) + Need(ws, table, i)
       /\ Need(ws, table, i) \in 0 .. NumBuckets
  BY <1>7, NeedStep, NeedType, Zenon DEF n
<1>11. Need(ws, table, i) > 0
  <2>1. i \in 0 .. n /\ i - 1 \in 0 .. n
    BY <1>1, <1>7
  <2> QED
    BY <1>1, <1>2, <1>3, <1>7, <1>8, <1>10, <2>1, SMTT(20)
<1> QED
  BY <1>7, <1>8, <1>9, <1>11 DEF n, t

\* The buckets of a worker that is not in the list are all given.
LEMMA KeptOwner ==
  ASSUME NEW ws, IsWorkerList(ws), NEW table, NEW b \in Buckets, b \notin Donated(ws, table)
  PROVE  table[b] \in Range(ws)
<1> SUFFICES ASSUME table[b] \notin Range(ws) PROVE FALSE
  OBVIOUS
<1> DEFINE s == Cardinality(Owned(table, table[b]))
<1>1. DesiredOf(ws, table[b]) = 0
  BY DEF DesiredOf
<1>2. s \in 0 .. NumBuckets /\ NumBuckets \in Nat
  BY OwnedFinite, NumBucketsAssumption
<1>3. b \in Owned(table, table[b])
  BY DEF Owned
<1>4. Top(table, b) \in 1 .. s
  BY <1>3, TopRank
<1>5. ~(Top(table, b) <= s - 0)
  BY <1>1 DEF Donated, Top, Excess
<1> QED
  BY <1>2, <1>4, <1>5

\* As many buckets go to a worker as it needs.
LEMMA ReceivesNeed ==
  ASSUME NEW ws, IsWorkerList(ws), NEW table, NEW i \in 1 .. Len(ws)
  PROVE  LET got == {b \in Donated(ws, table) : Recipient(ws, table, b) = ws[i]}
         IN  IsFiniteSet(got) /\ Cardinality(got) = Need(ws, table, i)
<1> DEFINE G == Donated(ws, table)
           t(b) == Turn(ws, table, b)
           N(j) == NeedUpTo(ws, table, j)
           got == {b \in G : Recipient(ws, table, b) = ws[i]}
           T == {b \in G : N(i - 1) < t(b) /\ t(b) <= N(i)}
<1>1. /\ Len(ws) \in Nat /\ i \in Nat \ {0} /\ i <= Len(ws)
      /\ \A j, k \in 1 .. Len(ws) : ws[j] = ws[k] => j = k
  BY WorkerList, NumBucketsAssumption
<1>2. /\ \A j \in Nat : N(j) \in Nat
      /\ \A j \in Nat : \A k \in 0 .. j : N(k) <= N(j)
  BY PlacesFinite
<1>3. N(i) = N(i - 1) + Need(ws, table, i) /\ N(Len(ws)) = Cardinality(G)
  BY NeedStep, PlacesFill
<1>4. Need(ws, table, i) \in Nat
  BY NeedType, NumBucketsAssumption
<1>5. \A b \in G : t(b) \in Nat
  BY Turns
<1>6. \A b \in G : \E j \in 1 .. Len(ws) :
        Recipient(ws, table, b) = ws[j] /\ N(j - 1) < t(b) /\ t(b) <= N(j)
  BY RecipientTurn
<1> HIDE DEF G, t, N
<1>7. got = T
  <2>1. ASSUME NEW b \in got
        PROVE  b \in T
    BY <1>1, <1>6
  <2>2. ASSUME NEW b \in T
        PROVE  b \in got
    <3>1. PICK j \in 1 .. Len(ws) :
            Recipient(ws, table, b) = ws[j] /\ N(j - 1) < t(b) /\ t(b) <= N(j)
      BY <1>6
    <3>2. /\ j \in Nat \ {0} /\ j - 1 \in Nat /\ i - 1 \in Nat
          /\ N(j) \in Nat /\ N(i) \in Nat /\ N(j - 1) \in Nat /\ N(i - 1) \in Nat /\ t(b) \in Nat
      <4>1. j \in Nat \ {0} /\ j - 1 \in Nat /\ i - 1 \in Nat /\ i \in Nat /\ j \in Nat
        BY <1>1
      <4>2. N(j) \in Nat /\ N(i) \in Nat /\ N(j - 1) \in Nat /\ N(i - 1) \in Nat
        BY <1>2, <4>1, Zenon
      <4>3. t(b) \in Nat
        BY <1>5, Zenon
      <4> QED
        BY <4>1, <4>2, <4>3, Zenon
    <3>3. j < i => N(j) <= N(i - 1)
      BY <1>1, <1>2, <3>2
    <3>4. i < j => N(i) <= N(j - 1)
      BY <1>1, <1>2, <3>2
    <3>5. N(i - 1) < t(b) /\ t(b) <= N(i)
      OBVIOUS
    <3>6. i = j
      BY <1>1, <3>1, <3>2, <3>3, <3>4, <3>5
    <3> QED
      BY <3>1, <3>6
  <2> HIDE DEF got, T
  <2> QED
    BY <2>1, <2>2, Zenon
<1>8. IsFiniteSet(T) /\ Cardinality(T) = N(i) - N(i - 1)
  <2>1. N(i - 1) \in Nat /\ N(i) \in Nat /\ N(i - 1) <= N(i) /\ N(i) <= Cardinality(G)
    BY <1>1, <1>2, <1>3
  <2>2. /\ IsFiniteSet(TurnsIn(ws, table, N(i - 1), N(i)))
        /\ Cardinality(TurnsIn(ws, table, N(i - 1), N(i))) = N(i) - N(i - 1)
    BY <2>1, Turns DEF G
  <2>3. T = TurnsIn(ws, table, N(i - 1), N(i))
    BY DEF TurnsIn, G, t
  <2> QED
    BY <2>2, <2>3, Zenon
<1>9. N(i) - N(i - 1) = Need(ws, table, i)
  BY <1>1, <1>2, <1>3, <1>4
<1> QED
  BY <1>7, <1>8, <1>9, Zenon DEF G

\* Whatever the table was, and whether workers come or go: after a repartition
\* of the even policy (RePartition of EvenPartitionPolicy) every bucket is with
\* a worker of the list, and every worker of the list has its share.
THEOREM EvenRePartitionEven ==
  ASSUME NEW ws, IsWorkerList(ws), NEW table
  PROVE  IsEven(ws, EvenRePartition(ws, table))
<1> DEFINE G == Donated(ws, table)
           new == EvenRePartition(ws, table)
           n == Len(ws)
<1>1. new = [b \in Buckets |-> IF b \in G THEN Recipient(ws, table, b) ELSE table[b]]
  BY DEF EvenRePartition
<1>2. DOMAIN ws = 1 .. n /\ Range(ws) = {ws[i] : i \in 1 .. n} /\ G \subseteq Buckets
  BY WorkerList, Turns
<1>3. new \in [Buckets -> Range(ws)]
  <2>1. \A b \in G : Recipient(ws, table, b) \in Range(ws)
    BY <1>2, RecipientTurn
  <2>2. \A b \in Buckets \ G : table[b] \in Range(ws)
    BY KeptOwner
  <2> QED
    BY <1>1, <2>1, <2>2
<1>4. ASSUME NEW i \in 1 .. n
      PROVE  Cardinality(Owned(new, ws[i])) = Desired(n, i)
  <2> DEFINE own == Owned(table, ws[i])
             got == {b \in G : Recipient(ws, table, b) = ws[i]}
             e == Excess(ws, table, ws[i])
  <2>1. Owned(new, ws[i]) = (own \ G) \cup got
    BY <1>1, <1>2 DEF Owned
  <2>2. /\ IsFiniteSet(own \cap G) /\ e \in Int
        /\ Cardinality(own \cap G) = IF e > 0 THEN e ELSE 0
    BY GivesExcess
  <2>3. IsFiniteSet(got) /\ Cardinality(got) = Need(ws, table, i)
    BY ReceivesNeed, Zenon
  <2>4. IsFiniteSet(own) /\ Cardinality(own) \in 0 .. NumBuckets
    BY OwnedFinite
  <2>5. /\ e = Cardinality(own) - Desired(n, i)
        /\ Need(ws, table, i) = IF e < 0 THEN -e ELSE 0
    BY NeedType
  <2>6. own \ G = own \ (own \cap G) /\ own \cap (own \cap G) = own \cap G
    OBVIOUS
  <2>7. (own \ G) \cap got = {}
    OBVIOUS
  <2> HIDE DEF own, got, e
  <2>8. /\ IsFiniteSet(own \ G)
        /\ Cardinality(own \ G) = Cardinality(own) - Cardinality(own \cap G)
    <3> DEFINE H == own \cap G
    <3>1. IsFiniteSet(own \ H) /\ Cardinality(own \ H) = Cardinality(own) - Cardinality(own \cap H)
      <4> HIDE DEF H
      <4> QED
        BY <2>4, FS_Difference, Zenon
    <3> QED
      BY <2>6, <3>1, Zenon
  <2>9. Cardinality((own \ G) \cup got)
          = Cardinality(own \ G) + Cardinality(got) - Cardinality((own \ G) \cap got)
    BY <2>3, <2>8, FS_Union
  <2>10. Cardinality((own \ G) \cap got) = 0
    BY <2>7, FS_EmptySet
  <2>11. Desired(n, i) \in Nat /\ Cardinality(own) \in Nat
    <3>1. n \in 1 .. NumBuckets
      BY WorkerList, Zenon
    <3>2. Desired(n, i) \in 1 .. NumBuckets
      BY <3>1, Shares, Zenon
    <3> HIDE DEF n
    <3> QED
      BY <2>4, <3>2, NumBucketsAssumption
  <2> QED
    BY <2>1, <2>2, <2>3, <2>5, <2>8, <2>9, <2>10, <2>11
<1> QED
  BY <1>3, <1>4 DEF IsEven

-----------------------------------------------------------------------------
(* The even policy: what moves, and that it does not refuse.               *)

LEMMA ListSize ==
  ASSUME NEW ws, IsWorkerList(ws)
  PROVE  IsFiniteSet(Range(ws)) /\ Cardinality(Range(ws)) = Len(ws)
<1> DEFINE n == Len(ws)
           D == 1 .. n
           f == [i \in D |-> ws[i]]
<1>1. /\ Range(ws) = {ws[i] : i \in D} /\ n \in Nat
      /\ \A i, j \in D : ws[i] = ws[j] => i = j
  BY WorkerList, NumBucketsAssumption
<1>2. IsFiniteSet(D) /\ Cardinality(D) = n
  <2>1. 1 \in Int /\ n \in Int /\ 1 <= n + 1 /\ n + 1 - 1 = n
    BY <1>1
  <2> QED
    BY <2>1, IntervalSize
<1>3. /\ f \in [D -> Range(ws)] /\ \A i, j \in D : f[i] = f[j] => i = j
      /\ \A w \in Range(ws) : \E i \in D : f[i] = w
  BY <1>1
<1> HIDE DEF f, D
<1> QED
  BY <1>2, <1>3, SameSize

\* In an even table every worker of the list has a bucket, and the excess of
\* one under another list is the difference of its shares.
LEMMA EvenTable ==
  ASSUME NEW os, IsWorkerList(os), NEW table, IsEven(os, table), NEW ws, IsWorkerList(ws)
  PROVE  /\ {table[b] : b \in Buckets} = Range(os)
         /\ \A j \in 1 .. Len(os) :
              Excess(ws, table, os[j]) = Desired(Len(os), j) - DesiredOf(ws, os[j])
<1>1. /\ Range(os) = {os[i] : i \in 1 .. Len(os)} /\ Len(os) \in 1 .. NumBuckets
  BY WorkerList
<1>2. table \in [Buckets -> Range(os)]
  BY DEF IsEven
<1>3. ASSUME NEW j \in 1 .. Len(os)
      PROVE  \E b \in Buckets : table[b] = os[j]
  <2>1. Cardinality(Owned(table, os[j])) = Desired(Len(os), j)
    BY DEF IsEven
  <2>2. Desired(Len(os), j) \in 1 .. NumBuckets
    BY <1>1, Shares, Zenon
  <2>3. Owned(table, os[j]) # {}
    <3>1. 0 \notin 1 .. NumBuckets
      BY NumBucketsAssumption
    <3> QED
      BY <2>1, <2>2, <3>1, FS_EmptySet, Zenon
  <2> QED
    BY <2>3 DEF Owned
<1>4. {table[b] : b \in Buckets} = Range(os)
  BY <1>1, <1>2, <1>3
<1> QED
  BY <1>4 DEF IsEven, Excess

\* A scale-up of the even policy takes buckets from the workers there are and
\* gives them to new ones only, and passes every check of RePartition.
THEOREM EvenScaleUp ==
  ASSUME NEW os, IsWorkerList(os), NEW ws, IsWorkerList(ws), NEW table, IsEven(os, table),
         Len(os) < Len(ws), \A i \in 1 .. Len(os) : ws[i] = os[i]
  PROVE  /\ ~ EvenRefuses(ws, table)
         /\ \A b \in Buckets : \/ EvenRePartition(ws, table)[b] = table[b]
                               \/ EvenRePartition(ws, table)[b] \notin Range(os)
<1> DEFINE m == Len(os)
           n == Len(ws)
           G == Donated(ws, table)
<1>1. /\ m \in 1 .. NumBuckets /\ n \in 1 .. NumBuckets /\ NumBuckets \in Nat
      /\ Range(os) = {os[i] : i \in 1 .. m} /\ Range(ws) = {ws[i] : i \in 1 .. n}
      /\ DOMAIN ws = 1 .. n
      /\ \A i, j \in 1 .. n : ws[i] = ws[j] => i = j
  BY WorkerList, NumBucketsAssumption
<1>2. 1 .. m \subseteq 1 .. n
  BY <1>1
<1>3. ASSUME NEW j \in 1 .. m
      PROVE  Excess(ws, table, ws[j]) \in Int /\ Excess(ws, table, ws[j]) >= 0
  <2>1. Excess(ws, table, ws[j]) = Desired(m, j) - Desired(n, j)
    BY <1>2, EvenTable, DesiredOfShare
  <2>2. Desired(n, j) <= Desired(m, j)
    BY <1>1, ShareShrinks
  <2>3. Desired(n, j) \in 1 .. NumBuckets /\ Desired(m, j) \in 1 .. NumBuckets
    BY <1>1, <1>2, Shares, Zenon
  <2> QED
    BY <1>1, <2>1, <2>2, <2>3
<1>4. ASSUME NEW i \in 1 .. n, Need(ws, table, i) > 0
      PROVE  ws[i] \notin Range(os)
  <2>1. Excess(ws, table, ws[i]) \in Int /\ Excess(ws, table, ws[i]) < 0
    BY <1>4, NeedType
  <2>2. i \notin 1 .. m
    BY <1>3, <2>1
  <2> QED
    BY <1>1, <1>2, <2>2
<1>5. ASSUME NEW b \in Buckets, EvenRePartition(ws, table)[b] # table[b]
      PROVE  EvenRePartition(ws, table)[b] \notin Range(os)
  <2>1. b \in G /\ EvenRePartition(ws, table)[b] = Recipient(ws, table, b)
    BY <1>5 DEF EvenRePartition
  <2> QED
    BY <1>4, <2>1, RecipientTurn
<1>6. n \in 1 .. n /\ Need(ws, table, n) > 0 /\ Need(ws, table, n) \in Nat
  <2>1. n \in 1 .. n /\ n \notin 1 .. m
    BY <1>1
  <2>2. ws[n] \notin Range(os)
    BY <1>1, <1>2, <2>1
  <2>3. Owned(table, ws[n]) = {}
    BY <2>2 DEF Owned, IsEven
  <2>4. Cardinality(Owned(table, ws[n])) = 0
    BY <2>3, FS_EmptySet
  <2>5. Desired(n, n) \in 1 .. NumBuckets
    BY <1>1, <2>1, Shares
  <2>6. /\ Excess(ws, table, ws[n]) = Cardinality(Owned(table, ws[n])) - Desired(n, n)
        /\ Need(ws, table, n) = IF Excess(ws, table, ws[n]) < 0
                                  THEN -Excess(ws, table, ws[n]) ELSE 0
    BY <2>1, NeedType
  <2> QED
    BY <1>1, <2>1, <2>4, <2>5, <2>6
<1>7. Cardinality(G) \in Nat /\ Cardinality(G) # 0 /\ NeedUpTo(ws, table, n) = Cardinality(G)
  <2>1. NeedUpTo(ws, table, n) = NeedUpTo(ws, table, n - 1) + Need(ws, table, n)
    BY <1>6, NeedStep
  <2>2. NeedUpTo(ws, table, n - 1) \in Nat
    BY <1>1, PlacesFinite
  <2> QED
    BY <1>6, <2>1, <2>2, PlacesFill
<1>8. \A w \in Range(ws) : DesiredOf(ws, w) # 0
  <2>1. \A i \in 1 .. n : DesiredOf(ws, ws[i]) = Desired(n, i)
    BY DesiredOfShare
  <2>2. \A i \in 1 .. n : Desired(n, i) \in 1 .. NumBuckets
    BY <1>1, Shares
  <2> QED
    BY <1>1, <2>1, <2>2
<1>9. {table[b] : b \in Buckets} = Range(os) /\ Range(os) \subseteq Range(ws)
  <2>1. {table[b] : b \in Buckets} = Range(os)
    BY EvenTable, Zenon
  <2>2. Range(os) \subseteq Range(ws)
    BY <1>1, <1>2
  <2> QED
    BY <2>1, <2>2, Zenon
<1>10. Cardinality(Range(os)) = m /\ Cardinality(Range(ws)) = n
  BY ListSize
<1>11. \A w \in Range(os) : Excess(ws, table, w) \in Int /\ Excess(ws, table, w) >= 0
  BY <1>1, <1>3, SMTT(20)
<1>12. IsInjective(ws)
  BY <1>1 DEF IsInjective
<1>13. ~ EvenRefuses(ws, table)
  <2>1. ~ (\E w \in Range(os) : Excess(ws, table, w) < 0)
    BY <1>11
  <2>2. m # n /\ m < n /\ ~(n < m) /\ ~(Cardinality(G) > Cardinality(G))
    BY <1>1, <1>7
  <2> HIDE DEF m, n
  <2> QED
    BY <1>7, <1>8, <1>9, <1>10, <1>12, <2>1, <2>2, Zenon DEF EvenRefuses, n
<1> QED
  BY <1>5, <1>13

\* A scale-down of the even policy moves the buckets of the workers that go and
\* no other, and passes every check of RePartition.
THEOREM EvenScaleDown ==
  ASSUME NEW os, IsWorkerList(os), NEW ws, IsWorkerList(ws), NEW table, IsEven(os, table),
         Len(ws) < Len(os), \A i \in 1 .. Len(ws) : ws[i] = os[i]
  PROVE  /\ ~ EvenRefuses(ws, table)
         /\ \A b \in Buckets : \/ EvenRePartition(ws, table)[b] = table[b]
                               \/ table[b] \notin Range(ws)
<1> DEFINE m == Len(os)
           n == Len(ws)
           G == Donated(ws, table)
<1>1. /\ m \in 1 .. NumBuckets /\ n \in 1 .. NumBuckets /\ NumBuckets \in Nat
      /\ Range(os) = {os[i] : i \in 1 .. m} /\ Range(ws) = {ws[i] : i \in 1 .. n}
      /\ DOMAIN ws = 1 .. n
      /\ \A i, j \in 1 .. n : ws[i] = ws[j] => i = j
  BY WorkerList, NumBucketsAssumption
<1>2. 1 .. n \subseteq 1 .. m
  BY <1>1
<1>3. ASSUME NEW j \in 1 .. n
      PROVE  Excess(ws, table, ws[j]) \in Int /\ Excess(ws, table, ws[j]) <= 0
  <2>1. Excess(ws, table, ws[j]) = Desired(m, j) - Desired(n, j)
    BY <1>2, EvenTable, DesiredOfShare
  <2>2. Desired(m, j) <= Desired(n, j)
    BY <1>1, ShareShrinks
  <2>3. Desired(n, j) \in 1 .. NumBuckets /\ Desired(m, j) \in 1 .. NumBuckets
    BY <1>1, <1>2, Shares, Zenon
  <2> QED
    BY <1>1, <2>1, <2>2, <2>3
<1>4. ASSUME NEW b \in Buckets, EvenRePartition(ws, table)[b] # table[b]
      PROVE  table[b] \notin Range(ws)
  <2>1. b \in G
    BY <1>4 DEF EvenRePartition
  <2>2. b \in Owned(table, table[b])
    BY DEF Owned
  <2>3. Top(table, b) \in 1 .. Cardinality(Owned(table, table[b]))
    BY <2>2, TopRank
  <2>4. Cardinality(Owned(table, table[b])) \in 0 .. NumBuckets
    BY OwnedFinite
  <2>5. Top(table, b) \in Nat /\ Top(table, b) > 0
    BY <1>1, <2>3, <2>4
  <2>6. Top(table, b) <= Excess(ws, table, table[b])
    BY <2>1 DEF Donated, Top
  <2>7. \A j \in 1 .. n : ws[j] # table[b]
    BY <1>3, <2>5, <2>6
  <2> QED
    BY <1>1, <2>7
<1>5. NeedUpTo(ws, table, n) = Cardinality(G)
  BY PlacesFill
<1>6. {table[b] : b \in Buckets} = Range(os) /\ Range(ws) \subseteq Range(os)
  <2>1. {table[b] : b \in Buckets} = Range(os)
    BY EvenTable, Zenon
  <2>2. Range(ws) \subseteq Range(os)
    BY <1>1, <1>2
  <2> QED
    BY <2>1, <2>2, Zenon
<1>7. Cardinality(Range(os)) = m /\ Cardinality(Range(ws)) = n
  BY ListSize
<1>8. \A w \in Range(ws) : Excess(ws, table, w) \in Int /\ Excess(ws, table, w) <= 0
  BY <1>1, <1>3
<1>9. IsInjective(ws)
  BY <1>1 DEF IsInjective
<1>10. ~ EvenRefuses(ws, table)
  <2>1. ~ (\E w \in Range(ws) : Excess(ws, table, w) > 0)
    BY <1>8
  <2>2. m # n /\ n < m /\ ~(m < n)
    BY <1>1
  <2> HIDE DEF m, n
  <2> QED
    BY <1>5, <1>6, <1>7, <1>9, <2>1, <2>2, Zenon DEF EvenRefuses, n
<1> QED
  BY <1>4, <1>10

-----------------------------------------------------------------------------
(* Consistent hashing.                                                     *)

\* The parts of Ring.
TokensOf(ws) ==
  UNION {{[hash |-> h, worker |-> ws[i]] : h \in Tokens[ws[i]]} : i \in DOMAIN ws}
Idx(t) == t.hash % NumBuckets
Upto(s, t) == Idx(s) < Idx(t) \/ (Idx(s) = Idx(t) /\ s.hash <= t.hash)
LastOf(ts) == CHOOSE t \in ts : \A s \in ts : Upto(s, t)
Below(ts, b) == {t \in ts : Idx(t) < b}
Candidates(ts, b) == IF Below(ts, b) = {} THEN ts ELSE Below(ts, b)

LEMMA RingByTokens ==
  ASSUME NEW ws
  PROVE  Ring(ws) = [b \in Buckets |-> LastOf(Candidates(TokensOf(ws), b)).worker]
  BY Zenon DEF Ring, TokensOf, Idx, Upto, LastOf, Below, Candidates

\* The tokens of the workers W: finitely many of each, and no two workers have
\* one in common.
TokensDistinct(W) ==
  /\ \A w \in W : Tokens[w] \in SUBSET Nat /\ IsFiniteSet(Tokens[w]) /\ Tokens[w] # {}
  /\ \A v, w \in W : v # w => Tokens[v] \cap Tokens[w] = {}

LEMMA LastExists ==
  ASSUME NEW S, IsFiniteSet(S), S # {}, NEW R, TotalOrder(S, R)
  PROVE  \E t \in S : \A s \in S : <<s, t>> \in R
<1> DEFINE n == Cardinality(S)
           T == {b \in S : n - 1 < Rank(S, R)[b] /\ Rank(S, R)[b] <= n}
<1>1. n \in Nat /\ n # 0
  BY FS_CardinalityType, FS_EmptySet
<1>2. IsFiniteSet(T) /\ Cardinality(T) = 1
  <2>1. n - 1 \in Nat /\ n - 1 <= n /\ n <= Cardinality(S) /\ n - (n - 1) = 1
    BY <1>1
  <2>2. IsFiniteSet(T) /\ Cardinality(T) = n - (n - 1)
    BY <1>1, <2>1, RankRange
  <2> QED
    BY <2>1, <2>2
<1>3. T # {}
  BY <1>2, FS_EmptySet
<1>4. PICK t \in S : n - 1 < Rank(S, R)[t] /\ Rank(S, R)[t] <= n
  BY <1>3
<1> DEFINE D == {c \in S : <<c, t>> \in R}
<1>5. D \in SUBSET S /\ Cardinality(D) = Rank(S, R)[t]
  BY DEF Rank
<1>6. Rank(S, R)[t] \in 1 .. n
  BY RankInjective
<1>7. Cardinality(D) = n
  BY <1>1, <1>4, <1>5, <1>6
<1>8. D = S
  BY <1>5, <1>7, FS_Subset, Zenon
<1> QED
  BY <1>8

\* Tokens are totally ordered by bucket and hash value.
LEMMA TokensOrdered ==
  ASSUME NEW ws, IsWorkerList(ws), TokensDistinct(Range(ws)), NEW S \in SUBSET TokensOf(ws)
  PROVE  /\ \A s, t \in S : Upto(s, t) /\ Upto(t, s) => s = t
         /\ S # {} => \E t \in S : \A s \in S : Upto(s, t)
<1>1. DOMAIN ws = 1 .. Len(ws) /\ Range(ws) = {ws[i] : i \in 1 .. Len(ws)} /\ Len(ws) \in Nat
  BY WorkerList, NumBucketsAssumption
<1>2. ASSUME NEW t \in S
      PROVE  /\ t.worker \in Range(ws) /\ t.hash \in Tokens[t.worker]
             /\ t = [hash |-> t.hash, worker |-> t.worker]
  BY <1>1 DEF TokensOf
<1>3. ASSUME NEW t \in S
      PROVE  t.hash \in Nat /\ Idx(t) \in Nat
  <2>1. t.hash \in Nat
    BY <1>2 DEF TokensDistinct
  <2> QED
    BY <2>1, NumBucketsAssumption DEF Idx
<1>4. ASSUME NEW s \in S, NEW t \in S, s.hash = t.hash
      PROVE  s = t
  <2>1. s.worker = t.worker
    BY <1>2, <1>4 DEF TokensDistinct
  <2> QED
    BY <1>2, <1>4, <2>1, Zenon
<1>5. ASSUME NEW s \in S, NEW t \in S, Upto(s, t), Upto(t, s)
      PROVE  s = t
  BY <1>3, <1>4, <1>5 DEF Upto
<1>6. IsFiniteSet(TokensOf(ws))
  <2> DEFINE part(i) == {[hash |-> h, worker |-> ws[i]] : h \in Tokens[ws[i]]}
             parts == {part(i) : i \in 1 .. Len(ws)}
             f == [i \in 1 .. Len(ws) |-> part(i)]
  <2>1. IsFiniteSet(1 .. Len(ws))
    BY <1>1, FS_Interval, 1 \in Int, Len(ws) \in Int
  <2>2. f \in Surjection(1 .. Len(ws), parts)
    BY Zenon DEF Surjection
  <2>3. IsFiniteSet(parts)
    <3> HIDE DEF f, parts
    <3> QED
      BY <2>1, <2>2, FS_Surjection, Zenon
  <2>4. ASSUME NEW i \in 1 .. Len(ws)
        PROVE  IsFiniteSet(part(i))
    <3> DEFINE g == [h \in Tokens[ws[i]] |-> [hash |-> h, worker |-> ws[i]]]
    <3>1. g \in Surjection(Tokens[ws[i]], part(i))
      BY Zenon DEF Surjection
    <3>2. IsFiniteSet(Tokens[ws[i]])
      BY <1>1 DEF TokensDistinct
    <3> HIDE DEF g, part
    <3> QED
      BY <3>1, <3>2, FS_Surjection, Zenon
  <2>5. \A T \in parts : IsFiniteSet(T)
    BY <2>4, Zenon
  <2>6. TokensOf(ws) = UNION parts
    BY <1>1 DEF TokensOf
  <2> HIDE DEF parts
  <2> QED
    BY <2>3, <2>5, <2>6, FS_UNION
<1>7. IsFiniteSet(S)
  BY <1>6, FS_Subset
<1>8. ASSUME S # {}
      PROVE  \E t \in S : \A s \in S : Upto(s, t)
  <2> DEFINE R == {p \in S \X S : Upto(p[1], p[2])}
  <2>1. \A s, t \in S : <<s, t>> \in R <=> Upto(s, t)
    OBVIOUS
  <2> HIDE DEF R
  <2>2. \A s \in S : Upto(s, s)
    BY <1>3 DEF Upto
  <2>3. ASSUME NEW a \in S, NEW b \in S, NEW c \in S, Upto(a, b), Upto(b, c)
        PROVE  Upto(a, c)
    BY <1>3, <2>3 DEF Upto
  <2>4. ASSUME NEW a \in S, NEW b \in S
        PROVE  Upto(a, b) \/ Upto(b, a)
    <3>1. a.hash \in Nat /\ b.hash \in Nat /\ Idx(a) \in Nat /\ Idx(b) \in Nat
      BY <1>3
    <3> QED
      BY <3>1 DEF Upto
  <2>5. TotalOrder(S, R)
    BY <1>5, <2>1, <2>2, <2>3, <2>4, Zenon DEF TotalOrder
  <2>6. \E t \in S : \A s \in S : <<s, t>> \in R
    BY <1>7, <1>8, <2>5, LastExists
  <2> QED
    BY <2>1, <2>6, Zenon
<1> QED
  BY <1>5, <1>8

\* Consistent hashing (GenerateBuckets of HashPartitionPolicy): of two lists, one
\* with all workers of the other, the buckets that the longer list leaves with
\* workers of the shorter one are where the shorter list has them.  A scale-up
\* moves buckets to new workers only, a scale-down those of removed ones only.
THEOREM RingConsistent ==
  ASSUME NEW os, IsWorkerList(os), NEW ws, IsWorkerList(ws),
         Range(os) \subseteq Range(ws), TokensDistinct(Range(ws)), NEW b \in Buckets
  PROVE  /\ Ring(ws)[b] \in Range(ws)
         /\ Ring(ws)[b] = Ring(os)[b] \/ Ring(ws)[b] \notin Range(os)
<1> DEFINE O == TokensOf(os)
           W == TokensOf(ws)
           t == LastOf(Candidates(W, b))
<1>1. /\ DOMAIN ws = 1 .. Len(ws) /\ Range(ws) = {ws[i] : i \in 1 .. Len(ws)}
      /\ DOMAIN os = 1 .. Len(os) /\ Range(os) = {os[i] : i \in 1 .. Len(os)}
      /\ Len(ws) \in 1 .. NumBuckets /\ NumBuckets \in Nat
  BY WorkerList, NumBucketsAssumption
<1>2. \A s : s \in W <=> \E w \in Range(ws) : \E h \in Tokens[w] : s = [hash |-> h, worker |-> w]
  BY <1>1 DEF TokensOf
<1>3. \A s : s \in O <=> \E w \in Range(os) : \E h \in Tokens[w] : s = [hash |-> h, worker |-> w]
  BY <1>1 DEF TokensOf
<1>4. O \in SUBSET W /\ \A s \in W : s.worker \in Range(os) => s \in O
  BY <1>2, <1>3
<1>5. W # {}
  <2>1. 1 \in 1 .. Len(ws)
    BY <1>1
  <2>2. ws[1] \in Range(ws) /\ Tokens[ws[1]] # {}
    BY <1>1, <2>1 DEF TokensDistinct
  <2> QED
    BY <1>2, <2>2, Zenon
<1> HIDE DEF O, W
<1>6. Candidates(W, b) \in SUBSET W /\ Candidates(W, b) # {}
  BY <1>5 DEF Candidates, Below
<1>7. t \in Candidates(W, b) /\ \A s \in Candidates(W, b) : Upto(s, t)
  BY <1>6, TokensOrdered, Zenon DEF LastOf, W
<1> HIDE DEF t
<1>8. Ring(ws)[b] = t.worker
  BY RingByTokens DEF t, W
<1>9. ASSUME t.worker \in Range(os)
      PROVE  Ring(os)[b] = t.worker
  <2>1. t \in O
    BY <1>4, <1>6, <1>7, <1>9
  <2>2. t \in Candidates(O, b) /\ Candidates(O, b) \subseteq Candidates(W, b)
    BY <1>4, <1>7, <2>1 DEF Candidates, Below
  <2>3. \A s \in Candidates(O, b) : Upto(s, t)
    BY <1>7, <2>2
  <2>4. Candidates(O, b) \in SUBSET W
    BY <1>6, <2>2
  <2>5. \A s \in Candidates(O, b) : Upto(s, t) /\ Upto(t, s) => s = t
    BY <2>2, <2>4, TokensOrdered, Zenon DEF W
  <2>6. LastOf(Candidates(O, b)) = t
    BY <2>2, <2>3, <2>5, Zenon DEF LastOf
  <2> QED
    BY <2>6, RingByTokens DEF O
<1>10. t.worker \in Range(ws)
  BY <1>2, <1>6, <1>7
<1> QED
  BY <1>8, <1>9, <1>10

-----------------------------------------------------------------------------
\* Every bucket of a set is in a maximal run of buckets of the set.
LEMMA RunAround ==
  ASSUME NEW bs \in SUBSET Buckets, NEW b \in bs
  PROVE  \E r \in ToRanges(bs) : b \in r[1] .. r[2]
<1> DEFINE Up == {n \in Nat : b + n + 1 \notin bs}
           Down == {n \in Nat : b - n - 1 \notin bs}
<1>1. b \in Nat /\ b < NumBuckets /\ NumBuckets \in Nat /\ \A c \in bs : c \in Nat /\ c < NumBuckets
  BY NumBucketsAssumption DEF Buckets
<1>2. PICK n \in Up : \A y \in Up : n <= y
  <2>1. NumBuckets \in Up
    <3>1. ~ (b + NumBuckets + 1 < NumBuckets)
      BY <1>1
    <3> QED
      BY <1>1, <3>1
  <2> HIDE DEF Up
  <2>2. Up \in SUBSET Nat /\ Up # {}
    BY <2>1 DEF Up
  <2> QED
    BY <2>2, LeastElement, Zenon
<1>3. PICK m \in Down : \A y \in Down : m <= y
  <2>1. b \in Down
    <3>1. b - b - 1 \notin Nat
      BY <1>1
    <3> QED
      BY <1>1, <3>1
  <2> HIDE DEF Down
  <2>2. Down \in SUBSET Nat /\ Down # {}
    BY <2>1 DEF Down
  <2> QED
    BY <2>2, LeastElement, Zenon
<1>4. n \in Nat /\ m \in Nat /\ b + n + 1 \notin bs /\ b - m - 1 \notin bs
  BY <1>2, <1>3
<1>5. ASSUME NEW c \in b - m .. b + n
      PROVE  c \in bs
  <2>1. CASE c = b
    BY <2>1
  <2>2. CASE c > b
    <3>1. c - b - 1 \in Nat /\ ~ (n <= c - b - 1) /\ b + (c - b - 1) + 1 = c
      BY <1>1, <1>4, <2>2
    <3> QED
      BY <1>2, <3>1
  <2>3. CASE c < b
    <3>1. b - c - 1 \in Nat /\ ~ (m <= b - c - 1) /\ b - (b - c - 1) - 1 = c
      BY <1>1, <1>4, <2>3
    <3> QED
      BY <1>3, <3>1
  <2> QED
    BY <1>1, <1>4, <2>1, <2>2, <2>3
<1>6. /\ b - m \in b - m .. b + n /\ b + n \in b - m .. b + n /\ b \in b - m .. b + n
      /\ b - m <= b + n
  BY <1>1, <1>4
<1>7. b - m \in Buckets /\ b + n \in Buckets
  BY <1>5, <1>6
<1> DEFINE r == <<b - m, b + n>>
<1>8. r \in Buckets \X Buckets /\ r[1] = b - m /\ r[2] = b + n
  BY <1>7
<1>9. r \in ToRanges(bs)
  <2>1. r[1] .. r[2] \subseteq bs
    BY <1>5, <1>8
  <2>2. r[1] - 1 \notin bs /\ r[2] + 1 \notin bs /\ r[1] <= r[2]
    BY <1>4, <1>6, <1>8
  <2> HIDE DEF r
  <2> QED
    BY <1>8, <2>1, <2>2 DEF ToRanges
<1> QED
  BY <1>6, <1>8, <1>9

\* A migration plan covers the buckets it was made from, no more and no fewer
\* (the bucket ranges of the plan, and how the receiver expands them).
THEOREM RangesExact ==
  ASSUME NEW bs \in SUBSET Buckets
  PROVE  FromRanges(ToRanges(bs)) = bs
<1>1. ASSUME NEW b \in bs
      PROVE  b \in FromRanges(ToRanges(bs))
  BY RunAround DEF FromRanges
<1>2. ASSUME NEW r \in ToRanges(bs)
      PROVE  r[1] .. r[2] \subseteq bs
  BY DEF ToRanges
<1>3. ASSUME NEW b \in FromRanges(ToRanges(bs))
      PROVE  b \in bs
  <2>1. PICK r \in ToRanges(bs) : b \in r[1] .. r[2]
    BY DEF FromRanges
  <2> QED
    BY <1>2, <2>1
<1> QED
  BY <1>1, <1>3

\* A collector that gets a serialized partition table routes by the table that
\* the coordinator made (Serialize and Deserialize of the partition map).
THEOREM TableRoundTrip ==
  ASSUME NEW W, NEW table \in [Buckets -> W]
  PROVE  Deserialize(Serialize(table)) = table
<1> DEFINE ranges == Serialize(table)
<1>1. /\ DOMAIN ranges = {table[b] : b \in Buckets}
      /\ \A w \in DOMAIN ranges : ranges[w] = ToRanges(Owned(table, w))
  BY DEF Serialize
<1> HIDE DEF ranges
<1>2. ASSUME NEW w \in DOMAIN ranges
      PROVE  FromRanges(ranges[w]) = Owned(table, w)
  <2>1. Owned(table, w) \in SUBSET Buckets
    BY DEF Owned
  <2> QED
    BY <1>1, <2>1, RangesExact
<1>3. ASSUME NEW b \in Buckets
      PROVE  (CHOOSE w \in DOMAIN ranges : b \in FromRanges(ranges[w])) = table[b]
  <2>1. table[b] \in DOMAIN ranges /\ b \in FromRanges(ranges[table[b]])
    BY <1>1, <1>2 DEF Owned
  <2>2. \A w \in DOMAIN ranges : b \in FromRanges(ranges[w]) => w = table[b]
    BY <1>2 DEF Owned
  <2> QED
    BY <2>1, <2>2
<1>4. Deserialize(ranges) = [b \in Buckets |-> table[b]]
  BY <1>3 DEF Deserialize
<1> QED
  BY <1>4 DEF ranges
=============================================================================
