---------------------------- MODULE KeyPartition ----------------------------
(***************************************************************************)
(* The partition policies: which worker owns each of the NumBuckets        *)
(* buckets, for a list of workers and, at a rescale, for the table there   *)
(* was before; and the bucket ranges in which tables and migration plans   *)
(* are sent.                                                               *)
(*                                                                         *)
(* The loops of the code are given by their result: bucket number k of the *)
(* round robin over the donors goes to the worker whose need the first k   *)
(* buckets reach.                                                          *)
(***************************************************************************)
EXTENDS Integers, Sequences, FiniteSets, FiniteSetsExt

CONSTANTS NumBuckets,
          Tokens  \* the hash values of a worker, one for each hash function

Policies == {"uniform", "consistent-even", "consistent-hashing"}
Buckets == 0 .. NumBuckets - 1

ASSUME NumBucketsAssumption == NumBuckets \in Nat \ {0}

-----------------------------------------------------------------------------
\* The count of the i-th of n workers, and the buckets before its own.
Desired(n, i) == NumBuckets \div n + (IF i <= NumBuckets % n THEN 1 ELSE 0)
Start(n, i) == (i - 1) * (NumBuckets \div n)
                 + (IF i - 1 <= NumBuckets % n THEN i - 1 ELSE NumBuckets % n)

\* One block of consecutive buckets for each worker.
Blocks(ws) ==
  LET n == Len(ws)
  IN [b \in Buckets |-> ws[CHOOSE i \in 1 .. n :
                             Start(n, i) <= b /\ b < Start(n, i) + Desired(n, i)]]

\* A token owns the buckets after its own, up to and with the next token's;
\* the last one also those of the start of the ring.
Ring(ws) ==
  LET tokens == UNION {{[hash |-> h, worker |-> ws[i]] : h \in Tokens[ws[i]]} : i \in DOMAIN ws}
      Idx(t) == t.hash % NumBuckets
      Upto(s, t) == Idx(s) < Idx(t) \/ (Idx(s) = Idx(t) /\ s.hash <= t.hash)
      LastOf(ts) == CHOOSE t \in ts : \A s \in ts : Upto(s, t)
      Below(b) == {t \in tokens : Idx(t) < b}
  IN [b \in Buckets |-> LastOf(IF Below(b) = {} THEN tokens ELSE Below(b)).worker]

GenerateBuckets(policy, ws) ==
  IF policy = "consistent-hashing" THEN Ring(ws) ELSE Blocks(ws)

-----------------------------------------------------------------------------
(***************************************************************************)
(* EvenPartitionPolicy.  A worker with more buckets than it should have    *)
(* gives its last ones; a removed worker gives all.                        *)
(***************************************************************************)
Owned(table, w) == {b \in Buckets : table[b] = w}
Position(ws, w) == CHOOSE i \in DOMAIN ws : ws[i] = w
DesiredOf(ws, w) == IF w \in Range(ws) THEN Desired(Len(ws), Position(ws, w)) ELSE 0
Excess(ws, table, w) == Cardinality(Owned(table, w)) - DesiredOf(ws, w)

Donated(ws, table) ==
  {b \in Buckets :
     Cardinality({c \in Owned(table, table[b]) : c >= b}) <= Excess(ws, table, table[b])}

\* The donors take turns in the order of their first bucket, each with the
\* last bucket it has left: the place of bucket b in that order.
Turn(ws, table, b) ==
  LET given == Donated(ws, table)
      Round(c) == Cardinality({d \in given : table[d] = table[c] /\ d > c})
      First(c) == Min(Owned(table, table[c]))
  IN Cardinality({c \in given : \/ Round(c) < Round(b)
                                \/ Round(c) = Round(b) /\ First(c) <= First(b)})

\* What the i-th worker still needs, and the first i of them together: the
\* places they have for other buckets.
Need(ws, table, i) == IF Excess(ws, table, ws[i]) < 0 THEN -Excess(ws, table, ws[i]) ELSE 0
Places(ws, table, i) == {p \in (1 .. i) \X Buckets : p[2] < Need(ws, table, p[1])}
NeedUpTo(ws, table, i) == Cardinality(Places(ws, table, i))

FaultFirstTakesAll(ws, table, b) == ws[Min({i \in DOMAIN ws : Need(ws, table, i) > 0})]

Recipient(ws, table, b) ==
  ws[Min({i \in DOMAIN ws : NeedUpTo(ws, table, i) >= Turn(ws, table, b)})]

EvenRePartition(ws, table) ==
  LET given == Donated(ws, table)
  IN [b \in Buckets |-> IF b \in given THEN Recipient(ws, table, b) ELSE table[b]]

\* The checks of the even policy that end in log.Fatalf.
EvenRefuses(ws, table) ==
  LET updated == Range(ws)
      existing == {table[b] : b \in Buckets}
      given == Cardinality(Donated(ws, table))
      ScaleUpInvalid ==
        \/ ~ (existing \subseteq updated)
        \/ \E w \in existing : Excess(ws, table, w) < 0
        \/ given = 0
        \/ \E w \in updated \ existing : DesiredOf(ws, w) = 0
        \/ NeedUpTo(ws, table, Len(ws)) > given
      ScaleDownInvalid ==
        \/ ~ (updated \subseteq existing)
        \/ \E w \in updated : Excess(ws, table, w) > 0
        \/ NeedUpTo(ws, table, Len(ws)) # given
  IN \/ ~ IsInjective(ws)
     \/ Cardinality(updated) = Cardinality(existing)
     \/ Cardinality(updated) > Cardinality(existing) /\ ScaleUpInvalid
     \/ Cardinality(updated) < Cardinality(existing) /\ ScaleDownInvalid

-----------------------------------------------------------------------------
\* Every policy refuses a list that is empty or longer than the buckets.
Refuses(policy, ws, table) ==
  \/ Len(ws) = 0 \/ Len(ws) > NumBuckets
  \/ policy = "consistent-even" /\ EvenRefuses(ws, table)

FaultRegenerated(policy, ws, table) == GenerateBuckets(policy, ws)

RePartition(policy, ws, table) ==
  IF policy = "consistent-even" THEN EvenRePartition(ws, table)
                                ELSE GenerateBuckets(policy, ws)

-----------------------------------------------------------------------------
(***************************************************************************)
(* Bucket ranges: the maximal runs of consecutive buckets of a set, in the *)
(* migration plan, or of one owner, in a serialized partition table.       *)
(***************************************************************************)
ToRanges(bs) ==
  {r \in Buckets \X Buckets :
     r[1] .. r[2] \subseteq bs /\ r[1] <= r[2] /\ r[1] - 1 \notin bs /\ r[2] + 1 \notin bs}

FromRanges(ranges) == UNION {r[1] .. r[2] : r \in ranges}

Serialize(table) ==
  [w \in {table[b] : b \in Buckets} |-> ToRanges(Owned(table, w))]

Deserialize(ranges) ==
  [b \in Buckets |-> CHOOSE w \in DOMAIN ranges : b \in FromRanges(ranges[w])]

\* The buckets that change hands, by source and destination.
OwnerChanges(old, new) ==
  {[src |-> m[1], dst |-> m[2],
    ranges |-> ToRanges({b \in Buckets : old[b] = m[1] /\ new[b] = m[2]})] :
     m \in {<<old[b], new[b]>> : b \in {c \in Buckets : old[c] # new[c]}}}
=============================================================================
