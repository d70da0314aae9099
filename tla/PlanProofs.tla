------------------------------ MODULE PlanProofs ------------------------------
(***************************************************************************)
(* The partition of a job through any number of rescales: it stays even,   *)
(* and no rescale moves a bucket between workers that stay.                *)
(***************************************************************************)
EXTENDS StopRestartInv, KeyPartitionProofs

\* From the list os to c.updated: workers are added at its end or taken away
\* from there.
IsChange(os, c) ==
  /\ IsWorkerList(c.updated)
  /\ \/ /\ Len(os) < Len(c.updated) /\ \A i \in 1 .. Len(os) : c.updated[i] = os[i]
        /\ c.added = Range(c.updated) \ Range(os) /\ c.removed = {}
     \/ /\ Len(c.updated) < Len(os) /\ \A i \in 1 .. Len(c.updated) : c.updated[i] = os[i]
        /\ c.removed = Range(os) \ Range(c.updated) /\ c.added = {}

IsPartition(policy, ws, table) ==
  /\ policy # "consistent-hashing" => IsEven(ws, table)
  /\ policy = "consistent-hashing" => table = Ring(ws)

\* A list of workers that are not in the pool any more.
IsAllocated(ws, free) ==
  IsWorkerList(ws) /\ Range(ws) \subseteq Workers /\ Range(ws) \cap Range(free) = {}

NoRepeat(s) == \A i, j \in 1 .. Len(s) : s[i] = s[j] => i = j

IsFree(free) == free \in Seq(Workers) /\ NoRepeat(free)

PlanInv ==
  /\ job \in Jobs /\ step \in Steps
  /\ plan = [tasks |-> plan.tasks, free |-> plan.free, ups |-> plan.ups, table |-> plan.table]
  /\ IsFree(plan.free) /\ IsAllocated(plan.tasks, plan.free)
  /\ step \in {"pause", "drain", "migrate", "tasks"} =>
       IsAllocated(change.updated, plan.free) /\ IsChange(plan.tasks, change)
  /\ IsPartition(job.policy, Owners, plan.table)

-----------------------------------------------------------------------------
LEMMA JobFacts ==
  ASSUME job \in Jobs
  PROVE  /\ job.policy \in Policies /\ job.parallelism \in 1 .. Len(Pool)
         /\ job.parallelism <= NumBuckets
  BY ConstantsAssumption, Zenon DEF JobType

LEMMA PoolFacts ==
  /\ Pool \in Seq(Workers) /\ Len(Pool) \in Nat /\ DOMAIN Pool = 1 .. Len(Pool)
  /\ \A i, j \in 1 .. Len(Pool) : Pool[i] = Pool[j] => i = j
<1>1. Pool \in Seq(Workers) /\ IsInjective(Pool)
  BY ConstantsAssumption, Zenon
<1> QED
  BY <1>1 DEF IsInjective

\* The pool without its first elements.
LEMMA Taken ==
  ASSUME NEW free, IsFree(free), NEW k \in 0 .. Len(free)
  PROVE  LET first == SubSeq(free, 1, k)
             rest == SubSeq(free, k + 1, Len(free)) IN
         /\ first \in Seq(Workers) /\ Len(first) = k /\ \A i \in 1 .. k : first[i] = free[i]
         /\ IsFree(rest)
         /\ Range(first) \subseteq Range(free) /\ Range(rest) \subseteq Range(free)
         /\ Range(first) \cap Range(rest) = {}
<1> DEFINE first == SubSeq(free, 1, k)
           rest == SubSeq(free, k + 1, Len(free))
<1>1. free \in Seq(Workers) /\ Len(free) \in Nat /\ DOMAIN free = 1 .. Len(free)
  BY DEF IsFree, NoRepeat
<1>2. first \in Seq(Workers) /\ Len(first) = k /\ \A i \in 1 .. k : first[i] = free[i]
  BY <1>1
<1>3. /\ rest \in Seq(Workers) /\ Len(rest) = Len(free) - k
      /\ \A i \in 1 .. Len(free) - k : rest[i] = free[i + k]
  <2>1. k + 1 \in Int /\ Len(free) - (k + 1) + 1 = Len(free) - k /\ Len(free) - k \in Nat
    BY <1>1
  <2>2. \A i \in k + 1 .. Len(free) : i \in 1 .. Len(free)
    BY <1>1
  <2>3. rest = [i \in 1 .. Len(free) - k |-> free[i + k]]
    <3>1. rest = [i \in 1 .. Len(free) - (k + 1) + 1 |-> free[i + (k + 1) - 1]]
      BY <2>1 DEF SubSeq
    <3>2. \A i \in 1 .. Len(free) - k : i + (k + 1) - 1 = i + k
      BY <1>1
    <3> QED
      BY <2>1, <3>1, <3>2, Zenon
  <2>4. \A i \in 1 .. Len(free) - k : free[i + k] \in Workers
    BY <1>1
  <2> HIDE DEF rest
  <2> QED
    BY <2>1, <2>3, <2>4
<1> HIDE DEF first, rest
<1>4. Range(free) = {free[i] : i \in 1 .. Len(free)}
  BY <1>1, Zenon DEF Range
<1>5. Range(first) = {free[i] : i \in 1 .. k}
  <2>1. DOMAIN first = 1 .. k
    BY <1>2
  <2> QED
    BY <1>2, <2>1, Zenon DEF Range
<1>6. Range(rest) = {free[i] : i \in k + 1 .. Len(free)}
  <2>1. DOMAIN rest = 1 .. Len(free) - k
    BY <1>3
  <2>2. \A i \in 1 .. Len(free) - k : i + k \in k + 1 .. Len(free)
    BY <1>1
  <2>3. \A i \in k + 1 .. Len(free) : i - k \in 1 .. Len(free) - k /\ (i - k) + k = i
    BY <1>1
  <2>4. \A i \in k + 1 .. Len(free) : rest[i - k] = free[i]
    BY <1>3, <2>3, Zenon
  <2>5. Range(rest) = {rest[i] : i \in 1 .. Len(free) - k}
    BY <2>1, Zenon DEF Range
  <2>6. ASSUME NEW w \in Range(rest)
        PROVE  w \in {free[i] : i \in k + 1 .. Len(free)}
    <3>1. PICK i \in 1 .. Len(free) - k : w = rest[i]
      BY <2>5, Zenon
    <3> QED
      BY <1>3, <2>2, <3>1, Zenon
  <2>7. ASSUME NEW i \in k + 1 .. Len(free)
        PROVE  free[i] \in Range(rest)
    BY <2>3, <2>4, <2>5, Zenon
  <2> QED
    BY <2>6, <2>7, Zenon
<1>7. \A i, j \in 1 .. Len(free) : free[i] = free[j] => i = j
  BY Zenon DEF IsFree, NoRepeat
<1>8. IsFree(rest)
  <2> SUFFICES ASSUME NEW i \in 1 .. Len(rest), NEW j \in 1 .. Len(rest), rest[i] = rest[j]
               PROVE  i = j
    BY <1>3, Zenon DEF IsFree, NoRepeat
  <2>1. i + k \in 1 .. Len(free) /\ j + k \in 1 .. Len(free)
    BY <1>1, <1>3
  <2>2. free[i + k] = free[j + k]
    BY <1>3, Zenon
  <2>3. i + k = j + k
    BY <1>7, <2>1, <2>2, Zenon
  <2> QED
    BY <1>1, <1>3, <2>3
<1>9. Range(first) \subseteq Range(free) /\ Range(rest) \subseteq Range(free)
  BY <1>1, <1>4, <1>5, <1>6
<1>10. Range(first) \cap Range(rest) = {}
  BY <1>1, <1>5, <1>6, <1>7
<1> QED
  BY <1>2, <1>8, <1>9, <1>10, Zenon DEF first, rest

LEMMA ListFacts ==
  ASSUME NEW ws, ws \in Seq(Workers), Len(ws) \in 1 .. NumBuckets,
         NoRepeat(ws)
  PROVE  IsWorkerList(ws)
<1>1. DOMAIN ws = 1 .. Len(ws)
  OBVIOUS
<1>2. Range(ws) = {ws[i] : i \in 1 .. Len(ws)}
  BY <1>1, Zenon DEF Range
<1>3. ws \in Seq(Range(ws))
  BY <1>1, <1>2
<1> QED
  BY <1>2, <1>3, Zenon DEF IsWorkerList, NoRepeat

\* A list with workers of the pool at its end.
Grows(os, more, ws) ==
  /\ IsWorkerList(ws) /\ Len(ws) = Len(os) + Len(more)
  /\ \A i \in 1 .. Len(os) : ws[i] = os[i]
  /\ Range(ws) = Range(os) \cup Range(more)

LEMMA Grown ==
  ASSUME NEW os, IsWorkerList(os), Range(os) \subseteq Workers,
         NEW more, more \in Seq(Workers), NoRepeat(more),
         Range(os) \cap Range(more) = {}, Len(os) + Len(more) <= NumBuckets
  PROVE  Grows(os, more, os \o more)
<1> DEFINE ws == os \o more
           now == Len(os)
           k == Len(more)
           n == now + k
<1>1. /\ now \in Nat /\ now >= 1 /\ NumBuckets \in Nat
      /\ Range(os) = {os[i] : i \in 1 .. now} /\ DOMAIN os = 1 .. now
      /\ \A i, j \in 1 .. now : os[i] = os[j] => i = j
  BY WorkerList, NumBucketsAssumption
<1>2. os \in Seq(Workers)
  BY <1>1 DEF IsWorkerList
<1>3. k \in Nat /\ Range(more) = {more[i] : i \in 1 .. k}
  BY DEF Range
<1>4. /\ ws \in Seq(Workers) /\ Len(ws) = n
      /\ \A i \in 1 .. now : ws[i] = os[i]
      /\ \A i \in now + 1 .. n : ws[i] = more[i - now]
  BY <1>1, <1>2, <1>3
<1>5. \A i, j \in 1 .. k : more[i] = more[j] => i = j
  BY Zenon DEF NoRepeat
<1>6. n \in Nat /\ n >= 1 /\ n <= NumBuckets
  BY <1>1, <1>3
<1>7. \A i \in 1 .. n : i \in 1 .. now \/ (i \in now + 1 .. n /\ i - now \in 1 .. k)
  BY <1>1, <1>3
<1>8. /\ \A i \in 1 .. now : i \in 1 .. n
      /\ \A i \in 1 .. k : i + now \in now + 1 .. n /\ i + now \in 1 .. n /\ (i + now) - now = i
  BY <1>1, <1>3
<1>9. \A i, j \in 1 .. n : i - now = j - now => i = j
  BY <1>1, <1>3
<1> HIDE DEF now, k, n, ws
<1>10. \A i \in 1 .. n : \/ i \in 1 .. now /\ ws[i] = os[i] /\ ws[i] \in Range(os)
                         \/ /\ i - now \in 1 .. k
                            /\ ws[i] = more[i - now] /\ ws[i] \in Range(more)
  <2> SUFFICES ASSUME NEW i \in 1 .. n
               PROVE  \/ i \in 1 .. now /\ ws[i] = os[i] /\ ws[i] \in Range(os)
                      \/ /\ i - now \in 1 .. k
                         /\ ws[i] = more[i - now] /\ ws[i] \in Range(more)
    BY Zenon
  <2>1. CASE i \in 1 .. now
    BY <1>1, <1>4, <2>1, Zenon
  <2>2. CASE i \in now + 1 .. n /\ i - now \in 1 .. k
    BY <1>3, <1>4, <2>2, Zenon
  <2> QED
    BY <1>7, <2>1, <2>2, Zenon
<1>11. \A i, j \in 1 .. n : ws[i] = ws[j] => i = j
  BY <1>1, <1>5, <1>9, <1>10, Zenon
<1>12. IsWorkerList(ws) /\ Range(ws) = {ws[i] : i \in 1 .. n}
  <2>1. Len(ws) \in 1 .. NumBuckets
    BY <1>1, <1>4, <1>6
  <2>2. ws \in Seq(Workers) /\ NoRepeat(ws)
    BY <1>4, <1>11, Zenon DEF NoRepeat
  <2>3. IsWorkerList(ws)
    BY <2>1, <2>2, ListFacts, ZenonT(30)
  <2> QED
    BY <1>4, <2>3, WorkerList, Zenon
<1>13. \A w \in Range(os) : w \in Range(ws)
  BY <1>1, <1>4, <1>8, <1>12
<1>14. \A w \in Range(more) : w \in Range(ws)
  <2>1. \A i \in 1 .. k : ws[i + now] = more[i]
    BY <1>4, <1>8, Zenon
  <2>2. \A i \in 1 .. k : more[i] \in Range(ws)
    BY <1>8, <1>12, <2>1, Zenon
  <2> SUFFICES ASSUME NEW w \in Range(more)
               PROVE  w \in Range(ws)
    BY Zenon
  <2>3. PICK i \in 1 .. k : w = more[i]
    BY <1>3, Zenon
  <2> QED
    BY <2>2, <2>3, Zenon
<1>15. \A w \in Range(ws) : w \in Range(os) \/ w \in Range(more)
  BY <1>10, <1>12, Zenon
<1>16. Range(ws) = Range(os) \cup Range(more)
  BY <1>13, <1>14, <1>15, Zenon
<1> QED
  BY <1>4, <1>12, <1>16, Zenon DEF now, k, n, ws, Grows

\* A list without its last workers.
Shrinks(os, n, ws, rest) ==
  /\ IsWorkerList(ws) /\ Len(ws) = n /\ \A i \in 1 .. n : ws[i] = os[i]
  /\ Range(ws) \subseteq Range(os) /\ Range(rest) = Range(os) \ Range(ws)

LEMMA Shrunk ==
  ASSUME NEW os, IsWorkerList(os), Range(os) \subseteq Workers, NEW n \in Nat \ {0}, n < Len(os)
  PROVE  Shrinks(os, n, SubSeq(os, 1, n), SubSeq(os, n + 1, Len(os)))
<1> DEFINE now == Len(os)
           ws == SubSeq(os, 1, n)
           rest == SubSeq(os, n + 1, now)
<1>1. /\ now \in Nat /\ now >= 1 /\ now <= NumBuckets /\ NumBuckets \in Nat
      /\ Range(os) = {os[i] : i \in 1 .. now} /\ DOMAIN os = 1 .. now
      /\ \A i, j \in 1 .. now : os[i] = os[j] => i = j
  BY WorkerList, NumBucketsAssumption
<1>2. IsFree(os) /\ n \in 0 .. Len(os)
  BY <1>1 DEF IsFree, NoRepeat, IsWorkerList
<1>3. /\ ws \in Seq(Workers) /\ Len(ws) = n /\ \A i \in 1 .. n : ws[i] = os[i]
      /\ Range(ws) \subseteq Range(os) /\ Range(rest) \subseteq Range(os)
      /\ Range(ws) \cap Range(rest) = {}
  BY <1>2, Taken, Zenon
<1>4. rest = [i \in 1 .. now - n |-> os[i + n]]
  <2>1. now - (n + 1) + 1 = now - n /\ \A i \in 1 .. now - n : i + (n + 1) - 1 = i + n
    BY <1>1
  <2>2. rest = [i \in 1 .. now - (n + 1) + 1 |-> os[i + (n + 1) - 1]]
    BY DEF SubSeq
  <2> QED
    BY <2>1, <2>2, Zenon
<1> HIDE DEF ws, rest
<1>5. IsWorkerList(ws) /\ Range(ws) = {ws[i] : i \in 1 .. n}
  <2>1. \A i \in 1 .. n : i \in 1 .. now
    BY <1>1
  <2>2. \A i, j \in 1 .. n : ws[i] = ws[j] => i = j
    BY <1>1, <1>3, <2>1, Zenon
  <2>3. Len(ws) \in 1 .. NumBuckets
    BY <1>1, <1>3
  <2>4. ws \in Seq(Workers) /\ NoRepeat(ws)
    BY <1>3, <2>2, Zenon DEF NoRepeat
  <2>5. IsWorkerList(ws)
    BY <2>3, <2>4, ListFacts, Zenon
  <2> QED
    BY <1>3, <2>5, WorkerList, Zenon
<1>6. ASSUME NEW i \in 1 .. now
      PROVE  os[i] \in Range(ws) \/ os[i] \in Range(rest)
  <2>1. CASE i <= n
    <3>1. i \in 1 .. n
      BY <1>1, <2>1
    <3> QED
      BY <1>3, <1>5, <3>1, Zenon
  <2>2. CASE ~ (i <= n)
    <3>1. i - n \in 1 .. now - n /\ (i - n) + n = i
      BY <1>1, <2>2
    <3>2. rest[i - n] = os[i] /\ i - n \in DOMAIN rest
      BY <1>4, <3>1, Zenon
    <3> QED
      BY <3>2, Zenon DEF Range
  <2> QED
    BY <2>1, <2>2, Zenon
<1>7. \A w \in Range(os) : w \in Range(ws) \/ w \in Range(rest)
  BY <1>1, <1>6, Zenon
<1> QED
  BY <1>3, <1>5, <1>7, Zenon DEF Shrinks, ws, rest

\* A change that prepareReconfiguration makes is one at the end of the list.
LEMMA PreparedChange ==
  ASSUME IsFree(plan.free), IsAllocated(plan.tasks, plan.free),
         NEW n \in Nat \ {0}, n # Len(plan.tasks), n <= NumBuckets,
         n - Len(plan.tasks) <= Len(plan.free)
  PROVE  /\ IsChange(plan.tasks, Prepared(n)) /\ IsFree(Available(n))
         /\ IsAllocated(Prepared(n).updated, Available(n))
         /\ IsAllocated(plan.tasks, Available(n))
         /\ Prepared(n).added \subseteq Range(plan.free)
         /\ Range(Available(n)) \subseteq Range(plan.free)
<1> DEFINE os == plan.tasks
           free == plan.free
           now == Len(os)
<1>1. /\ IsWorkerList(os) /\ Range(os) \subseteq Workers /\ Range(os) \cap Range(free) = {}
      /\ now \in Nat /\ free \in Seq(Workers) /\ Len(free) \in Nat
      /\ IsFree(free) /\ n - now <= Len(free)
  <2>1. IsWorkerList(os) /\ Range(os) \subseteq Workers /\ Range(os) \cap Range(free) = {}
    BY Zenon DEF IsAllocated
  <2>2. now \in Nat
    BY <2>1, WorkerList, NumBucketsAssumption
  <2>3. free \in Seq(Workers) /\ Len(free) \in Nat
    BY DEF IsFree, NoRepeat
  <2> QED
    BY <2>1, <2>2, <2>3, Zenon
<1>2. CASE n > now
  <2> DEFINE k == n - now
             more == SubSeq(free, 1, k)
             rest == SubSeq(free, k + 1, Len(free))
             ws == os \o more
  <2>1. /\ Prepared(n).updated = ws /\ Prepared(n).added = Range(more)
        /\ Prepared(n).removed = {} /\ Available(n) = rest
    BY <1>2, Zenon DEF Prepared, Available
  <2> HIDE DEF now, free, os
  <2>2. k \in 0 .. Len(free) /\ k \in Nat /\ now + k = n
    BY <1>1, <1>2
  <2> HIDE DEF k
  <2>3. /\ more \in Seq(Workers) /\ Len(more) = k /\ \A i \in 1 .. k : more[i] = free[i]
        /\ IsFree(rest)
        /\ Range(more) \subseteq Range(free) /\ Range(rest) \subseteq Range(free)
        /\ Range(more) \cap Range(rest) = {}
    BY <1>1, <2>2, Taken, Zenon
  <2> HIDE DEF more, rest
  <2>4. NoRepeat(more)
    <3>1. \A i \in 1 .. k : i \in 1 .. Len(free)
      BY <1>1, <2>2
    <3> QED
      BY <1>1, <2>3, <3>1, Zenon DEF IsFree, NoRepeat
  <2>5. Range(os) \cap Range(more) = {} /\ now + Len(more) = n
    BY <1>1, <2>2, <2>3, Zenon
  <2>6. /\ IsWorkerList(ws) /\ Len(ws) = n /\ \A i \in 1 .. now : ws[i] = os[i]
        /\ Range(ws) = Range(os) \cup Range(more)
    <3>1. Len(os) + Len(more) <= NumBuckets
      BY <2>5, Zenon DEF now
    <3>2. /\ IsWorkerList(os) /\ Range(os) \subseteq Workers /\ more \in Seq(Workers)
          /\ Range(os) \cap Range(more) = {}
      BY <1>1, <2>3, <2>5, Zenon
    <3>3. Grows(os, more, ws)
      BY <2>4, <3>1, <3>2, Grown, ZenonT(30)
    <3> HIDE DEF ws
    <3> QED
      BY <1>1, <2>5, <3>3, Zenon DEF now, Grows
  <2> HIDE DEF ws
  <2>7. IsChange(os, Prepared(n))
    <3>1. Range(more) = Range(ws) \ Range(os)
      BY <2>5, <2>6, Zenon
    <3> QED
      BY <1>2, <2>1, <2>6, <3>1, Zenon DEF IsChange, now
  <2>8. Range(more) \subseteq Workers
    BY <2>3 DEF Range
  <2>9. IsAllocated(ws, rest) /\ IsAllocated(os, rest)
    BY <1>1, <2>3, <2>6, <2>8, Zenon DEF IsAllocated
  <2> QED
    BY <2>1, <2>3, <2>7, <2>9, Zenon DEF os, free
<1>3. CASE n < now
  <2> DEFINE ws == SubSeq(os, 1, n)
             rest == SubSeq(os, n + 1, now)
  <2>1. ~ (n > now)
    BY <1>1, <1>3
  <2>2. /\ Prepared(n).updated = ws /\ Prepared(n).removed = Range(rest)
        /\ Prepared(n).added = {} /\ Available(n) = free
    BY <2>1, Zenon DEF Prepared, Available
  <2> HIDE DEF free, os
  <2>3. /\ IsWorkerList(ws) /\ Len(ws) = n /\ \A i \in 1 .. n : ws[i] = os[i]
        /\ Range(ws) \subseteq Range(os) /\ Range(rest) = Range(os) \ Range(ws)
    <3>1. IsWorkerList(os) /\ Range(os) \subseteq Workers /\ n < Len(os)
      BY <1>1, <1>3, Zenon
    <3>2. Shrinks(os, n, ws, rest)
      BY <3>1, Shrunk, ZenonT(30)
    <3> HIDE DEF ws, rest
    <3> QED
      BY <3>2, Zenon DEF Shrinks
  <2> HIDE DEF ws, rest
  <2>4. IsChange(os, Prepared(n))
    BY <1>3, <2>2, <2>3, Zenon DEF IsChange
  <2>5. IsAllocated(ws, free) /\ IsAllocated(os, free)
    BY <1>1, <2>3, Zenon DEF IsAllocated
  <2> QED
    BY <1>1, <2>2, <2>4, <2>5, Zenon DEF os, free
<1> QED
  BY <1>1, <1>2, <1>3

-----------------------------------------------------------------------------
LEMMA PlanInit == Init => PlanInv
<1> SUFFICES ASSUME Init
             PROVE  PlanInv
  BY Zenon
<1> DEFINE n == job.parallelism
           tasks == SubSeq(Pool, 1, n)
           free == SubSeq(Pool, n + 1, Len(Pool))
<1>1. /\ job \in Jobs /\ step = "deploy"
      /\ plan = [tasks |-> tasks, free |-> free, ups |-> job.ups,
                 table |-> GenerateBuckets(job.policy, tasks)]
  BY Zenon DEF Init
<1>2. n \in 1 .. Len(Pool) /\ n <= NumBuckets /\ n \in 0 .. Len(Pool)
  BY <1>1, JobFacts, PoolFacts
<1>3. IsFree(Pool)
  BY PoolFacts, Zenon DEF IsFree, NoRepeat
<1> HIDE DEF n
<1>4. /\ tasks \in Seq(Workers) /\ Len(tasks) = n /\ \A i \in 1 .. n : tasks[i] = Pool[i]
      /\ IsFree(free)
      /\ Range(tasks) \subseteq Range(Pool) /\ Range(free) \subseteq Range(Pool)
      /\ Range(tasks) \cap Range(free) = {}
  BY <1>2, <1>3, Taken, Zenon
<1>5. plan.tasks = tasks /\ plan.free = free /\ plan.table = GenerateBuckets(job.policy, tasks)
  BY <1>1, ZenonT(30)
<1>6. plan = [tasks |-> plan.tasks, free |-> plan.free, ups |-> plan.ups, table |-> plan.table]
  BY <1>1, Zenon
<1> HIDE DEF tasks, free
<1>7. IsWorkerList(tasks)
  <2>1. \A i \in 1 .. n : i \in 1 .. Len(Pool)
    BY <1>2, PoolFacts
  <2>2. NoRepeat(tasks)
    BY <1>4, <2>1, PoolFacts, Zenon DEF NoRepeat
  <2>3. Len(tasks) \in 1 .. NumBuckets
    BY <1>2, <1>4, NumBucketsAssumption
  <2> QED
    BY <1>4, <2>2, <2>3, ListFacts, Zenon
<1>8. IsPartition(job.policy, tasks, GenerateBuckets(job.policy, tasks))
  BY <1>7, BlocksEven, Zenon DEF IsPartition, GenerateBuckets
<1>9. IsAllocated(tasks, free)
  BY <1>4, <1>7, Zenon DEF IsAllocated, Workers
<1> QED
  BY <1>1, <1>4, <1>5, <1>6, <1>8, <1>9, Zenon DEF PlanInv, Owners, Steps

\* Most steps change neither the plan nor where the coordinator is.
LEMMA PlanKept ==
  ASSUME PlanInv, UNCHANGED <<job, step, plan, change>>
  PROVE  PlanInv'
<1>1. Owners' = Owners
  BY Zenon DEF Owners
<1> QED
  BY <1>1, Zenon DEF PlanInv

\* Steps of the coordinator that leave plan and change alone.
LEMMA PlanAdvance ==
  ASSUME PlanInv, UNCHANGED <<job, plan, change>>,
         \/ step = "deploy" /\ step' = "idle"
         \/ step = "pause" /\ step' = "drain"
         \/ step = "migrate" /\ step' = "tasks"
         \/ step = "routing" /\ step' = "resume"
         \/ step = "resume" /\ step' = "idle"
  PROVE  PlanInv'
<1>1. Owners' = Owners
  BY Zenon DEF Owners
<1> QED
  BY <1>1, Zenon DEF PlanInv, Steps

LEMMA PlanRescale ==
  ASSUME PlanInv, NEW n \in 1 .. Len(Pool), Rescale(n)
  PROVE  PlanInv'
<1>1. /\ step = "idle" /\ step' = "pause" /\ job' = job
      /\ change' = Prepared(n) /\ plan' = [plan EXCEPT !.free = Available(n)]
      /\ n # Len(plan.tasks) /\ n <= NumBuckets /\ n - Len(plan.tasks) <= Len(plan.free)
  BY Zenon DEF Rescale, Advance
<1>2. /\ plan'.tasks = plan.tasks /\ plan'.table = plan.table /\ plan'.free = Available(n)
      /\ plan' = [tasks |-> plan'.tasks, free |-> plan'.free, ups |-> plan'.ups,
                  table |-> plan'.table]
  BY <1>1, Zenon DEF PlanInv
<1>3. n \in Nat \ {0}
  BY PoolFacts
<1>4. IsFree(plan.free) /\ IsAllocated(plan.tasks, plan.free)
  BY Zenon DEF PlanInv
<1>5. /\ IsChange(plan.tasks, Prepared(n)) /\ IsFree(Available(n))
      /\ IsAllocated(Prepared(n).updated, Available(n))
      /\ IsAllocated(plan.tasks, Available(n))
  BY <1>1, <1>3, <1>4, PreparedChange, Zenon
<1>6. Owners' = Owners
  BY <1>1, <1>2, Zenon DEF Owners
<1>7. job' \in Jobs /\ step' \in Steps
  BY <1>1, Zenon DEF PlanInv, Steps
<1> QED
  BY <1>1, <1>2, <1>5, <1>6, <1>7, Zenon DEF PlanInv

\* What RePartition makes of a partition for os, if the change is one of its end.
LEMMA RePartitionFacts ==
  ASSUME NEW policy \in Policies, NEW os, IsWorkerList(os), NEW c, IsChange(os, c),
         NEW table, IsPartition(policy, os, table),
         TokensDistinct(Range(os) \cup Range(c.updated))
  PROVE  /\ IsPartition(policy, c.updated, RePartition(policy, c.updated, table))
         /\ ~ Refuses(policy, c.updated, table)
         /\ policy # "uniform" =>
              \A b \in Buckets : \/ RePartition(policy, c.updated, table)[b] = table[b]
                                 \/ table[b] \in c.removed
                                 \/ RePartition(policy, c.updated, table)[b] \in c.added
<1> DEFINE ws == c.updated
           new == RePartition(policy, ws, table)
<1>1. IsWorkerList(ws)
  BY Zenon DEF IsChange
<1>2. IsPartition(policy, ws, new)
  <2>1. CASE policy = "uniform"
    BY <1>1, <2>1, BlocksEven, Zenon DEF IsPartition, RePartition, GenerateBuckets
  <2>2. CASE policy = "consistent-even"
    BY <1>1, <2>2, EvenRePartitionEven, Zenon DEF IsPartition, RePartition
  <2>3. CASE policy = "consistent-hashing"
    BY <2>3, Zenon DEF IsPartition, RePartition, GenerateBuckets
  <2> QED
    BY <2>1, <2>2, <2>3, Zenon DEF Policies
<1>3. ~ (Len(ws) = 0) /\ ~ (Len(ws) > NumBuckets)
  BY <1>1, NumBucketsAssumption DEF IsWorkerList
<1>4. policy = "consistent-even" => IsEven(os, table) /\ IsEven(ws, new) /\ new = EvenRePartition(ws, table)
  BY <1>2, Zenon DEF IsPartition, RePartition
<1>5. policy = "consistent-hashing" => table = Ring(os) /\ new = Ring(ws)
  BY Zenon DEF IsPartition, RePartition, GenerateBuckets
<1>6. TokensDistinct(Range(os)) /\ TokensDistinct(Range(ws))
  BY Zenon DEF TokensDistinct
<1>7. /\ Range(os) = {os[i] : i \in 1 .. Len(os)} /\ Range(ws) = {ws[i] : i \in 1 .. Len(ws)}
      /\ Len(os) \in Nat /\ Len(ws) \in Nat
  BY <1>1, WorkerList, NumBucketsAssumption
<1> HIDE DEF new
<1>8. CASE /\ Len(os) < Len(ws) /\ \A i \in 1 .. Len(os) : ws[i] = os[i]
           /\ c.added = Range(ws) \ Range(os)
  <2>1. Range(os) \subseteq Range(ws)
    <3>1. \A i \in 1 .. Len(os) : i \in 1 .. Len(ws)
      BY <1>7, <1>8
    <3> QED
      BY <1>7, <1>8, <3>1, Zenon
  <2>2. ASSUME policy = "consistent-even"
        PROVE  /\ ~ EvenRefuses(ws, table)
               /\ \A b \in Buckets : new[b] = table[b] \/ new[b] \in c.added
    <3>1. /\ ~ EvenRefuses(ws, table)
          /\ \A b \in Buckets : new[b] = table[b] \/ new[b] \notin Range(os)
      BY <1>1, <1>4, <1>8, <2>2, EvenScaleUp, Zenon
    <3>2. \A b \in Buckets : new[b] \in Range(ws)
      BY <1>4, <2>2, Zenon DEF IsEven
    <3> QED
      BY <1>8, <3>1, <3>2, Zenon
  <2>3. ASSUME policy = "consistent-hashing", NEW b \in Buckets
        PROVE  new[b] = table[b] \/ new[b] \in c.added
    <3>1. Ring(ws)[b] \in Range(ws) /\ (Ring(ws)[b] = Ring(os)[b] \/ Ring(ws)[b] \notin Range(os))
      BY <1>1, <1>6, <2>1, RingConsistent, Zenon
    <3> QED
      BY <1>5, <1>8, <2>3, <3>1, Zenon
  <2> QED
    BY <1>2, <1>3, <2>2, <2>3, Zenon DEF Refuses, Policies, new
<1>9. CASE /\ Len(ws) < Len(os) /\ \A i \in 1 .. Len(ws) : ws[i] = os[i]
           /\ c.removed = Range(os) \ Range(ws)
  <2>1. Range(ws) \subseteq Range(os)
    <3>1. \A i \in 1 .. Len(ws) : i \in 1 .. Len(os)
      BY <1>7, <1>9
    <3> QED
      BY <1>7, <1>9, <3>1, Zenon
  <2>2. ASSUME policy = "consistent-even"
        PROVE  /\ ~ EvenRefuses(ws, table)
               /\ \A b \in Buckets : new[b] = table[b] \/ table[b] \in c.removed
    <3>1. /\ ~ EvenRefuses(ws, table)
          /\ \A b \in Buckets : new[b] = table[b] \/ table[b] \notin Range(ws)
      BY <1>1, <1>4, <1>9, <2>2, EvenScaleDown, Zenon
    <3>2. \A b \in Buckets : table[b] \in Range(os)
      BY <1>4, <2>2, Zenon DEF IsEven
    <3> QED
      BY <1>9, <3>1, <3>2, Zenon
  <2>3. ASSUME policy = "consistent-hashing", NEW b \in Buckets
        PROVE  new[b] = table[b] \/ table[b] \in c.removed
    <3>1. Ring(os)[b] \in Range(os) /\ (Ring(os)[b] = Ring(ws)[b] \/ Ring(os)[b] \notin Range(ws))
      BY <1>1, <1>6, <2>1, RingConsistent, Zenon
    <3> QED
      BY <1>5, <1>9, <2>3, <3>1, Zenon
  <2> QED
    BY <1>2, <1>3, <2>2, <2>3, Zenon DEF Refuses, Policies, new
<1> QED
  BY <1>8, <1>9, Zenon DEF IsChange

LEMMA PlanReconfigure ==
  ASSUME PlanInv, ReconfigureStatefulOp
  PROVE  /\ PlanInv'
         /\ ~ Refuses(job.policy, change.updated, plan.table)
         /\ plan' = [plan EXCEPT !.table = RePartition(job.policy, change.updated, plan.table)]
         /\ job.policy # "uniform" =>
              \A b \in Buckets : \/ plan'.table[b] = plan.table[b]
                                 \/ plan.table[b] \in change.removed
                                 \/ plan'.table[b] \in change.added
<1> DEFINE new == RePartition(job.policy, change.updated, plan.table)
<1>1. step = "drain" /\ job' = job /\ change' = change
  BY Zenon DEF ReconfigureStatefulOp
<1>2. /\ job.policy \in Policies /\ IsWorkerList(plan.tasks) /\ IsChange(plan.tasks, change)
      /\ IsPartition(job.policy, plan.tasks, plan.table)
      /\ IsAllocated(change.updated, plan.free) /\ IsAllocated(plan.tasks, plan.free)
  BY <1>1, JobFacts, Zenon DEF PlanInv, IsAllocated, Owners
<1>3. TokensDistinct(Range(plan.tasks) \cup Range(change.updated))
  BY <1>2, TokensAssumption, Zenon DEF TokensDistinct, IsAllocated
<1>4. /\ IsPartition(job.policy, change.updated, new)
      /\ ~ Refuses(job.policy, change.updated, plan.table)
      /\ job.policy # "uniform" =>
           \A b \in Buckets : \/ new[b] = plan.table[b]
                              \/ plan.table[b] \in change.removed \/ new[b] \in change.added
  BY <1>2, <1>3, RePartitionFacts, ZenonT(30)
<1> HIDE DEF new
<1>5. step' = "migrate" /\ plan' = [plan EXCEPT !.table = new]
  BY <1>4, Zenon DEF ReconfigureStatefulOp, new
<1>6. /\ plan'.tasks = plan.tasks /\ plan'.table = new /\ plan'.free = plan.free
      /\ plan' = [tasks |-> plan'.tasks, free |-> plan'.free, ups |-> plan'.ups,
                  table |-> plan'.table]
  BY <1>5, Zenon DEF PlanInv
<1>7. Owners' = change.updated
  BY <1>1, <1>5, Zenon DEF Owners
<1>8. PlanInv'
  BY <1>1, <1>2, <1>4, <1>5, <1>6, <1>7, Zenon DEF PlanInv, Steps
<1> QED
  BY <1>4, <1>5, <1>6, <1>8, Zenon DEF new

LEMMA PlanNotify ==
  ASSUME PlanInv, NotifyUpstreamTasks
  PROVE  PlanInv' /\ plan'.table = plan.table
<1>1. /\ step = "tasks" /\ step' = "routing" /\ job' = job
      /\ plan' = [plan EXCEPT !.tasks = change.updated]
  BY Zenon DEF NotifyUpstreamTasks, Advance
<1>2. /\ plan'.tasks = change.updated /\ plan'.table = plan.table /\ plan'.free = plan.free
      /\ plan' = [tasks |-> plan'.tasks, free |-> plan'.free, ups |-> plan'.ups,
                  table |-> plan'.table]
  BY <1>1, Zenon DEF PlanInv
<1>3. Owners' = Owners
  BY <1>1, <1>2, Zenon DEF Owners
<1> QED
  BY <1>1, <1>2, <1>3, Zenon DEF PlanInv, Steps

LEMMA PlanUpstream ==
  ASSUME PlanInv, NEW u \in Upstreams, RescaleUpstream(u)
  PROVE  PlanInv' /\ plan'.table = plan.table
<1>1. /\ job' = job /\ step' = step /\ change' = change
      /\ \E ups : plan' = [plan EXCEPT !.ups = ups]
  BY Zenon DEF RescaleUpstream
<1>2. /\ plan'.tasks = plan.tasks /\ plan'.table = plan.table /\ plan'.free = plan.free
      /\ plan' = [tasks |-> plan'.tasks, free |-> plan'.free, ups |-> plan'.ups,
                  table |-> plan'.table]
  BY <1>1, Zenon DEF PlanInv
<1>3. Owners' = Owners
  BY <1>1, <1>2, Zenon DEF Owners
<1> QED
  BY <1>1, <1>2, <1>3, Zenon DEF PlanInv

\* Only the coordinator and a rescale of the upstream operator touch the plan.
LEMMA PlanUntouched ==
  ASSUME \/ ControlStep
         \/ \E w \in Workers : WaitDataDrain(w)
         \/ \E u \in Upstreams : \/ \E k \in Keys, kind \in Kinds : Emit(u, k, kind)
                                 \/ FlushAllPendingBatches(u) \/ PauseEmit(u)
                                 \/ UpdateRouting(u) \/ ResumeEmit(u)
                                 \/ \E w \in Workers : ChannelStep(u, w)
  PROVE  UNCHANGED <<job, step, plan, change>>
<1>1. CASE ControlStep
  BY <1>1, Zenon DEF ControlStep, HandleTaskAssignment, HandleTerminate, MigrateTaskMetadata,
                     PullStatePartition
<1>2. ASSUME NEW w \in Workers, WaitDataDrain(w)
      PROVE  UNCHANGED <<job, step, plan, change>>
  BY <1>2, Zenon DEF WaitDataDrain
<1>3. ASSUME NEW u \in Upstreams,
             \/ \E k \in Keys, kind \in Kinds : Emit(u, k, kind)
             \/ FlushAllPendingBatches(u) \/ PauseEmit(u)
             \/ UpdateRouting(u) \/ ResumeEmit(u)
      PROVE  UNCHANGED <<job, step, plan, change>>
  BY <1>3, Zenon DEF Emit, FlushAllPendingBatches, PauseEmit, UpdateRouting, ResumeEmit, coordVars
<1>4. ASSUME NEW u \in Upstreams, NEW w \in Workers, ChannelStep(u, w)
      PROVE  UNCHANGED <<job, step, plan, change>>
  BY <1>4, Zenon DEF ChannelStep, InitNewUpstream, ProcessBatch, HandleDrainBarrier,
                     RemoveUpstream, coordVars
<1> QED
  BY <1>1, <1>2, <1>3, <1>4, Zenon

\* The table changes in ReconfigureStatefulOp alone.
LEMMA PlanNext ==
  ASSUME PlanInv, [Next]_vars
  PROVE  /\ PlanInv'
         /\ ReconfigureStatefulOp \/ plan'.table = plan.table
<1>1. CASE UNCHANGED vars
  <2>1. UNCHANGED <<job, step, plan, change>>
    BY <1>1, Zenon DEF vars, coordVars
  <2> QED
    BY <2>1, PlanKept, Zenon
<1>2. ASSUME \/ ControlStep
             \/ \E w \in Workers : WaitDataDrain(w)
             \/ \E u \in Upstreams : \/ \E k \in Keys, kind \in Kinds : Emit(u, k, kind)
                                     \/ FlushAllPendingBatches(u) \/ PauseEmit(u)
                                     \/ UpdateRouting(u) \/ ResumeEmit(u)
                                     \/ \E w \in Workers : ChannelStep(u, w)
      PROVE  PlanInv' /\ plan'.table = plan.table
  <2>1. UNCHANGED <<job, step, plan, change>>
    BY <1>2, PlanUntouched, Zenon
  <2> QED
    BY <2>1, PlanKept, Zenon
<1>3. ASSUME StartJobDone \/ DrainInflightData \/ RescaleTasks \/ ResumeUpstreams \/ RescaleDone
      PROVE  PlanInv' /\ plan'.table = plan.table
  <2>1. UNCHANGED <<job, plan, change>>
    BY <1>3, Zenon DEF StartJobDone, DrainInflightData, RescaleTasks, ResumeUpstreams, RescaleDone
  <2>2. \/ step = "deploy" /\ step' = "idle"
        \/ step = "pause" /\ step' = "drain"
        \/ step = "migrate" /\ step' = "tasks"
        \/ step = "routing" /\ step' = "resume"
        \/ step = "resume" /\ step' = "idle"
    BY <1>3, Zenon DEF StartJobDone, DrainInflightData, RescaleTasks, ResumeUpstreams, RescaleDone,
                Advance
  <2> QED
    BY <2>1, <2>2, PlanAdvance, Zenon
<1>4. ASSUME NEW n \in 1 .. Len(Pool), Rescale(n)
      PROVE  PlanInv' /\ plan'.table = plan.table
  <2>1. plan' = [plan EXCEPT !.free = Available(n)]
    BY <1>4, Zenon DEF Rescale
  <2> QED
    BY <1>4, <2>1, PlanRescale, Zenon DEF PlanInv
<1>5. ASSUME NotifyUpstreamTasks
      PROVE  PlanInv' /\ plan'.table = plan.table
  BY <1>5, PlanNotify, Zenon
<1>6. ASSUME NEW u \in Upstreams, RescaleUpstream(u)
      PROVE  PlanInv' /\ plan'.table = plan.table
  BY <1>6, PlanUpstream, Zenon
<1>7. ASSUME ReconfigureStatefulOp
      PROVE  PlanInv'
  BY <1>7, PlanReconfigure, Zenon
<1> QED
  BY <1>1, <1>2, <1>3, <1>4, <1>5, <1>6, <1>7, Zenon DEF Next, CoordinatorStep, UpstreamStep

LEMMA PlanInvariant == Spec => []PlanInv
<1>1. PlanInv /\ [Next]_vars => PlanInv'
  BY PlanNext, Zenon
<1> QED
  BY <1>1, PlanInit, PTL DEF Spec

\* Guarantee 1 of EvenPartitionPolicy and of the uniform policy: after any
\* number of rescales in any order (ReconfigureStatefulOp), each worker of the
\* list has its share of the buckets.
THEOREM StopRestartEvenSpread == Spec => []EvenSpread
<1>1. PlanInv => EvenSpread
  <2> SUFFICES ASSUME PlanInv, job.policy # "consistent-hashing", NEW i \in DOMAIN Owners
               PROVE  Cardinality(Owned(plan.table, Owners[i])) = Desired(Len(Owners), i)
    BY Zenon DEF EvenSpread
  <2>1. IsEven(Owners, plan.table)
    BY Zenon DEF PlanInv, IsPartition
  <2>2. IsWorkerList(Owners)
    BY Zenon DEF PlanInv, Owners, IsAllocated
  <2>3. DOMAIN Owners = 1 .. Len(Owners)
    BY <2>2, WorkerList, Zenon
  <2> QED
    BY <2>1, <2>3, Zenon DEF IsEven
<1> QED
  BY <1>1, PlanInvariant, PTL

\* Guarantee 2, which consistent hashing gives as well: no rescale moves a
\* bucket between two workers that stay (RePartition of both policies).
THEOREM StopRestartMinimalMovement == Spec => MinimalMovement
<1>1. ASSUME PlanInv, [Next]_vars, job.policy # "uniform", NEW b \in Buckets
      PROVE  \/ plan'.table[b] = plan.table[b]
             \/ plan.table[b] \in change.removed
             \/ plan'.table[b] \in change.added
  <2>1. CASE ReconfigureStatefulOp
    BY <1>1, <2>1, PlanReconfigure, Zenon
  <2>2. CASE plan'.table = plan.table
    BY <2>2, Zenon
  <2> QED
    BY <1>1, <2>1, <2>2, PlanNext, Zenon
<1>2. PlanInv /\ [Next]_vars =>
        [job.policy # "uniform" =>
           \A b \in Buckets : \/ plan'.table[b] = plan.table[b]
                              \/ plan.table[b] \in change.removed
                              \/ plan'.table[b] \in change.added]_vars
  BY <1>1, Zenon
<1> QED
  BY <1>2, PlanInvariant, PTL DEF Spec, MinimalMovement

LEMMA PlanAccepted ==
  ASSUME PlanInv, step = "drain"
  PROVE  ~ Refuses(job.policy, change.updated, plan.table)
<1>1. /\ job.policy \in Policies /\ IsWorkerList(plan.tasks) /\ IsChange(plan.tasks, change)
      /\ IsPartition(job.policy, plan.tasks, plan.table)
      /\ IsAllocated(change.updated, plan.free) /\ IsAllocated(plan.tasks, plan.free)
  BY JobFacts, Zenon DEF PlanInv, IsAllocated, Owners
<1>2. TokensDistinct(Range(plan.tasks) \cup Range(change.updated))
  BY <1>1, TokensAssumption, Zenon DEF TokensDistinct, IsAllocated
<1> QED
  BY <1>1, <1>2, RePartitionFacts, Zenon

\* No policy refuses the list of a rescale that the coordinator accepts
\* (updateKeyPartition): its checks that end in log.Fatalf never fail.
THEOREM StopRestartNeverRefused ==
  Spec => [](step = "drain" => ~ Refuses(job.policy, change.updated, plan.table))
<1>1. PlanInv => (step = "drain" => ~ Refuses(job.policy, change.updated, plan.table))
  BY PlanAccepted, Zenon
<1> QED
  BY <1>1, PlanInvariant, PTL

-----------------------------------------------------------------------------
(* What the plan says about the tasks.                                     *)

LEMMA ChangeFacts ==
  ASSUME NEW os, IsWorkerList(os), NEW c, IsChange(os, c)
  PROVE  /\ c.added \cap Range(os) = {} /\ c.removed \subseteq Range(os)
         /\ Range(c.updated) = (Range(os) \cup c.added) \ c.removed
<1> DEFINE ws == c.updated
<1>1. /\ Range(os) = {os[i] : i \in 1 .. Len(os)} /\ Range(ws) = {ws[i] : i \in 1 .. Len(ws)}
      /\ Len(os) \in Nat /\ Len(ws) \in Nat
  BY WorkerList, NumBucketsAssumption, SMTT(20) DEF IsChange
<1>2. CASE /\ Len(os) < Len(ws) /\ \A i \in 1 .. Len(os) : ws[i] = os[i]
           /\ c.added = Range(ws) \ Range(os) /\ c.removed = {}
  <2>1. \A i \in 1 .. Len(os) : i \in 1 .. Len(ws)
    BY <1>1, <1>2, SMTT(20)
  <2>2. Range(os) \subseteq Range(ws)
    BY <1>1, <1>2, <2>1, Zenon
  <2> QED BY <1>2, <2>2, Zenon
<1>3. CASE /\ Len(ws) < Len(os) /\ \A i \in 1 .. Len(ws) : ws[i] = os[i]
           /\ c.removed = Range(os) \ Range(ws) /\ c.added = {}
  <2>1. \A i \in 1 .. Len(ws) : i \in 1 .. Len(os)
    BY <1>1, <1>3, SMTT(20)
  <2>2. Range(ws) \subseteq Range(os)
    BY <1>1, <1>3, <2>1, Zenon
  <2> QED BY <1>3, <2>2, Zenon
<1> QED BY <1>2, <1>3, Zenon DEF IsChange

\* The partition table gives every bucket to a worker of its list.
LEMMA TableOwners ==
  ASSUME NEW policy \in Policies, NEW ws, IsWorkerList(ws), TokensDistinct(Range(ws)),
         NEW table, IsPartition(policy, ws, table)
  PROVE  table \in [Buckets -> Range(ws)]
<1>1. CASE policy # "consistent-hashing"
  BY <1>1, Zenon DEF IsPartition, IsEven
<1>2. CASE policy = "consistent-hashing"
  <2>1. table = Ring(ws)
    BY <1>2, Zenon DEF IsPartition
  <2>2. Ring(ws) = [b \in Buckets |-> Ring(ws)[b]]
    BY DEF Ring
  <2>3. \A b \in Buckets : Ring(ws)[b] \in Range(ws)
    BY RingConsistent, Zenon
  <2> QED BY <2>1, <2>2, <2>3, Zenon
<1> QED BY <1>1, <1>2, Zenon

LEMMA PlanGives == PlanInv => PlanFacts
<1> SUFFICES ASSUME PlanInv PROVE PlanFacts
  BY Zenon
<1>1. /\ step \in Steps /\ job \in Jobs /\ job.policy \in Policies
      /\ plan = [tasks |-> plan.tasks, free |-> plan.free, ups |-> plan.ups, table |-> plan.table]
      /\ IsAllocated(plan.tasks, plan.free) /\ IsPartition(job.policy, Owners, plan.table)
      /\ Changing => IsAllocated(change.updated, plan.free) /\ IsChange(plan.tasks, change)
  BY JobFacts, Zenon DEF PlanInv, Changing
<1>2. /\ Tasks \subseteq Workers /\ Tasks # {} /\ IsWorkerList(plan.tasks)
      /\ Tasks \cap Range(plan.free) = {}
  <2>1. /\ Tasks \subseteq Workers /\ IsWorkerList(plan.tasks)
        /\ Tasks \cap Range(plan.free) = {}
    BY <1>1, Zenon DEF IsAllocated, Tasks
  <2>2. Tasks = {plan.tasks[i] : i \in 1 .. Len(plan.tasks)} /\ 1 \in 1 .. Len(plan.tasks)
    BY <2>1, WorkerList, NumBucketsAssumption, SMTT(20) DEF Tasks
  <2> QED BY <2>1, <2>2, ZenonT(30)
<1>3. IsWorkerList(Owners) /\ Range(Owners) \subseteq Workers
  BY <1>1, <1>2, Zenon DEF Owners, IsAllocated, Tasks, Changing
<1>4. TokensDistinct(Range(Owners))
  BY <1>3, TokensAssumption, Zenon DEF TokensDistinct
<1>5. plan.table \in [Buckets -> Range(Owners)]
  BY <1>1, <1>3, <1>4, TableOwners, ZenonT(30)
<1>6. ASSUME Changing
      PROVE  /\ change.added \cap Tasks = {} /\ change.removed \subseteq Tasks
             /\ change.added \subseteq Workers
             /\ Range(change.updated) = (Tasks \cup change.added) \ change.removed
             /\ Range(change.updated) \cap Range(plan.free) = {}
  <2>1. /\ Range(change.updated) \subseteq Workers /\ IsChange(plan.tasks, change)
        /\ Range(change.updated) \cap Range(plan.free) = {}
    BY <1>1, <1>6, Zenon DEF IsAllocated
  <2>2. /\ change.added \cap Tasks = {} /\ change.removed \subseteq Tasks
        /\ Range(change.updated) = (Tasks \cup change.added) \ change.removed
    BY <1>2, <2>1, ChangeFacts, ZenonT(30) DEF Tasks
  <2> QED BY <2>1, <2>2, Zenon
<1>7. Deserialize(Serialize(plan.table)) = plan.table
  BY <1>5, TableRoundTrip, Zenon
<1>8. step = "drain" => ~ Refuses(job.policy, change.updated, plan.table)
  BY PlanAccepted, Zenon
<1> QED BY <1>1, <1>2, <1>3, <1>5, <1>6, <1>7, <1>8, Zenon DEF PlanFacts

LEMMA PlanGivesNext == PlanInv' => PlanFacts'
  BY PlanGives, PTL

\* A rescale begins with Rescale and with no other step.
LEMMA Rescales ==
  ASSUME [Next]_vars, step = "idle", step' = "pause"
  PROVE  \E n \in 1 .. Len(Pool) : Rescale(n)
<1>1. ~ UNCHANGED <<job, step, plan, change>>
  BY Zenon
<1>2. ~ UNCHANGED vars
  BY Zenon DEF vars, coordVars
<1>3. /\ ~ StartJobDone /\ ~ DrainInflightData /\ ~ RescaleTasks /\ ~ ResumeUpstreams
      /\ ~ RescaleDone /\ ~ NotifyUpstreamTasks
  BY Zenon DEF StartJobDone, DrainInflightData, RescaleTasks, ResumeUpstreams, RescaleDone,
         NotifyUpstreamTasks, Advance
<1>4. ~ ReconfigureStatefulOp /\ \A u \in Upstreams : ~ RescaleUpstream(u)
  BY Zenon DEF ReconfigureStatefulOp, RescaleUpstream
<1> QED BY <1>1, <1>2, <1>3, <1>4, PlanUntouched, Zenon DEF Next, CoordinatorStep, UpstreamStep

LEMMA PlanSteps ==
  ASSUME PlanInv, [Next]_vars
  PROVE  PlanStep
<1> SUFFICES ASSUME step = "idle", step' = "pause"
             PROVE  /\ change'.added \subseteq Range(plan.free)
                    /\ Range(plan'.free) \subseteq Range(plan.free)
  BY Zenon DEF PlanStep
<1>1. PICK n \in 1 .. Len(Pool) : Rescale(n)
  BY Rescales, Zenon
<1>2. /\ change' = Prepared(n) /\ plan' = [plan EXCEPT !.free = Available(n)]
      /\ n # Len(plan.tasks) /\ n <= NumBuckets /\ n - Len(plan.tasks) <= Len(plan.free)
  BY <1>1, Zenon DEF Rescale
<1>3. n \in Nat \ {0} /\ plan'.free = Available(n)
  BY <1>2, PoolFacts, SMTT(20) DEF PlanInv
<1>4. IsFree(plan.free) /\ IsAllocated(plan.tasks, plan.free)
  BY Zenon DEF PlanInv
<1> QED BY <1>2, <1>3, <1>4, PreparedChange, Zenon

-----------------------------------------------------------------------------
(* A rescale moves a bucket.                                               *)

\* The workers by which consistent hashing extends a list, or that it takes
\* away from its end, are the owners of some bucket.  The policy does not
\* guarantee it: a worker none of whose tokens is the last one below a bucket
\* owns none.
RingsDiffer ==
  \A os, ws \in Seq(Workers) :
    /\ IsWorkerList(os) /\ IsWorkerList(ws)
    /\ Len(os) < Len(ws) /\ \A i \in 1 .. Len(os) : ws[i] = os[i]
    => Ring(os) # Ring(ws)

\* An even partition has a bucket of every worker.
LEMMA EvenUsesAll ==
  ASSUME NEW ws, IsWorkerList(ws), NEW table, IsEven(ws, table)
  PROVE  Range(ws) = {table[b] : b \in Buckets}
<1>1. /\ Range(ws) = {ws[i] : i \in 1 .. Len(ws)} /\ Len(ws) \in 1 .. NumBuckets
  BY WorkerList, Zenon
<1>2. ASSUME NEW i \in 1 .. Len(ws)
      PROVE  \E b \in Buckets : table[b] = ws[i]
  <2>1. Cardinality(Owned(table, ws[i])) = Desired(Len(ws), i)
    BY Zenon DEF IsEven
  <2>2. Desired(Len(ws), i) >= 1
    <3>1. NumBuckets \div Len(ws) >= 1
      BY <1>1, NumBucketsAssumption, SMTT(20)
    <3> QED BY <1>1, <3>1, NumBucketsAssumption, SMTT(20) DEF Desired
  <2>3. Owned(table, ws[i]) # {}
    BY <2>1, <2>2, FS_EmptySet, SMTT(20)
  <2> QED BY <2>3, Zenon DEF Owned
<1>3. \A b \in Buckets : table[b] \in Range(ws)
  BY Zenon DEF IsEven
<1> QED BY <1>1, <1>2, <1>3, Zenon

LEMMA SomeBucketMoves ==
  ASSUME PlanInv, step = "drain", job.policy # "consistent-hashing" \/ RingsDiffer
  PROVE  \E b \in Buckets :
           RePartition(job.policy, change.updated, plan.table)[b] # plan.table[b]
<1> DEFINE os == plan.tasks
           ws == change.updated
           new == RePartition(job.policy, ws, plan.table)
<1>1. /\ job.policy \in Policies /\ IsWorkerList(os) /\ IsChange(os, change)
      /\ IsPartition(job.policy, os, plan.table)
      /\ IsAllocated(ws, plan.free) /\ IsAllocated(os, plan.free)
  BY JobFacts, Zenon DEF PlanInv, IsAllocated, Owners
<1>2. TokensDistinct(Range(os) \cup Range(ws))
  BY <1>1, TokensAssumption, Zenon DEF TokensDistinct, IsAllocated
<1>3. IsPartition(job.policy, ws, new)
  BY <1>1, <1>2, RePartitionFacts, ZenonT(30)
<1>4. IsWorkerList(ws) /\ TokensDistinct(Range(os)) /\ TokensDistinct(Range(ws))
  BY <1>1, <1>2, Zenon DEF IsChange, TokensDistinct
<1>5. plan.table \in [Buckets -> Range(os)] /\ new \in [Buckets -> Range(ws)]
  BY <1>1, <1>3, <1>4, TableOwners, ZenonT(30)
<1>6. Range(os) # Range(ws)
  <2>1. /\ Range(os) = {os[i] : i \in 1 .. Len(os)} /\ Range(ws) = {ws[i] : i \in 1 .. Len(ws)}
        /\ Len(os) \in Nat /\ Len(ws) \in Nat
        /\ \A i, j \in 1 .. Len(os) : os[i] = os[j] => i = j
        /\ \A i, j \in 1 .. Len(ws) : ws[i] = ws[j] => i = j
    BY <1>1, <1>4, WorkerList, NumBucketsAssumption, SMTT(20)
  <2>2. CASE Len(os) < Len(ws) /\ \A i \in 1 .. Len(os) : ws[i] = os[i]
    <3>1. Len(ws) \in 1 .. Len(ws) /\ \A i \in 1 .. Len(os) : i \in 1 .. Len(ws) /\ i # Len(ws)
      BY <2>1, <2>2
    <3>2. ws[Len(ws)] \notin Range(os)
      BY <2>1, <2>2, <3>1, Zenon
    <3> QED BY <2>1, <3>1, <3>2, ZenonT(30)
  <2>3. CASE Len(ws) < Len(os) /\ \A i \in 1 .. Len(ws) : ws[i] = os[i]
    <3>1. Len(os) \in 1 .. Len(os) /\ \A i \in 1 .. Len(ws) : i \in 1 .. Len(os) /\ i # Len(os)
      BY <2>1, <2>3
    <3>2. os[Len(os)] \notin Range(ws)
      BY <2>1, <2>3, <3>1, Zenon
    <3> QED BY <2>1, <3>1, <3>2, ZenonT(30)
  <2> QED BY <1>1, <2>2, <2>3, Zenon DEF IsChange
<1> HIDE DEF new
<1>7. plan.table # new
  <2>1. CASE job.policy # "consistent-hashing"
    <3>1. IsEven(os, plan.table) /\ IsEven(ws, new)
      BY <1>1, <1>3, <2>1, Zenon DEF IsPartition
    <3>2. Range(os) = {plan.table[b] : b \in Buckets} /\ Range(ws) = {new[b] : b \in Buckets}
      BY <1>1, <1>4, <3>1, EvenUsesAll, SMTT(20)
    <3> QED BY <1>6, <3>2, Zenon
  <2>2. CASE job.policy = "consistent-hashing"
    <3>1. plan.table = Ring(os) /\ new = Ring(ws)
      BY <1>1, <1>3, <2>2, Zenon DEF IsPartition
    <3>2. os \in Seq(Workers) /\ ws \in Seq(Workers)
      BY <1>1, <1>4, SMTT(20) DEF IsWorkerList, IsAllocated
    <3>3. \/ Len(os) < Len(ws) /\ \A i \in 1 .. Len(os) : ws[i] = os[i]
          \/ Len(ws) < Len(os) /\ \A i \in 1 .. Len(ws) : ws[i] = os[i]
      BY <1>1, Zenon DEF IsChange
    <3>4. Ring(os) # Ring(ws)
      BY <1>1, <1>4, <2>2, <3>2, <3>3, ZenonT(30) DEF RingsDiffer
    <3> QED BY <3>1, <3>4, Zenon
  <2> QED BY <2>1, <2>2, Zenon
<1>8. \E b \in Buckets : new[b] # plan.table[b]
  BY <1>5, <1>7
<1> QED BY <1>8, Zenon DEF new

-----------------------------------------------------------------------------
(* No process stops because of the plan.                                   *)

LEMMA JobKept ==
  ASSUME [Next]_vars
  PROVE  job' = job
<1>1. CASE UNCHANGED vars
  BY <1>1, Zenon DEF vars
<1>2. CASE CoordinatorStep
  <2>1. CASE \/ StartJobDone \/ DrainInflightData \/ RescaleTasks \/ ResumeUpstreams
             \/ RescaleDone \/ NotifyUpstreamTasks \/ ReconfigureStatefulOp
    BY <2>1, Zenon DEF StartJobDone, DrainInflightData, RescaleTasks, ResumeUpstreams, RescaleDone,
                NotifyUpstreamTasks, ReconfigureStatefulOp
  <2>2. CASE \E n \in 1 .. Len(Pool) : Rescale(n)
    BY <2>2, Zenon DEF Rescale
  <2>3. CASE \E w \in Workers : WaitDataDrain(w)
    BY <2>3, Zenon DEF WaitDataDrain
  <2> QED BY <1>2, <2>1, <2>2, <2>3, Zenon DEF CoordinatorStep
<1>3. CASE \E u \in Upstreams : RescaleUpstream(u)
  BY <1>3, Zenon DEF RescaleUpstream
<1> QED BY <1>1, <1>2, <1>3, PlanUntouched, Zenon DEF Next, UpstreamStep

\* No fatal but that of ReconfigureStatefulOp has the reason "repartition".
LEMMA FatalUnchanged ==
  ASSUME [Next]_vars, ~ ReconfigureStatefulOp, fatal = "none",
         fatal' \in {"none", "repartition"}
  PROVE  fatal' = "none"
<1>1. CASE UNCHANGED vars
  BY <1>1, Zenon DEF vars
<1>2. CASE CoordinatorStep
  BY <1>2, ZenonT(30) DEF CoordinatorStep, StartJobDone, DrainInflightData, RescaleTasks,
                     ResumeUpstreams, RescaleDone, NotifyUpstreamTasks, Rescale, WaitDataDrain
<1>3. CASE ControlStep
  <2>1. ASSUME NEW x, HandleTaskAssignment(x)
        PROVE  fatal' = "none"
    BY <2>1, ZenonT(30) DEF HandleTaskAssignment, WaitACK, Require
  <2>2. ASSUME NEW w, HandleTerminate(w)
        PROVE  fatal' = "none"
    BY <2>2, ZenonT(30) DEF HandleTerminate, WaitACK, Require
  <2>3. ASSUME NEW m, MigrateTaskMetadata(m) \/ PullStatePartition(m)
        PROVE  fatal' = "none"
    BY <2>3, ZenonT(30) DEF MigrateTaskMetadata, PullStatePartition, WaitACK, Require
  <2> QED BY <1>3, <2>1, <2>2, <2>3, ZenonT(30) DEF ControlStep
<1>4. ASSUME NEW u \in Upstreams, UpstreamStep(u)
      PROVE  fatal' = "none"
  <2>1. ASSUME NEW k, NEW kind, Emit(u, k, kind)
        PROVE  fatal' = "none"
    BY <2>1, ZenonT(30) DEF Emit, Require
  <2>2. CASE UpdateRouting(u)
    BY <2>2, Zenon DEF UpdateRouting, Require
  <2>3. CASE FlushAllPendingBatches(u) \/ PauseEmit(u) \/ ResumeEmit(u) \/ RescaleUpstream(u)
    BY <2>3, Zenon DEF FlushAllPendingBatches, PauseEmit, ResumeEmit, RescaleUpstream
  <2> QED BY <1>4, <2>1, <2>2, <2>3, ZenonT(30) DEF UpstreamStep
<1>5. ASSUME NEW u \in Upstreams, NEW w \in Workers, ChannelStep(u, w)
      PROVE  fatal' = "none"
  <2>1. CASE HandleDrainBarrier(u, w)
    BY <2>1, ZenonT(30) DEF HandleDrainBarrier, Require
  <2>2. CASE RemoveUpstream(u, w)
    BY <2>2, ZenonT(30) DEF RemoveUpstream, Require
  <2>3. CASE InitNewUpstream(u, w) \/ ProcessBatch(u, w)
    BY <2>3, Zenon DEF InitNewUpstream, ProcessBatch
  <2> QED BY <1>5, <2>1, <2>2, <2>3, Zenon DEF ChannelStep
<1> QED BY <1>1, <1>2, <1>3, <1>4, <1>5, Zenon DEF Next

FatalInv == job.policy # "consistent-hashing" \/ RingsDiffer => NoFatal

LEMMA FatalNext ==
  ASSUME PlanInv, PlanInv', TypeInv', FatalInv, [Next]_vars
  PROVE  FatalInv'
<1> SUFFICES ASSUME job'.policy # "consistent-hashing" \/ RingsDiffer
             PROVE  fatal' = "none"
  BY Zenon DEF FatalInv, NoFatal
<1>1. job' = job
  BY JobKept, Zenon
<1>2. fatal = "none"
  BY <1>1, Zenon DEF FatalInv, NoFatal
<1>3. CASE ReconfigureStatefulOp
  <2>1. step = "drain" /\ ~ Refuses(job.policy, change.updated, plan.table)
    BY <1>3, PlanAccepted, Zenon DEF ReconfigureStatefulOp
  <2>2. PICK b \in Buckets :
          RePartition(job.policy, change.updated, plan.table)[b] # plan.table[b]
    BY <1>1, <2>1, SomeBucketMoves, Zenon
  <2> QED BY <1>2, <1>3, <2>1, <2>2, Zenon DEF ReconfigureStatefulOp, Require
<1>4. CASE ~ ReconfigureStatefulOp
  BY <1>2, <1>4, FatalUnchanged, Zenon DEF TypeInv
<1> QED BY <1>3, <1>4, Zenon

=============================================================================
