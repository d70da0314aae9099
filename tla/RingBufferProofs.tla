-------------------------- MODULE RingBufferProofs --------------------------
(***************************************************************************)
(* Proofs about RingBuffer for every capacity and any number of units.     *)
(*                                                                         *)
(* The inductive invariant ties the two indices to the counter, the slots  *)
(* to consecutive sequence numbers, and every live pool entry to its age:  *)
(* how many entries ago the pool handed it out.  An entry is handed out    *)
(* again when its age is PoolSize = Capacity + 2, and no live entry gets   *)
(* that old.                                                               *)
(***************************************************************************)
EXTENDS RingBuffer, TLAPS

\* Units that the network routine has written, committed or not.
NumWritten == IF ppc = "commit" THEN NumWaiting + 1 ELSE NumWaiting

\* How many hand-outs ago the pool handed out entry i, if n is the next one.
AgeIn(n, i) == IF i < n THEN n - i ELSE n + PoolSize - i
Age(i) == AgeIn(nextBatch, i)

\* The number of units decoded and not yet written.
InDecode == IF Decoding THEN 1 ELSE 0

\* What the network routine holds is the last unit that arrived.
ProducerInv ==
  /\ ppc \in {"write", "commit"} => count < Capacity
  /\ Decoding \/ ppc = "commit" =>
       /\ SeqOf(workUnit) = produced
       /\ workUnit.kind = "batch" => Age(workUnit.idx) = 1
  /\ ppc = "commit" => buffer[Slot(NumWaiting)] = workUnit

ConsumerInv ==
  /\ cpc \in {"take", "release"} => count > 0
  /\ Holding => /\ SeqOf(next) = consumed + 1
                /\ next.kind = "batch" => Age(next.idx) <= NumWritten + 1 + InDecode

\* The written slots hold the consecutive units after those that were taken,
\* and the unit j places from the front is at most that much older.
SlotInv ==
  \A j \in 0 .. NumWritten - 1 :
    /\ SeqOf(buffer[Slot(j)]) = NumTaken + 1 + j
    /\ buffer[Slot(j)].kind = "batch" =>
         Age(buffer[Slot(j)].idx) <= NumWritten - j + InDecode

IndexInv ==
  /\ write_idx = Slot(NumWritten)
  /\ produced = NumTaken + NumWritten + InDecode

IInv == TypeOK /\ ProducerInv /\ ConsumerInv /\ SlotInv /\ IndexInv /\ DecodeIsolated

USE CapacityAssumption, MaxUnitsAssumption DEF PoolSize, Decoding, Holding, SeqOf, Slot, Age

-----------------------------------------------------------------------------
(* NewInputRingBuffer and NewBatchPool establish the inductive invariant.  *)
LEMMA InitInv == Init => IInv
  BY DEF Init, IInv, NewInputRingBuffer, NewBatchPool, TypeOK, ProducerInv,
         ConsumerInv, SlotInv, IndexInv, DecodeIsolated, Units, Control,
         NumWritten, NumWaiting, NumTaken, InDecode, SlotFrom

(* One step of the ring index, seen from the index r.                      *)
LEMMA SlotType ==
  ASSUME NEW r \in 0 .. Capacity - 1, NEW j \in 0 .. Capacity
  PROVE  /\ SlotFrom(r, j) \in 0 .. Capacity - 1
         /\ j < Capacity => Advance(SlotFrom(r, j), Capacity) = SlotFrom(r, j + 1)
         /\ j < Capacity => SlotFrom(Advance(r, Capacity), j) = SlotFrom(r, j + 1)
         /\ SlotFrom(r, 0) = r
  BY DEF SlotFrom, Advance

(* Different places in the ring are different slots.                       *)
LEMMA SlotInjective ==
  ASSUME NEW r \in 0 .. Capacity - 1, NEW i \in 0 .. Capacity - 1,
         NEW j \in 0 .. Capacity - 1, i # j
  PROVE  SlotFrom(r, i) # SlotFrom(r, j)
  BY DEF SlotFrom

(* The counter bounds the units in the ring, and a unit is only written    *)
(* when there is room for it.                                              *)
LEMMA Counts ==
  ASSUME IInv
  PROVE  /\ NumWaiting \in 0 .. Capacity
         /\ NumWritten \in 0 .. Capacity
         /\ NumTaken \in Nat
         /\ ppc = "write" => NumWritten < Capacity
         /\ read_idx \in 0 .. Capacity - 1
         /\ InDecode \in 0 .. 1
  BY DEF IInv, TypeOK, ProducerInv, ConsumerInv, NumWaiting, NumWritten,
         NumTaken, InDecode

(* Every slot holds a unit, and the index of a unit is one of the pool.    *)
LEMMA UnitTypes ==
  ASSUME TypeOK
  PROVE  /\ \A j \in 0 .. Capacity : buffer[Slot(j)] \in Units
         /\ \A u \in Units : /\ u.idx \in 0 .. PoolSize - 1
                              /\ SeqOf(u) \in Nat
                              /\ Age(u.idx) \in 1 .. PoolSize
<1>1. \A j \in 0 .. Capacity : Slot(j) \in 0 .. Capacity - 1
  BY SlotType DEF TypeOK
<1>2. \A u \in Units : u.idx \in 0 .. PoolSize - 1
  BY DEF Units
<1>3. \A i \in 0 .. PoolSize - 1 : Age(i) \in 1 .. PoolSize
  BY DEF TypeOK, AgeIn
<1>4. \A u \in Units : SeqOf(u) \in Nat
  BY <1>2 DEF TypeOK, SeqIn, Units
<1> QED BY <1>1, <1>2, <1>3, <1>4 DEF TypeOK

(* Handing out a pool entry makes every other entry one step older.        *)
LEMMA AgeStep ==
  ASSUME NEW n \in 0 .. PoolSize - 1, NEW i \in 0 .. PoolSize - 1
  PROVE  /\ AgeIn(n, i) \in 1 .. PoolSize
         /\ i = n => /\ AgeIn(n, i) = PoolSize
                     /\ AgeIn(Advance(n, PoolSize), i) = 1
         /\ i # n => AgeIn(Advance(n, PoolSize), i) = AgeIn(n, i) + 1
  BY DEF AgeIn, Advance

(* A live entry is never the one that the pool hands out next.             *)
LEMMA LiveNotNext ==
  ASSUME IInv, ppc = "read"
  PROVE  /\ Holding /\ next.kind = "batch" => next.idx # nextBatch
         /\ \A j \in 0 .. NumWritten - 1 :
              buffer[Slot(j)].kind = "batch" => buffer[Slot(j)].idx # nextBatch
<1>1. TypeOK /\ InDecode = 0 /\ NumWritten \in 0 .. Capacity
  BY Counts DEF IInv, InDecode
<1>2. Age(nextBatch) = Capacity + 2
  BY <1>1 DEF TypeOK, AgeIn
<1>3. ASSUME Holding, next.kind = "batch" PROVE next.idx # nextBatch
  <2>1. Age(next.idx) <= NumWritten + 1
    BY <1>1, <1>3 DEF IInv, ConsumerInv
  <2> QED BY <1>1, <1>2, <2>1
<1>4. ASSUME NEW j \in 0 .. NumWritten - 1, buffer[Slot(j)].kind = "batch"
      PROVE  buffer[Slot(j)].idx # nextBatch
  <2>1. Age(buffer[Slot(j)].idx) <= NumWritten - j
    BY <1>1, <1>4 DEF IInv, SlotInv
  <2> QED BY <1>1, <1>2, <2>1
<1> QED BY <1>3, <1>4

-----------------------------------------------------------------------------
(* Decoding a unit: the counters stand still, live entries keep their      *)
(* contents and get at most one step older.                                *)
LEMMA ReadUnitInv == IInv /\ ReadUnit => IInv'
<1> SUFFICES ASSUME IInv, ReadUnit PROVE IInv'
  OBVIOUS
<1> USE DEF ReadUnit, ringVars, poolVars
<1>1. TypeOK /\ ppc = "read" /\ ppc' = "check" /\ InDecode = 0 /\ InDecode' = 1
  BY DEF IInv, InDecode
<1>2. /\ NumWaiting' = NumWaiting /\ NumWritten' = NumWritten
      /\ NumTaken' = NumTaken /\ NumWaiting = NumWritten
      /\ next' = next /\ buffer' = buffer /\ read_idx' = read_idx /\ cpc' = cpc
  BY DEF NumWaiting, NumWritten, NumTaken
<1>3. NumWritten \in 0 .. Capacity /\ NumTaken \in Nat
  BY Counts
<1>4. TypeOK'
  <2>1. workUnit' \in Units /\ nextBatch' \in 0 .. PoolSize - 1
    <3>1. CASE Get
      <4>1. nextBatch \in 0 .. PoolSize - 1
        BY <1>1 DEF TypeOK
      <4>2. workUnit' \in Units
        BY <3>1, <4>1 DEF Get, Units, Batch
      <4>3. nextBatch' \in 0 .. PoolSize - 1
        BY <3>1, <4>1 DEF Get, Advance
      <4> QED BY <4>2, <4>3
    <3>2. CASE NewUnit
      <4>1. produced + 1 \in Nat /\ nextBatch \in 0 .. PoolSize - 1
        BY <1>1 DEF TypeOK
      <4>2. Control(produced + 1) \in Units /\ Termination(produced + 1) \in Units
        BY <4>1 DEF Units, Control, Termination
      <4> QED BY <3>2, <4>1, <4>2 DEF NewUnit
    <3> QED BY <3>1, <3>2
  <2>2. pool' \in [0 .. PoolSize - 1 -> Nat] /\ produced' \in Nat
    <3>1. pool \in [0 .. PoolSize - 1 -> Nat] /\ produced \in Nat
      BY <1>1 DEF TypeOK
    <3>2. produced' = produced + 1
      OBVIOUS
    <3>3. pool' = [pool EXCEPT ![nextBatch] = produced + 1] \/ pool' = pool
      BY DEF Get, NewUnit
    <3> QED BY <3>1, <3>2, <3>3
  <2> QED BY <1>1, <2>1, <2>2 DEF TypeOK
<1>5. /\ SeqOf(workUnit)' = produced'
      /\ workUnit'.kind = "batch" => Age(workUnit.idx)' = 1
  <2>1. CASE Get
    BY <1>1, <2>1, AgeStep DEF TypeOK, Get, SeqIn, Batch
  <2>2. CASE NewUnit
    BY <1>1, <2>2 DEF TypeOK, NewUnit, SeqIn, Control, Termination
  <2> QED BY <2>1, <2>2
<1>6. ASSUME NEW u \in Units, u.kind = "batch" => u.idx # nextBatch
      PROVE  /\ SeqIn(pool', u) = SeqIn(pool, u)
             /\ u.kind = "batch" => AgeIn(nextBatch', u.idx) <= AgeIn(nextBatch, u.idx) + 1
             /\ AgeIn(nextBatch, u.idx) \in Nat /\ AgeIn(nextBatch', u.idx) \in Nat
             /\ workUnit'.kind = "batch" => workUnit' # u
  <2>1. u.idx \in 0 .. PoolSize - 1
    BY DEF Units
  <2>2. AgeIn(nextBatch, u.idx) \in Nat /\ AgeIn(nextBatch', u.idx) \in Nat
    <3>1. nextBatch \in 0 .. PoolSize - 1 /\ nextBatch' \in 0 .. PoolSize - 1
      BY <1>1, <1>4 DEF TypeOK
    <3> QED BY <2>1, <3>1, AgeStep
  <2>3. CASE Get
    <3>1. u.kind = "batch" => AgeIn(nextBatch', u.idx) = AgeIn(nextBatch, u.idx) + 1
      BY <1>1, <1>6, <2>1, <2>3, AgeStep DEF TypeOK, Get
    <3>2. SeqIn(pool', u) = SeqIn(pool, u)
      BY <1>1, <1>6, <2>1, <2>3 DEF TypeOK, Get, SeqIn
    <3>3. workUnit' # u
      BY <1>6, <2>3 DEF Get, Batch
    <3> QED BY <2>2, <3>1, <3>2, <3>3
  <2>4. CASE NewUnit
    <3>1. workUnit'.kind # "batch" /\ pool' = pool /\ nextBatch' = nextBatch
      BY <2>4 DEF NewUnit, Control, Termination
    <3> QED BY <2>2, <3>1
  <2> QED BY <2>3, <2>4
<1>7. ConsumerInv'
  <2>1. next \in Units /\ (Holding /\ next.kind = "batch" => next.idx # nextBatch)
    BY <1>1, LiveNotNext DEF TypeOK
  <2>2. Holding => /\ SeqIn(pool', next) = SeqIn(pool, next)
                   /\ next.kind = "batch" => AgeIn(nextBatch', next.idx) <= AgeIn(nextBatch, next.idx) + 1
                   /\ AgeIn(nextBatch, next.idx) \in Nat /\ AgeIn(nextBatch', next.idx) \in Nat
    BY <1>6, <2>1
  <2> QED BY <1>1, <1>2, <1>3, <2>2 DEF IInv, ConsumerInv
<1>8. ASSUME NEW j \in 0 .. NumWritten - 1
      PROVE  /\ SeqIn(pool', buffer[Slot(j)]) = NumTaken + 1 + j
             /\ buffer[Slot(j)].kind = "batch" =>
                  AgeIn(nextBatch', buffer[Slot(j)].idx) <= NumWritten - j + 1
             /\ workUnit'.kind = "batch" => workUnit' # buffer[Slot(j)]
  <2> DEFINE u == buffer[Slot(j)]
  <2>1. u \in Units /\ (u.kind = "batch" => u.idx # nextBatch)
    BY <1>1, <1>3, UnitTypes, LiveNotNext
  <2>2. /\ SeqIn(pool, u) = NumTaken + 1 + j
        /\ u.kind = "batch" => AgeIn(nextBatch, u.idx) <= NumWritten - j
    BY <1>1, <1>3 DEF IInv, SlotInv
  <2> HIDE DEF u
  <2>3. /\ SeqIn(pool', u) = NumTaken + 1 + j
        /\ u.kind = "batch" => AgeIn(nextBatch', u.idx) <= NumWritten - j + 1
        /\ workUnit'.kind = "batch" => workUnit' # u
    BY <1>3, <1>6, <2>1, <2>2
  <2> QED BY <2>3 DEF u
<1>9. SlotInv'
  BY <1>1, <1>2, <1>8 DEF SlotInv
<1>10. ProducerInv'
  BY <1>1, <1>5 DEF ProducerInv
<1>11. IndexInv'
  BY <1>1, <1>2, <1>3 DEF IInv, IndexInv
<1>12. DecodeIsolated'
  <2>1. Holding /\ workUnit'.kind = "batch" => next # workUnit'
    BY <1>1, <1>6, LiveNotNext DEF TypeOK
  <2> QED BY <1>2, <1>8, <2>1 DEF DecodeIsolated
<1> QED BY <1>4, <1>7, <1>9, <1>10, <1>11, <1>12 DEF IInv

(* Passing the check on the counter changes nothing else, and the counter  *)
(* can only fall before the write.                                         *)
LEMMA EnqueueCheckInv == IInv /\ EnqueueCheck => IInv'
  BY DEF IInv, EnqueueCheck, ringVars, poolVars, TypeOK, ProducerInv,
         ConsumerInv, SlotInv, IndexInv, DecodeIsolated, NumWritten,
         NumWaiting, NumTaken, InDecode

(* Writing the slot after the last written one disturbs none of the others.*)
LEMMA EnqueueWriteInv == IInv /\ EnqueueWrite => IInv'
<1> SUFFICES ASSUME IInv, EnqueueWrite PROVE IInv'
  OBVIOUS
<1> USE DEF EnqueueWrite, poolVars
<1>1. /\ TypeOK /\ ppc = "write" /\ ppc' = "commit"
      /\ InDecode = 1 /\ InDecode' = 0
      /\ pool' = pool /\ nextBatch' = nextBatch /\ read_idx' = read_idx
      /\ next' = next /\ cpc' = cpc /\ count' = count /\ workUnit' = workUnit
  BY DEF IInv, InDecode
<1>2. /\ NumWaiting' = NumWaiting /\ NumTaken' = NumTaken
      /\ NumWritten = NumWaiting /\ NumWritten' = NumWritten + 1
  BY <1>1 DEF NumWaiting, NumWritten, NumTaken
<1>3. /\ NumWritten \in 0 .. Capacity - 1 /\ NumTaken \in Nat
      /\ read_idx \in 0 .. Capacity - 1
  BY <1>1, Counts
<1>4. write_idx = SlotFrom(read_idx, NumWritten)
  BY DEF IInv, IndexInv
<1>5. TypeOK'
  BY <1>1 DEF TypeOK, Advance
<1>6. /\ buffer'[SlotFrom(read_idx, NumWritten)] = workUnit
      /\ \A j \in 0 .. NumWritten - 1 :
           buffer'[SlotFrom(read_idx, j)] = buffer[SlotFrom(read_idx, j)]
  <2>1. \A j \in 0 .. NumWritten - 1 : SlotFrom(read_idx, j) # write_idx
    BY <1>3, <1>4, SlotInjective
  <2>2. \A j \in 0 .. NumWritten : SlotFrom(read_idx, j) \in 0 .. Capacity - 1
    BY <1>3, SlotType
  <2> QED BY <1>1, <1>3, <1>4, <2>1, <2>2 DEF TypeOK
<1>7. /\ SeqIn(pool, workUnit) = produced
      /\ workUnit.kind = "batch" => AgeIn(nextBatch, workUnit.idx) = 1
      /\ count < Capacity
      /\ produced = NumTaken + NumWritten + 1
  BY <1>1 DEF IInv, ProducerInv, IndexInv
<1>8. ProducerInv'
  BY <1>1, <1>2, <1>6, <1>7 DEF ProducerInv
<1>9. ConsumerInv'
  <2>1. /\ cpc \in {"take", "release"} => count > 0
        /\ Holding =>
             /\ SeqIn(pool, next) = consumed + 1
             /\ next.kind = "batch" => AgeIn(nextBatch, next.idx) <= NumWritten + 1 + 1
    BY <1>1 DEF IInv, ConsumerInv
  <2> QED BY <1>1, <1>2, <1>3, <2>1 DEF ConsumerInv
<1>10. SlotInv'
  <2> SUFFICES ASSUME NEW j \in 0 .. NumWritten
               PROVE  LET u == buffer'[SlotFrom(read_idx, j)]
                      IN  /\ SeqIn(pool, u) = NumTaken + 1 + j
                          /\ u.kind = "batch" => AgeIn(nextBatch, u.idx) <= NumWritten + 1 - j
    BY <1>1, <1>2, <1>3 DEF SlotInv
  <2>1. CASE j = NumWritten
    BY <1>3, <1>6, <1>7, <2>1
  <2>2. CASE j < NumWritten
    <3>1. /\ SeqIn(pool, buffer[SlotFrom(read_idx, j)]) = NumTaken + 1 + j
          /\ buffer[SlotFrom(read_idx, j)].kind = "batch" =>
               AgeIn(nextBatch, buffer[SlotFrom(read_idx, j)].idx) <= NumWritten - j + 1
      BY <1>1, <1>3, <2>2 DEF IInv, SlotInv
    <3> QED BY <1>3, <1>6, <2>2, <3>1
  <2> QED BY <1>3, <2>1, <2>2
<1>11. IndexInv'
  <2>1. write_idx' = SlotFrom(read_idx, NumWritten + 1)
    BY <1>3, <1>4, SlotType
  <2> QED BY <1>1, <1>2, <1>3, <1>7, <2>1 DEF IndexInv
<1>12. DecodeIsolated'
  BY <1>1 DEF DecodeIsolated
<1> QED BY <1>5, <1>8, <1>9, <1>10, <1>11, <1>12 DEF IInv

(* The increment publishes the unit that was written.                      *)
LEMMA EnqueueCommitInv == IInv /\ EnqueueCommit => IInv'
<1> SUFFICES ASSUME IInv, EnqueueCommit PROVE IInv'
  OBVIOUS
<1> USE DEF EnqueueCommit, poolVars
<1>1. /\ TypeOK /\ ppc = "commit" /\ ppc' \in {"read", "exited"}
      /\ InDecode = 0 /\ InDecode' = 0 /\ count < Capacity
      /\ NumTaken' = NumTaken /\ NumWritten' = NumWritten
  BY DEF IInv, TypeOK, ProducerInv, InDecode, NumTaken, NumWritten, NumWaiting
<1>2. TypeOK'
  BY <1>1 DEF TypeOK
<1>3. ConsumerInv'
  BY <1>1 DEF IInv, ConsumerInv, TypeOK
<1>4. ProducerInv' /\ SlotInv' /\ IndexInv' /\ DecodeIsolated'
  BY <1>1 DEF IInv, ProducerInv, SlotInv, IndexInv, DecodeIsolated
<1> QED BY <1>2, <1>3, <1>4 DEF IInv

-----------------------------------------------------------------------------
(* Seeing a counter that is not zero makes a unit sure to be there.        *)
LEMMA DequeueCheckInv == IInv /\ DequeueCheck => IInv'
  BY DEF IInv, DequeueCheck, ringVars, poolVars, TypeOK, ProducerInv,
         ConsumerInv, SlotInv, IndexInv, DecodeIsolated, NumWritten,
         NumWaiting, NumTaken, InDecode

(* Taking the first unit moves the read index: every other unit is one     *)
(* place nearer, and the one in hand keeps its age.                        *)
LEMMA DequeueTakeInv == IInv /\ DequeueTake => IInv'
<1> SUFFICES ASSUME IInv, DequeueTake PROVE IInv'
  OBVIOUS
<1> USE DEF DequeueTake, poolVars
<1>1. /\ TypeOK /\ cpc = "take" /\ cpc' = "release" /\ count > 0
      /\ pool' = pool /\ nextBatch' = nextBatch /\ ppc' = ppc
      /\ buffer' = buffer /\ count' = count /\ workUnit' = workUnit
      /\ InDecode' = InDecode /\ InDecode \in 0 .. 1
  BY DEF IInv, ConsumerInv, InDecode
<1>2. /\ NumWaiting' = NumWaiting - 1 /\ NumTaken' = NumTaken + 1
      /\ NumTaken = consumed /\ NumWaiting = count
      /\ NumWritten' = NumWritten - 1
  BY <1>1 DEF NumWaiting, NumWritten, NumTaken, TypeOK
<1>3. /\ NumWritten \in 1 .. Capacity /\ NumTaken \in Nat
      /\ NumWaiting \in 1 .. Capacity
      /\ read_idx \in 0 .. Capacity - 1
  BY <1>1, <1>2, Counts DEF NumWritten
<1>4. \A j \in 0 .. Capacity - 1 : SlotFrom(read_idx', j) = SlotFrom(read_idx, j + 1)
  BY <1>3, SlotType
<1>5. TypeOK'
  BY <1>1 DEF TypeOK, Advance
<1>6. next' = buffer[SlotFrom(read_idx, 0)]
  <2>1. SlotFrom(read_idx, 0) = read_idx
    BY <1>3 DEF SlotFrom
  <2> QED BY <2>1
<1>7. ConsumerInv'
  <2>1. /\ SeqIn(pool, next') = NumTaken + 1
        /\ next'.kind = "batch" => AgeIn(nextBatch, next'.idx) <= NumWritten + InDecode
    BY <1>3, <1>6 DEF IInv, SlotInv
  <2> QED BY <1>1, <1>2, <1>3, <2>1 DEF ConsumerInv
<1>8. SlotInv'
  <2> SUFFICES ASSUME NEW j \in 0 .. NumWritten' - 1
               PROVE  /\ SeqIn(pool', buffer'[SlotFrom(read_idx', j)]) = NumTaken' + 1 + j
                      /\ buffer'[SlotFrom(read_idx', j)].kind = "batch" =>
                           AgeIn(nextBatch', buffer'[SlotFrom(read_idx', j)].idx)
                             <= NumWritten' - j + InDecode'
    BY DEF SlotInv
  <2>1. /\ j + 1 \in 0 .. NumWritten - 1
        /\ buffer'[SlotFrom(read_idx', j)] = buffer[SlotFrom(read_idx, j + 1)]
    BY <1>1, <1>2, <1>3, <1>4
  <2> DEFINE u == buffer[SlotFrom(read_idx, j + 1)]
  <2>2. /\ SeqIn(pool, u) = NumTaken + 1 + (j + 1)
        /\ u.kind = "batch" => AgeIn(nextBatch, u.idx) <= NumWritten - (j + 1) + InDecode
    BY <2>1 DEF IInv, SlotInv
  <2> HIDE DEF u
  <2>3. /\ SeqIn(pool, u) = NumTaken' + 1 + j
        /\ u.kind = "batch" => AgeIn(nextBatch, u.idx) <= NumWritten' - j + InDecode
    BY <1>1, <1>2, <1>3, <2>1, <2>2
  <2> QED BY <1>1, <2>1, <2>3 DEF u
<1>9. ProducerInv'
  <2>1. ppc = "commit" => SlotFrom(read_idx', NumWaiting - 1) = SlotFrom(read_idx, NumWaiting)
    BY <1>3, <1>4
  <2> QED BY <1>1, <1>2, <2>1 DEF IInv, ProducerInv
<1>10. IndexInv'
  <2>1. SlotFrom(read_idx', NumWritten - 1) = SlotFrom(read_idx, NumWritten)
    BY <1>3, <1>4
  <2> QED BY <1>1, <1>2, <1>3, <2>1 DEF IInv, IndexInv
<1>11. DecodeIsolated'
  <2>1. Decoding /\ workUnit.kind = "batch" =>
          \A j \in 0 .. NumWaiting - 1 : buffer[SlotFrom(read_idx, j)] # workUnit
    BY DEF IInv, DecodeIsolated
  <2> QED BY <1>1, <1>2, <1>3, <1>4, <1>6, <2>1 DEF DecodeIsolated
<1> QED BY <1>5, <1>7, <1>8, <1>9, <1>10, <1>11 DEF IInv

(* The decrement only makes the counter catch up with the read index.      *)
LEMMA DequeueReleaseInv == IInv /\ DequeueRelease => IInv'
<1> SUFFICES ASSUME IInv, DequeueRelease PROVE IInv'
  OBVIOUS
<1> USE DEF DequeueRelease, poolVars
<1>1. /\ TypeOK /\ cpc = "release" /\ cpc' = "process" /\ count > 0
      /\ NumWaiting' = NumWaiting /\ NumWritten' = NumWritten
      /\ NumTaken' = NumTaken /\ InDecode' = InDecode
  BY DEF IInv, ConsumerInv, TypeOK, InDecode, NumTaken, NumWritten, NumWaiting
<1>2. TypeOK'
  BY <1>1 DEF TypeOK
<1>3. ProducerInv'
  BY <1>1 DEF IInv, ProducerInv, TypeOK
<1>4. ConsumerInv' /\ SlotInv' /\ IndexInv' /\ DecodeIsolated'
  BY <1>1 DEF IInv, ConsumerInv, SlotInv, IndexInv, DecodeIsolated
<1> QED BY <1>2, <1>3, <1>4 DEF IInv

(* Being done with a unit only releases it.                                *)
LEMMA ProcessInv == IInv /\ Process => IInv'
<1> SUFFICES ASSUME IInv, Process PROVE IInv'
  OBVIOUS
<1> USE DEF Process, poolVars, ringVars
<1>1. /\ TypeOK /\ cpc = "process" /\ cpc' \in {"idle", "closed"}
      /\ NumWaiting' = NumWaiting /\ NumWritten' = NumWritten
      /\ NumTaken' = NumTaken /\ InDecode' = InDecode
  BY DEF IInv, TypeOK, InDecode, NumTaken, NumWritten, NumWaiting
<1>2. TypeOK'
  BY <1>1 DEF TypeOK
<1>3. ProducerInv' /\ ConsumerInv' /\ SlotInv' /\ IndexInv' /\ DecodeIsolated'
  BY <1>1 DEF IInv, ProducerInv, ConsumerInv, SlotInv, IndexInv, DecodeIsolated
<1> QED BY <1>2, <1>3 DEF IInv

\* A step that changes nothing keeps the inductive invariant.
LEMMA StutterInv == IInv /\ UNCHANGED vars => IInv'
<1> SUFFICES ASSUME IInv, UNCHANGED vars PROVE IInv'
  OBVIOUS
<1> USE DEF vars
<1>1. /\ NumWaiting' = NumWaiting /\ NumWritten' = NumWritten
      /\ NumTaken' = NumTaken /\ InDecode' = InDecode
  BY DEF NumWritten, NumWaiting, NumTaken, InDecode
<1>2. TypeOK'
  BY DEF IInv, TypeOK
<1>3. ProducerInv' /\ ConsumerInv'
  BY <1>1 DEF IInv, ProducerInv, ConsumerInv
<1>4. SlotInv'
  BY <1>1 DEF IInv, SlotInv
<1>5. IndexInv' /\ DecodeIsolated'
  BY <1>1 DEF IInv, IndexInv, DecodeIsolated
<1> QED
  BY <1>2, <1>3, <1>4, <1>5 DEF IInv

-----------------------------------------------------------------------------
(***************************************************************************)
(* The inductive invariant holds in every reachable state, whatever the    *)
(* capacity of the ring and however many units arrive.                     *)
(***************************************************************************)
THEOREM RingInductive == Spec => []IInv
<1>1. IInv /\ [Next]_vars => IInv'
  <2> SUFFICES ASSUME IInv, [Next]_vars PROVE IInv'
    OBVIOUS
  <2>1. CASE Next
    <3>1. CASE Finished
      BY <3>1, StutterInv DEF Finished
    <3> QED BY <2>1, <3>1, ReadUnitInv, EnqueueCheckInv, EnqueueWriteInv,
         EnqueueCommitInv, DequeueCheckInv, DequeueTakeInv, DequeueReleaseInv,
         ProcessInv DEF Next
  <2>2. CASE UNCHANGED vars
    BY <2>2, StutterInv
  <2> QED BY <2>1, <2>2
<1> QED BY <1>1, InitInv, PTL DEF Spec

(***************************************************************************)
(* Type correctness of the ring and its pool: in particular the counter    *)
(* stays between 0 and Capacity, although check and update are apart.      *)
(***************************************************************************)
THEOREM RingTypeCorrect == Spec => []TypeOK
<1>1. IInv => TypeOK
  BY DEF IInv
<1> QED BY <1>1, RingInductive, PTL

(***************************************************************************)
(* The main loop sees the units of a connection in order, once each, with  *)
(* the contents they arrived with.                                         *)
(***************************************************************************)
THEOREM RingInOrder == Spec => []InOrderExactlyOnce
<1>1. IInv => InOrderExactlyOnce
  BY DEF IInv, ConsumerInv, InOrderExactlyOnce
<1> QED BY <1>1, RingInductive, PTL

(***************************************************************************)
(* Capacity + 2 preallocated batches are enough: the one being decoded is  *)
(* never in use.                                                           *)
(***************************************************************************)
THEOREM RingDecodeIsolated == Spec => []DecodeIsolated
<1>1. IInv => DecodeIsolated
  BY DEF IInv
<1> QED BY <1>1, RingInductive, PTL

-----------------------------------------------------------------------------
(* n consecutive numbers after t: what the queue of the channel holds.     *)
Run(t, n) == [i \in 1 .. n |-> t + i]

LEMMA RunFacts ==
  ASSUME NEW t \in Nat, NEW n \in Nat
  PROVE  /\ Run(t, n) \in Seq(Nat)
         /\ Len(Run(t, n)) = n
         /\ Append(Run(t, n), t + n + 1) = Run(t, n + 1)
         /\ n > 0 => /\ Run(t, n) # <<>>
                     /\ Head(Run(t, n)) = t + 1
                     /\ Tail(Run(t, n)) = Run(t + 1, n - 1)
<1>1. Run(t, n) \in Seq(Nat) /\ Len(Run(t, n)) = n
  BY DEF Run
<1>2. Append(Run(t, n), t + n + 1) = Run(t, n + 1)
  BY <1>1 DEF Run
<1>3. n > 0 => Run(t, n) # <<>> /\ Head(Run(t, n)) = t + 1
  BY <1>1 DEF Run
<1>4. n > 0 => Tail(Run(t, n)) = Run(t + 1, n - 1)
  BY <1>1 DEF Run
<1> QED BY <1>1, <1>2, <1>3, <1>4

(* The slots that the counter makes visible hold consecutive units, the    *)
(* last of them the last unit that was put.                                *)
QueueInv ==
  /\ NumWaiting \in 0 .. Capacity
  /\ NumTaken \in Nat
  /\ Waiting = Run(NumTaken, NumWaiting)
  /\ NumPut = NumTaken + NumWaiting

LEMMA WaitingRun == IInv => QueueInv
<1> SUFFICES ASSUME IInv PROVE QueueInv
  OBVIOUS
<1>1. NumWaiting \in 0 .. Capacity /\ NumWaiting <= NumWritten
  BY Counts DEF NumWritten, IInv, TypeOK
<1>2. NumTaken \in Nat
  BY DEF NumTaken, IInv, TypeOK
<1>3. NumPut = NumTaken + NumWaiting
  BY <1>1, <1>2 DEF NumPut, IInv, IndexInv, TypeOK, NumWritten, InDecode
<1>4. ASSUME NEW i \in 1 .. NumWaiting
      PROVE  SeqOf(buffer[Slot(i - 1)]) = NumTaken + i
  <2>1. i - 1 \in 0 .. NumWritten - 1
    BY <1>1, Counts
  <2>2. SeqOf(buffer[Slot(i - 1)]) = NumTaken + 1 + (i - 1)
    BY <2>1 DEF IInv, SlotInv
  <2> QED BY <2>2, <1>1, <1>2
<1>5. Waiting = Run(NumTaken, NumWaiting)
  BY <1>4 DEF Waiting, Run
<1> QED BY <1>1, <1>2, <1>3, <1>5 DEF QueueInv

LEMMA WaitingRunNext == IInv' => QueueInv'
  BY WaitingRun, PTL

(* The atomic increment is the Put of the channel.                         *)
LEMMA CommitPuts ==
  ASSUME IInv, IInv', EnqueueCommit
  PROVE  Chan!Put
<1>1. NumTaken' = NumTaken /\ NumWaiting' = NumWaiting + 1 /\ NumWaiting < Capacity
  BY DEF EnqueueCommit, NumTaken, NumWaiting, IInv, TypeOK, ProducerInv
<1>2. NumPut' = NumPut + 1
  BY <1>1, WaitingRun, WaitingRunNext DEF QueueInv
<1>3. NumTaken \in Nat /\ NumWaiting \in Nat
  BY WaitingRun DEF QueueInv
<1>4. /\ Len(Run(NumTaken, NumWaiting)) = NumWaiting
      /\ Append(Run(NumTaken, NumWaiting), NumTaken + NumWaiting + 1)
           = Run(NumTaken, NumWaiting + 1)
  BY <1>3, RunFacts
<1>5. Waiting' = Append(Waiting, NumPut + 1)
  BY <1>1, <1>4, WaitingRun, WaitingRunNext DEF QueueInv
<1>6. Len(Waiting) < Capacity
  BY <1>1, <1>4, WaitingRun DEF QueueInv
<1> QED BY <1>1, <1>2, <1>5, <1>6 DEF Chan!Put

(* Moving the read index is the Take.                                      *)
LEMMA TakeTakes ==
  ASSUME IInv, IInv', DequeueTake
  PROVE  Chan!Take
<1>1. NumTaken' = NumTaken + 1 /\ NumWaiting' = NumWaiting - 1 /\ NumWaiting > 0
  BY DEF DequeueTake, NumTaken, NumWaiting, IInv, TypeOK, ConsumerInv
<1>2. NumPut' = NumPut
  BY <1>1, WaitingRun, WaitingRunNext DEF QueueInv
<1>3. NumTaken \in Nat /\ NumWaiting \in Nat
  BY WaitingRun DEF QueueInv
<1>4. /\ Run(NumTaken, NumWaiting) # <<>>
      /\ Head(Run(NumTaken, NumWaiting)) = NumTaken + 1
      /\ Tail(Run(NumTaken, NumWaiting)) = Run(NumTaken + 1, NumWaiting - 1)
  BY <1>1, <1>3, RunFacts
<1>5. Waiting # <<>> /\ Head(Waiting) = NumTaken + 1 /\ Waiting' = Tail(Waiting)
  BY <1>1, <1>4, WaitingRun, WaitingRunNext DEF QueueInv
<1> QED BY <1>1, <1>2, <1>5 DEF Chan!Take

(* Every other step leaves the channel as it is.                           *)
LEMMA OthersStutter ==
  ASSUME IInv, IInv',
         \/ ReadUnit \/ EnqueueCheck \/ EnqueueWrite \/ DequeueCheck
         \/ DequeueRelease \/ Process \/ Finished \/ UNCHANGED vars
  PROVE  UNCHANGED Chan!chanVars
<1>1. NumTaken' = NumTaken /\ NumWaiting' = NumWaiting
  <2>1. CASE ReadUnit
    BY <2>1 DEF ReadUnit, NumTaken, NumWaiting, ringVars
  <2>2. CASE EnqueueCheck \/ DequeueCheck
    BY <2>2 DEF EnqueueCheck, DequeueCheck, NumTaken, NumWaiting, ringVars
  <2>3. CASE EnqueueWrite
    BY <2>3 DEF EnqueueWrite, NumTaken, NumWaiting
  <2>4. CASE DequeueRelease
    BY <2>4 DEF DequeueRelease, NumTaken, NumWaiting
  <2>5. CASE Process
    BY <2>5 DEF Process, NumTaken, NumWaiting, ringVars
  <2>6. CASE Finished \/ UNCHANGED vars
    BY <2>6 DEF Finished, vars, NumTaken, NumWaiting
  <2> QED BY <2>1, <2>2, <2>3, <2>4, <2>5, <2>6
<1>2. NumPut' = NumPut /\ Waiting' = Waiting
  BY <1>1, WaitingRun, WaitingRunNext DEF QueueInv
<1> QED BY <1>1, <1>2 DEF Chan!chanVars

(***************************************************************************)
(* The ring implements the channel, for every capacity: whatever the two   *)
(* routines interleave between the check, the access and the update of the *)
(* counter, they put and take at the two ends of a bounded FIFO queue.     *)
(***************************************************************************)
THEOREM RingImplementsChannel == Spec => ImplementsChannel
<1>1. Init => Chan!Init
  <2> SUFFICES ASSUME Init PROVE Chan!Init
    OBVIOUS
  <2>1. NumWaiting = 0 /\ NumTaken = 0
    BY DEF Init, NewInputRingBuffer, NumWaiting, NumTaken
  <2>2. Waiting = Run(0, 0) /\ NumPut = 0
    BY <2>1, InitInv, WaitingRun DEF QueueInv
  <2>3. Run(0, 0) = <<>>
    BY RunFacts
  <2> QED BY <2>1, <2>2, <2>3 DEF Chan!Init
<1>2. IInv /\ IInv' /\ [Next]_vars => [Chan!Next]_Chan!chanVars
  <2> SUFFICES ASSUME IInv, IInv', [Next]_vars PROVE [Chan!Next]_Chan!chanVars
    OBVIOUS
  <2> QED BY CommitPuts, TakeTakes, OthersStutter DEF Next, Chan!Next
<1> QED BY <1>1, <1>2, RingInductive, PTL DEF Spec, Chan!Spec, ImplementsChannel
=============================================================================
