----------------------------- MODULE RingBuffer -----------------------------
(***************************************************************************)
(* The input buffer of one data channel (internal/buffer/ringBuffer.go and *)
(* batchPool.go): a lock-free ring of work units with an atomic counter,   *)
(* shared by the network routine that fills it (Upstream.SupplyInputBuffer)*)
(* and the task's main loop that empties it (ReadFromBufferNonblock).      *)
(* Batches are decoded into a pool of Capacity + 2 preallocated batches    *)
(* that is reused round robin, so a batch handed out too early would be    *)
(* overwritten while it waits or while it is being processed.              *)
(*                                                                         *)
(* A work unit is its sequence number on the connection; a batch holds the *)
(* index of the pool entry that its records were decoded into, and its     *)
(* number is whatever that entry holds when the number is looked at.       *)
(***************************************************************************)
EXTENDS Naturals, Sequences

CONSTANTS Capacity,  \* config.BufferSize
          MaxUnits   \* bound: work units that arrive on the connection

ASSUME CapacityAssumption == Capacity \in Nat \ {0}
ASSUME MaxUnitsAssumption == MaxUnits \in Nat

VARIABLES buffer,    \* the slots of the ring
          count,     \* rb.count, the atomic counter
          read_idx,
          write_idx,
          nextBatch, \* bp.nextBatch, the next pool entry to hand out
          pool,      \* what the records of each pool entry were decoded from
          ppc,       \* where the network routine is
          workUnit,  \* the unit the network routine holds
          cpc,       \* where the main loop is
          next,      \* the unit the main loop holds
          produced,  \* history: units the network routine has decoded
          consumed   \* history: units the main loop is done with

ringVars == <<buffer, count, read_idx, write_idx>>
poolVars == <<nextBatch, pool>>
vars == <<buffer, count, read_idx, write_idx, nextBatch, pool,
          ppc, workUnit, cpc, next, produced, consumed>>

-----------------------------------------------------------------------------
\* Fault: no pool entry for the batch that is blocked by a full ring.
PoolSizeMinusOne == Capacity + 1

PoolSize == Capacity + 2

Batch(i) == [kind |-> "batch", idx |-> i, seq |-> 0]
Control(n) == [kind |-> "control", idx |-> 0, seq |-> n]
Termination(n) == [kind |-> "termination", idx |-> 0, seq |-> n]

Units == [kind : {"batch", "control", "termination"},
          idx : 0 .. PoolSize - 1, seq : Nat]

\* The sequence number that a reader of unit u sees when the pool holds p.
SeqIn(p, u) == IF u.kind = "batch" THEN p[u.idx] ELSE u.seq
SeqOf(u) == SeqIn(pool, u)

NewInputRingBuffer ==
  /\ buffer = [i \in 0 .. Capacity - 1 |-> Control(0)]
  /\ count = 0
  /\ read_idx = 0
  /\ write_idx = 0

NewBatchPool ==
  /\ nextBatch = 0
  /\ pool = [i \in 0 .. PoolSize - 1 |-> 0]

Init ==
  /\ NewInputRingBuffer
  /\ NewBatchPool
  /\ ppc = "read" /\ workUnit = Control(0)
  /\ cpc = "idle" /\ next = Control(0)
  /\ produced = 0 /\ consumed = 0

-----------------------------------------------------------------------------
(* The index after i in a ring of n entries.                               *)
Advance(i, n) == IF i + 1 = n THEN 0 ELSE i + 1

(***************************************************************************)
(* Network routine: Upstream.SupplyInputBuffer.                            *)
(***************************************************************************)

\* Fault: the pool hands out the same entry again.
GetNoAdvance ==
  /\ pool' = [pool EXCEPT ![nextBatch] = produced + 1]
  /\ workUnit' = Batch(nextBatch)
  /\ UNCHANGED nextBatch

\* A batch is decoded into the next entry of the pool.
Get ==
  /\ pool' = [pool EXCEPT ![nextBatch] = produced + 1]
  /\ workUnit' = Batch(nextBatch)
  /\ nextBatch' = Advance(nextBatch, PoolSize)

\* Barriers, watermarks and metadata are allocated afresh, and so is the
\* termination signal that the end of the connection is turned into.
NewUnit ==
  /\ workUnit' \in {Control(produced + 1), Termination(produced + 1)}
  /\ UNCHANGED poolVars

ReadUnit ==
  /\ ppc = "read"
  /\ produced < MaxUnits
  /\ Get \/ NewUnit
  /\ produced' = produced + 1
  /\ ppc' = "check"
  /\ UNCHANGED <<ringVars, cpc, next, consumed>>

\* Fault: a full buffer is not noticed.
EnqueueCheckUnguarded ==
  /\ ppc = "check"
  /\ ppc' = "write"
  /\ UNCHANGED <<ringVars, poolVars, workUnit, cpc, next, produced, consumed>>

\* Enqueue, first part: a full buffer is retried after a sleep.
EnqueueCheck ==
  /\ ppc = "check"
  /\ count # Capacity
  /\ ppc' = "write"
  /\ UNCHANGED <<ringVars, poolVars, workUnit, cpc, next, produced, consumed>>

EnqueueWrite ==
  /\ ppc = "write"
  /\ buffer' = [buffer EXCEPT ![write_idx] = workUnit]
  /\ write_idx' = Advance(write_idx, Capacity)
  /\ ppc' = "commit"
  /\ UNCHANGED <<count, read_idx, poolVars, workUnit, cpc, next,
                 produced, consumed>>

\* The atomic increment; the routine ends after a termination signal.
EnqueueCommit ==
  /\ ppc = "commit"
  /\ count' = count + 1
  /\ ppc' = IF workUnit.kind = "termination" THEN "exited" ELSE "read"
  /\ UNCHANGED <<buffer, read_idx, write_idx, poolVars, workUnit, cpc, next,
                 produced, consumed>>

(***************************************************************************)
(* Main loop: Dequeue, then whatever the task does with the unit.          *)
(***************************************************************************)
\* Fault: the last unit in the buffer is never seen.
DequeueCheckOffByOne ==
  /\ cpc = "idle"
  /\ count > 1
  /\ cpc' = "take"
  /\ UNCHANGED <<ringVars, poolVars, ppc, workUnit, next, produced, consumed>>

\* Fault: an empty buffer is not noticed.
DequeueCheckUnguarded ==
  /\ cpc = "idle"
  /\ cpc' = "take"
  /\ UNCHANGED <<ringVars, poolVars, ppc, workUnit, next, produced, consumed>>

DequeueCheck ==
  /\ cpc = "idle"
  /\ count # 0
  /\ cpc' = "take"
  /\ UNCHANGED <<ringVars, poolVars, ppc, workUnit, next, produced, consumed>>

DequeueTake ==
  /\ cpc = "take"
  /\ next' = buffer[read_idx]
  /\ read_idx' = Advance(read_idx, Capacity)
  /\ cpc' = "release"
  /\ UNCHANGED <<buffer, count, write_idx, poolVars, ppc, workUnit,
                 produced, consumed>>

DequeueRelease ==
  /\ cpc = "release"
  /\ count' = count - 1
  /\ cpc' = "process"
  /\ UNCHANGED <<buffer, read_idx, write_idx, poolVars, ppc, workUnit, next,
                 produced, consumed>>

\* The main loop is done with the unit when it asks for the next one; after a
\* termination signal the upstream is removed and its buffer released.
Process ==
  /\ cpc = "process"
  /\ consumed' = consumed + 1
  /\ cpc' = IF next.kind = "termination" THEN "closed" ELSE "idle"
  /\ UNCHANGED <<ringVars, poolVars, ppc, workUnit, next, produced>>

\* Nothing is left to do once the connection is closed, or when the bound on
\* arrivals is reached and everything was consumed.
Finished ==
  /\ \/ cpc = "closed"
     \/ cpc = "idle" /\ count = 0 /\ ppc = "read" /\ produced = MaxUnits
  /\ UNCHANGED vars

Next ==
  \/ ReadUnit \/ EnqueueCheck \/ EnqueueWrite \/ EnqueueCommit
  \/ DequeueCheck \/ DequeueTake \/ DequeueRelease \/ Process
  \/ Finished

Spec == Init /\ [][Next]_vars

(***************************************************************************)
(* Both routines are goroutines that the Go scheduler keeps running; they  *)
(* never wait for anything but the counter.  Arrivals are not forced.      *)
(***************************************************************************)
Fairness ==
  /\ WF_vars(EnqueueCheck) /\ WF_vars(EnqueueWrite) /\ WF_vars(EnqueueCommit)
  /\ WF_vars(DequeueCheck) /\ WF_vars(DequeueTake)
  /\ WF_vars(DequeueRelease) /\ WF_vars(Process)

FairSpec == Spec /\ Fairness

-----------------------------------------------------------------------------
(* Correctness.                                                            *)

TypeOK ==
  /\ buffer \in [0 .. Capacity - 1 -> Units]
  /\ count \in 0 .. Capacity
  /\ read_idx \in 0 .. Capacity - 1
  /\ write_idx \in 0 .. Capacity - 1
  /\ nextBatch \in 0 .. PoolSize - 1
  /\ pool \in [0 .. PoolSize - 1 -> Nat]
  /\ ppc \in {"read", "check", "write", "commit", "exited"}
  /\ workUnit \in Units
  /\ cpc \in {"idle", "take", "release", "process", "closed"}
  /\ next \in Units
  /\ produced \in Nat
  /\ consumed \in Nat

Decoding == ppc \in {"check", "write"}
Holding == cpc \in {"release", "process"}

\* The units that were put and not yet taken: between the two halves of a
\* Dequeue the counter still includes the unit that was taken.
NumWaiting == IF cpc = "release" THEN count - 1 ELSE count

\* The slot j places after index r, and after the read index.
SlotFrom(r, j) == IF r + j < Capacity THEN r + j ELSE r + j - Capacity
Slot(j) == SlotFrom(read_idx, j)

NumTaken == IF Holding THEN consumed + 1 ELSE consumed
NumPut == IF Decoding \/ ppc = "commit" THEN produced - 1 ELSE produced

(***************************************************************************)
(* The main loop gets the units of the connection in order, none twice and *)
(* none skipped, and from the moment it takes one until it is done with it *)
(* the records are the ones that arrived under that number: Dequeue, the   *)
(* batch pool and the network routine never overwrite a batch in use.      *)
(***************************************************************************)
InOrderExactlyOnce == Holding => SeqOf(next) = consumed + 1

(***************************************************************************)
(* The pool entry that the network routine decodes into is neither waiting *)
(* in the ring nor held by the main loop: batchPool.go's "n waiting, one   *)
(* processed, one blocked in front of a full buffer" is enough.            *)
(***************************************************************************)
DecodeIsolated ==
  Decoding /\ workUnit.kind = "batch" =>
    /\ Holding => next # workUnit
    /\ \A j \in 0 .. NumWaiting - 1 : buffer[Slot(j)] # workUnit

(***************************************************************************)
(* The ring with its counter implements the channel: what the counter      *)
(* makes visible is a FIFO queue bounded by Capacity.                      *)
(***************************************************************************)
Waiting == [i \in 1 .. NumWaiting |-> SeqOf(buffer[Slot(i - 1)])]

Chan == INSTANCE Channel
          WITH queue <- Waiting, produced <- NumPut, taken <- NumTaken

ImplementsChannel == Chan!Spec

(***************************************************************************)
(* A unit that the network routine has decoded is eventually processed:    *)
(* neither routine waits forever on the counter.                           *)
(***************************************************************************)
Delivered == \A n \in 1 .. MaxUnits : produced >= n ~> consumed >= n
=============================================================================
