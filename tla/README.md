# Verification of the Koala streaming runtime

TLA+ models of the Koala runtime, the TLC runs that check them on small
instances, and TLAPS proofs of what holds for every instance.
`PROJECT.json` is the index: components, runs, the source lines each definition
stands for, hazards, findings and theorems. Paths below are relative to `src/`.

## 1. The system

Koala runs a dataflow of operators. Each operator has parallel *tasks*, one per
worker process; a *coordinator* deploys them and reconfigures a stateful operator
while the job runs. Keys are hashed to *buckets*, and a partition of the buckets
says which task owns which keys.

| Component | State | Operations | Talks to |
|---|---|---|---|
| Coordinator, `coordinator/` | task placement, key partitions, worker pool, `ReconfigInProgress`, bucket owner history | `RunJob`, `Rescale` (lazy, stop-and-restart), worker registration | control plane of every worker: one message, one ack |
| Worker control plane, `worker/controlPlane.go` | the assigned task | one handler per message, in its own goroutine | coordinator; main loop through `LazyProtocolPhase` and `ReconfigStartChan` |
| Worker main loop, `worker/worker.go` | local `inTransition` | get a work unit, fast-forward, process, forward watermarks, leave the transition | Supplier, operator, collectors |
| Supplier, `internal/supplier/` | channels and their watermarks, expected and received barriers and peers, deployment flag | accept a channel, read a unit, preprocess it | main loop, control plane (sync flags) |
| KeybyCollector, `api/collector/` | routing table, downstreams, pending batches | emit, flush, broadcast watermark, update routing, pause | output buffers |
| PeerCollector, `internal/lazy/` | the same, for the tasks that take over keys | activate, emit, send key maps, broadcast watermark, deactivate | peer channels |
| Network and buffers, `internal/network/`, `internal/buffer/` | output buffers, input rings, batch pools | dial, send, decode, enqueue, dequeue | both ends of a channel |
| Key lookup table, `internal/keyby/` | the location of every key of a bucket | look up, update, serialise and take over | state service, main loop |
| Partition policies, `internal/keyby/partition/` | buckets to workers | generate, repartition (even, uniform, consistent hashing) | coordinator |
| State service and client, `state/`, `api/stateClient/` | local store, caches, connections to other stores | get, put, fetch from the old owner, migrate, eventual migration | other workers' state services |
| Operators, `api/dataflow/` | windows, timers, joins, maps | process a batch, process a watermark | state client |
| Metrics, Kafka, clients, queries | — | reporting, input and output | — |

What makes it hard: the old owner keeps receiving records of keys it has given away
until every upstream has switched; the control thread and the main loop share a
flag, a routing table and a PeerCollector without a lock; barriers, key maps,
watermarks, records and terminations are ordered only within one channel; counters
decide when a phase ends, and the next reconfiguration reuses them; decoded batches
live in a pool that is reused round robin; state moves on a miss, while reads and
writes go on.

Workers do not recover from crashes: an unexpected condition is a `log.Fatal`, which
the models keep as an outcome (`fatal`). Channels are TCP connections, so nothing is
lost, duplicated or reordered within one.

## 2. The modules

| Modules | Part | Section |
|---|---|---|
| `Channel`, `RingBuffer` | input ring and batch pool | 3 |
| `KeyOwnership`, `LazyReconfig` | the lazy protocol, coordinator to channels | 4 |
| `KeyPartition` | partition policies, bucket ranges | 5 |
| `StopRestart` (extends `KeyPartition`, implements `KeyOwnership`) | job start and stop-and-restart rescales | 6 |
| `StateStore`, `StateService` | keyed state under the lazy versions | 7 |
| `EventTime`, `TumblingWindow`, `SlidingWindow`, `CustomWindowJoin`, `Windows` | window operators whose keys move | 8 |
| `Dataflow`, `Queries`, `JobStart` (extends `KeyPartition`) | graph construction, shipped queries, registration, placement, deployment | 9 |
| `RingBufferProofs`, `LazyReconfigProofs`, `KeyPartitionProofs`, `StopRestartInv`, `PlanProofs`, `CollectorProofs`, `DrainProofs`, `MigrationProofs`, `StopRestartProofs` | invariants and proofs | 10 |

`MC*` modules instantiate them for TLC. `KeyOwnership` and `StateStore` are the
promises to the operators: the first says who processes a record, the second what
value it sees. `LazyReconfig` and `StopRestart` are each shown to implement the
first, `StateService` the second; `EventTime` takes both for granted and asks what
becomes of windows. Definitions named `Fault...` are mutations of the definition
that follows them, and no run uses them: they record which mistake each property
would notice.

## 3. The input ring: `RingBuffer`

State and actions follow `ringBuffer.go`, `batchPool.go` and the loop of
`Upstream.SupplyInputBuffer`: checking the counter, writing the slot and adding
to the counter are separate steps of the network routine, and likewise for the
main loop. A batch is an index into the pool, so its contents are whatever the
entry holds at the time; handing an entry out too early shows as a changed
number. `Channel` is the bounded FIFO that the two promise to be.

Run `ring_buffer` (capacity 2, pool of 4, 7 units, so that both the ring and the
pool wrap around): units are consumed once, in order and with their contents
(`InOrderExactlyOnce`); nothing decodes into an entry in use (`DecodeIsolated`);
the ring implements `Channel` (`ImplementsChannel`); everything that arrives is
processed (`Delivered`, weak fairness of the two routines, which only ever poll).

## 4. The lazy protocol: `LazyReconfig`

One module, since the components only make sense together.

- *Coordinator.* `step` is where `rescaleLazy` is, `waiting` the tasks whose ack
  is missing, `plan` the old and the new placement and partition. `Rescale` may
  choose any new partition that moves a key and gives every new task one.
- *Control plane.* One action per handler. `HandleStartFastForward` is three
  (prepare, set the flag, meet the main loop), as the main loop runs in between.
- *Main loop.* `mpc` is its place: `top` (before `updateInTransitionFlag`),
  `notify`, `announce` (sends the key maps), `get` (in `GetWorkUnit`), and the four
  steps of `exitTransitionPhase` that the control thread can see.
- *Supplier.* `sup` has the counters under their meaning; -1 and -2 are the
  code's own values (none expected; all connected). `chWM` are the channel
  watermarks. `Open` is the list of upstreams.
- *Collectors and channels.* `pending` are the current batches, `chan` all units
  between a collector and the Supplier at the other end. A batch is a set of
  records: its order is not observed. A record has a number, a key and a time.
- *Key maps.* A key stands for a bucket. `keyMap[w]` are the buckets whose key map
  is in the table of w, `mapSent` those at the head of a peer connection.

`KeyOwnership` is what the protocol promises: a key has one owner or is moving,
only the owner processes its records, each record once, none is lost. The mapping
takes the owner of a key from the key lookup tables.

| Run | Instance | Shows |
|---|---|---|
| `lazy_repeat` | 2 upstreams, 2 workers, 1 key, 2 rescales, 1 record, watermarks to 1 | ownership (`ImplementsOwnership`), `KeyMapSingleCopy`, watermarks (`WatermarkComplete`), no failed protocol check (`NoProtocolError`), everything reset (`CleanWhenIdle`); about 258 000 states |
| `lazy_move` | 1 upstream, 3 workers, 2 keys, 1 rescale | scale-up and scale-down with moves in both directions; removed tasks are empty when stopped (`RemovedTaskDrained`) |
| `lazy_batches` | 1 upstream, 2 workers, 2 keys, batches of 2, 3 records | batches that are split between here and a peer, and overflow of a peer batch |
| `lazy_live` | 2 upstreams, 2 workers, 1 key, 2 rescales | `RescaleTerminates`, `RecordsProcessed` |
| `lazy_overlap` | two rescales as close as the coordinator allows | `StartNoticed` fails |
| `lazy_deployment` | 1 rescale | `DeploymentPassedFirst` fails |
| `lazy_connecting` | channels not yet connected when the rescale starts | `WatermarkAwaitsUpstreams` fails |

*Bounds.* Two upstreams are enough for barriers to arrive apart; two workers for a
sender and a receiver, three for a task that does both; two rescales for leftovers
of the first to meet the second; one record at each place of the protocol is
enough for ownership, as records do not interact except in batches, which
`lazy_batches` covers. `MaxRescales`, `MaxRecords` and `MaxWatermark` are guards.
Upstream tasks are interchangeable in `lazy_repeat` (symmetry).

*`Spaced`.* The passing runs let a rescale start only when every task has left
the previous transition. The code does not ensure this; `lazy_overlap` drops the
assumption and shows what happens. The theorems on this module do not use it.

*Deadlock* is checked: `ReceiveOtherBatch`, the other traffic of a job, is always
there, and a halted worker stutters (`Halted`).

*Fairness* (`FairSpec`). Every thread and network routine runs (weak fairness:
goroutines are scheduled, TCP dials succeed, the flush timer fires). A Supplier
polls its channels round robin, so a channel that has data again and again is read
(strong fairness of `Receive`). Sources do not dry up, so a main loop blocked in
`GetWorkUnit` comes back to the flag; without traffic the protocol does wait.
Requests and emissions are not fair.

### Findings

1. `lazy_overlap`: `ReconfigTerminated` is signalled before the main loop leaves
   the transition. A rescale that follows at once sets the phase flag again before
   the main loop has seen it at 0; the control thread then waits for ever for a
   start that the main loop takes for granted.
2. `lazy_deployment`: the "very rare" case of the comment in `preprocessWorkUnit`
   is reachable: a peer may finish before the new task has all its upstreams.
3. `lazy_connecting`: peer channels count towards `ExpectNumUpstream`, so a task
   may pass its deployment phase, and progress its watermark, without an upstream.

## 5. The partition policies: `KeyPartition`

Operators, no state: `GenerateBuckets` and `RePartition` for the three policies, the
conditions under which the even policy refuses (`Refuses`), and the bucket ranges in
which tables and migration plans travel (`ToRanges`, `Serialize` and their
inverses). The loops of the code are given by their result: `Desired` is the share of
the i-th worker, `Donated` the buckets in the order of the round robin over the
donors, `Recipient` the worker whose need the first k donated buckets reach. The
hash values of a worker are the constant `Tokens`.

The module is checked inside `stop_restart` (`EvenSpread`, `MinimalMovement`) and
`job_start`, and its theorems (section 10) hold for any number of buckets and workers.

## 6. Stop-and-restart: `StopRestart`

The start of a job, then `rescaleStopAndRestart`: pause the upstream tasks, wait for
the drain barriers, repartition, move metadata and state, start and stop tasks,
reroute, resume. `step` is where the coordinator is and `todo` what it still waits
for, workers or moves. "Data drained" is the one message a worker sends on its own
account; `reported` counts those that are not read, and `WaitACK` fails on one that is
read in place of an ack. A record adds its number to the value of its key, or clears
it; a key with a value has an entry in the in-memory index of its task, as an active
window has, so that `index` and `initMeta` follow the metadata of a task and `store`
its state. The operator upstream is rescaled as well (`RescaleUpstream`), as far as
these tasks see it.

Run `stop_restart` (131 568 states): nine jobs with three rescales and no data, one for
each policy and first parallelism, six with up to three records, up to two rescales
and, in three of them, a rescale of the operator upstream; a pool of four workers, five buckets (not a multiple of any parallelism
above one), batches of two. It checks the types, `NoFatal`, `Drained` (nothing in flight
while state moves), `StateComplete`, `IndexTracksState`, `EvenSpread`,
`MinimalMovement`, that the protocol implements `KeyOwnership`, and
`RescaleCompletes`. Jobs end, so deadlock is not checked; `RescaleCompletes` covers a
rescale that stops half way.

*Fairness.* While the coordinator is busy, some process with a step to take takes one:
every goroutine is scheduled, and all steps but the emission of records, which is
bounded, end in finitely many. `ReconfigureStatefulOp` has its own conjunct.

*`Spaced`.* `handleDrainBarrier` compares barriers with the channels connected *so far*,
and `RemoveUpstream` lowers that number. With `Spaced = FALSE` TLC finds both
consequences: a task whose second upstream is still dialing reports drained too early
(`Drained`, three seconds), and an upstream task that terminates between two barriers
leaves a count that is never reached (`RescaleCompletes`, a minute). The runs and
theorems ask for rescales only when the channels of the last one are in place.

*What the code does, and the properties allow for.* State is copied and never deleted
at the source, so a key that was cleared comes back when its bucket returns to a former
owner (`StateComplete` exempts it, `returned`). Workers of removed tasks never return
to the pool. Consistent hashing may give a worker no bucket; a rescale that adds only
such workers ends the coordinator in `log.Fatal` (no bucket to move). The instance's
tokens avoid this, and the theorem has it as a hypothesis (`RingsDiffer`).

## 7. Keyed state: `StateService`

Per worker: the backend (`store`), the task's cache (`cache`, `pc`), the goroutines of a
batch (`routines`) and the eventual migration (`ev`); `keyMap` is the location of each
key in the key map of its bucket, `table` the bucket tables of the three deprecated
versions. The versions share their code and so the module: `profile` fixes the version,
the layout of buckets and what a function does to a key. A batch fetches its keys, from
up to three places, processes them, and flushes in the order overwrite, merge, delete;
copying what was fetched and updating addresses goes on in the background, and so does
the migration from cancelled workers, bucket by bucket and at most `maxKeys` keys a
round. `HandOver` and `ReceiveKeyMap` stand for the protocol of section 4.

Run `state_service` (275 858 states, eleven profiles): every task reads the last value
written (`ImplementsStore`, refinement of `StateStore`); no key stays at a removed worker
(`RemovedHoldsNothing`); a key that is not in the key map has no value
(`AbsentKeyIsNew`); eventual migration ends (`EventualMigrationEnds`). *Fairness:* the
goroutines, handlers and batches of the tasks whose migration a rescale waits for; the
code advances eventual migration only with batches, so without records for a new owner a
rescale does not return. *Bounds:* values modulo 3, two keys in one or two buckets, up to
two rescales, one key a round or all of them.

`FailsOnlyAsKnown` names the failures that the run reaches and excludes all others:

- *Nil locks.* With a limit on the keys of a round
  (`LazyByKeyGradualMigrationBatchSize`, 100 by default) and two cancelled workers, the
  first to be done is invoked again in a later batch, and the last one sets the locks and
  maps of finished buckets to nil (`state/lazyByKeyUtil.go:319-328`) before its routine
  uses them (`:365`, `:380`). Only a worker that was done before can meet them, only with
  a limit, and only then a rescale may wait for ever.
- *Stale tables.* Under a deprecated version, after a second rescale, a table may name a
  worker that has passed the bucket on; asked for it, this worker ends in `log.Fatal`
  (`worker/stateCommRpcApi.go:113`).
- *No effect.* A rescale whose partition is the one in place is refused with `log.Fatal`
  (`coordinator/apiServiceUtil.go:167`). The other refusal of the coordinator, eventual
  migration from removed workers that had no bucket (`:908`), is in `AllMoved`; with the
  consistent policies of these profiles such a removal moves nothing and meets the first.

The profiles leave out four things that break a property, each one reproduced with TLC by
putting it in or read from the lines given:

- a batch that only reads does not wait for the background flush of the last one
  (`ReadOnlyProfiles`): the key map may leave with an address that is not updated yet, and
  `ImplementsStore` fails, against the comments at `state/stateService.go:49` and
  `state/lazyByKeyUtil.go:100`;
- the version `optimized` with two rescales: a server sends the values of the keys before
  it looks at who owns the bucket (`worker/stateCommRpcApi.go:300-360`), so a stale table
  leads to a stale value and `ImplementsStore` fails;
- `Set` and then `Clear` of a new key in one batch ends in the `Fatalf` of `RemoveKey`
  (`api/stateClient/simpleStateCache.go:108`); no shipped query does it, which the last
  conjunct of `WellFormed` checks (section 9);
- a deleted key whose bucket returns to a worker with an old value is found again
  (`internal/keyby/keyLookupTableV2.go:103`).

## 8. Windows: `EventTime`, `Windows`

`EventTime` has the source with its periodic watermark generator, task watermarks, and
keys that change hands with their part of the metadata, lazily or all at once; the three
operator modules add batches, firing and the two kinds of metadata. `Windows` puts one
of them, as the job says, into such a job. The panes of a sliding window are a bag, since
the code appends to a slice without looking.

Run `windows` (985 086 states): `CountedOnce`, `OnTimeCounted`, `IndexMatchesState`,
`FiredByOwner`. Windows of two units with a slide of one or two, event times to 3, delay
1, so that a watermark passes several windows at once and records are late; three
records of one key or two of two, up to two changes of owner, under both protocols.
`JsonKey` is the identity here: metadata goes through JSON, which changes keys that are
not valid UTF-8, and then a window does not arrive under its key. `returns = FALSE`
excludes keys that go back to a former owner, where the copy left behind by
stop-and-restart makes `IndexMatchesState` one-sided.

## 9. Job start: `JobStart`

`Dataflow` are the constructors, streams and checks of the API, `Queries` every shipped
dataflow, of which the run starts four. The others are there for `QueriesWellFormed`, an
assumption that TLC evaluates on this run: every dataflow but `Example_Filter_Query`
passes the checks of the API, and none sets and clears a key in one batch (section 7).

`JobStart` goes from the registration of workers over `RunJob`, both placement policies,
`InitKeyPartitions` and the concurrent `DeployTask` routines to connected tasks. Workers
register at any time. A client who waits (`job.patient`) calls `RunJob` when all workers
in the pool have their ack and listen; `job.files` are the warm-up files that
`HandleTaskAssignment` finds with `LoadWarmupData`, with a lookup table or not readable.

Run `job_start` (183 700 states, seven jobs on three to five machines): tasks are wired as
the dataflow says and route alike (`Wired`); an accepted job starts, or a process fails,
or a warm-up file cannot be read (`JobStarts`; weak fairness of the steps of the job and
of registrations under way, each of which happens once). A file that cannot be read makes
the handler return without a word to the coordinator (`worker/controlPlane.go:391`), and
`RunJob` waits for ever. `NoFatal` says which processes fail:

- A worker is in the pool before its registration is acknowledged and before it listens,
  so it may be dialled too early, or read a task assignment in place of the ack
  (`Premature`). With a client who waits this happens only to a worker that joins between
  the count in `RunJob` and the allocation, which takes the available workers by port.
- A warm-up file with a lookup table at a worker whose task has no state: the table it
  would replace is nil (`Misplaced`, `worker/controlPlane.go:400`).

`RunJob` compares the number of tasks with all workers, not with the available ones, and
does not look at `ReconfigInProgress`; a second `RunJob`, which would run into both, is
not modelled.

## 10. Proofs

All theorems are checked by TLAPS for every value of the constants that satisfies the
named assumptions of the modules.

**Ring.** `RingTypeCorrect`, `RingInOrder`, `RingDecodeIsolated`,
`RingImplementsChannel`, for every positive capacity and any number of units. The
invariant (`IInv`) relates every pool entry in use to its age, the number of hand-outs
since it was handed out: the ring holds at most `Capacity` units, the main loop one and
the network routine one, so the age stays below `Capacity + 2`, when an entry is handed
out again. For the refinement, the slots between the two indices are the queue of
`Channel`.

**Lazy protocol.** For any sets of tasks and keys and any bounds, with or without
`Spaced` and `Established`: `LazyTypeCorrect`, with one lemma per action (`TypeOK` has one
predicate per group of variables, the lemma `Frame` carries over the groups that an
action leaves alone), and `LazyKeyMapSingleCopy`, inductive together with the types:
only `EnterTransition` and `ConnectPeer` touch key maps, the first takes a map out of one
table and puts it on the connection that the routing table names, the second does the
reverse. Closely spaced rescales cannot duplicate a key map either. Assumptions
(`ConstantsAssumption`): finite, disjoint sets of tasks, an initial partition over the
initial tasks, a positive batch size.

**Policies** (`KeyPartitionProofs`), for any number of buckets and any list of distinct
workers not longer than that: `BlocksEven` and `EvenRePartitionEven` (every worker gets
its share, whatever the table was), `EvenScaleUp` and `EvenScaleDown` (buckets move to new
workers only or from removed ones only, and no check refuses), `RingConsistent` (the same
for consistent hashing), `RangesExact` and `TableRoundTrip` (plans and tables survive
their ranges). The argument: the need of the workers and the number of donated buckets
are the same sum, so the recipients' intervals of donated buckets tile that number, and
the buckets a worker keeps plus its interval are its share. Sums over workers are counted
as sets of pairs, which needs no induction over data.

**Stop-and-restart.** All properties of the run but the liveness one:
`StopRestartEvenSpread`, `StopRestartMinimalMovement`, `StopRestartNeverRefused` (no
assumption on the spacing of rescales), and, with `Spaced`, `StopRestartTypeCorrect`,
`StopRestartDrained`, `StopRestartNoFatal`, `StopRestartStateComplete`,
`StopRestartIndexTracksState` and `StopRestartImplementsOwnership`. Assumptions: the pool
lists finitely many distinct workers, a job has at least one upstream task and no more
tasks than buckets, and no two workers share a hash value (`TokensAssumption`: 64-bit
values; on a tie the order of `sort.Slice` is not determined). `StopRestartNoFatal` holds
for the hash policy under `RingsDiffer`: prefixes of the pool of different length have
different rings.

The invariant `JobInv` has four layers, each inductive given the ones before it:

- `PlanInv` (`PlanProofs`): tasks, free workers and the list of a change are disjoint parts
  of the pool, and the table is a partition of the policy's kind for the list it was made
  for. Even spread alone is not inductive, since a repartition starts from the last table.
- `ProtocolInv` (`StopRestartInv`; proved in `CollectorProofs` for the upstream tasks and
  in `DrainProofs` for the rest): what each upstream task, connection and Supplier may
  look like at each step of the coordinator. On a connection there is at most one barrier of a
  rescale, behind all data and followed by nothing before the task is resumed
  (`LinkInv`); the number of barriers a task has counted is the number of its upstreams
  whose barrier is no longer under way, and it has reported exactly when that is all of
  them (`BarrierInv`). "Drained" follows when the last report is read.
- `MigrationInv` (`MigrationProofs`): `RecordInv`, a record waits in one place, for the
  owner of its key, and is not processed yet; `StateInv`, the value at the home of a key is
  the one its records made, with one index entry, through both calls of a move. Copies
  that stay behind make it necessary to say who may hold one (`PastInv`): only workers that
  had the bucket before, so a destination is empty unless the bucket returns to it.
- `FatalInv`: no process has stopped.

The refinement of `KeyOwnership` is proved step by step along with `MigrationInv`: `Emit`,
`ProcessBatch` and the two calls of a move map to the abstract steps, all others to
stuttering. TLC checked the layers on the instance of `stop_restart` before they were
proved.

**Only model-checked.** Liveness (`Delivered`, `RescaleTerminates`, `RecordsProcessed`,
`EventualMigrationEnds`, `RescaleCompletes`, `JobStarts`): fairness and `ENABLED` are beyond
the prover. The refinement, watermark and clean-up properties of `LazyReconfig`: they need
an invariant over the phases of every task. Everything of `StateService`, `Windows`
and `JobStart`.

## 11. Not modelled, and why

- Bounded output buffers and back pressure: the channels of `LazyReconfig` and
  `StopRestart` are unbounded, so a deadlock by full peer channels would not show. With
  the consistent policies tasks either send to peers or receive from them
  (`MinimalMovement`), and no cycle can form; with the uniform policy one can.
- Requests for more workers than are free: workers of removed tasks are not given back,
  and such a rescale ends in `log.Fatal` at the allocation.
- Operators with two inputs in `LazyReconfig`: a join has two SubSuppliers and two peer
  channels per peer; there is one here. `Dataflow` and `JobStart` have both.
- The storage engines behind the backend interface, the byte format of frames and the
  record codecs.
- What the functions of a query compute; `Queries` keeps their calls on state.
- Metrics, Kafka, generators, clients: input and output around the runtime.
- Failures of connections and processes: they end the process, and the runtime has no
  recovery.
