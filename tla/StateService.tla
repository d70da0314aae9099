---------------------------- MODULE StateService ----------------------------
(***************************************************************************)
(* Keyed state under the lazy protocol: the StateService of every worker   *)
(* with its backend, the StateClient and cache in front of it, the state   *)
(* lookup tables, the state comm servers that answer remote requests, the  *)
(* eventual migration away from cancelled workers, and as much of the      *)
(* coordinator as moves buckets from one worker to another.                *)
(*                                                                         *)
(* The four values of LazyProtocolVersion share the code, so they share    *)
(* the module: profile fixes, for a behaviour, the configuration of the    *)
(* job and what its operators do.  "by-key" locates each key by a map that *)
(* moves with its bucket, the three deprecated versions locate a bucket by *)
(* a table of each worker.                                                 *)
(*                                                                         *)
(* A value counts the updates of its key, modulo MaxValue; 0 is the empty  *)
(* state.  LazyReconfig is about how a bucket and its key map change       *)
(* hands: here a map leaves its owner between two batches and arrives.     *)
(* A state server answers from its backend without a lock, so a request    *)
(* and its answer are one step.  log.Fatal or a panic stops the job.       *)
(***************************************************************************)
EXTENDS Integers, Sequences, FiniteSets, FiniteSetsExt, SequencesExt

CONSTANTS Workers, Keys,
          Profiles,      \* configurations and jobs under consideration
          MaxValue,      \* bound: updates of a key that are told apart
          None

Values == 0..MaxValue

ASSUME ConstantsAssumption ==
  /\ IsFiniteSet(Keys) /\ IsFiniteSet(Workers)
  /\ \A p \in Profiles : /\ p.tasks \o p.free \in Seq(Workers) /\ IsInjective(p.tasks \o p.free)
                         /\ p.bucketOf \in [Keys -> DOMAIN p.table]
                         /\ p.table \in [DOMAIN p.table -> Range(p.tasks)]
  /\ MaxValue \in Nat \ {0}
  /\ None \notin Workers \cup Values

VARIABLES
  profile,   \* the configuration and the job of this behaviour
  coord,     \* the coordinator: its step, task list, free workers, partition, pending acks
  history,   \* BucketOwnerHistory
  owner,     \* the worker with the key map of a bucket, None while it moves
  keyMap,    \* the entries of the key maps (KeyLookupTableV2)
  table,     \* the bucket table of each worker (KeyLookupTable)
  store,     \* the backend of each worker
  pc,        \* ProcessBatch of each worker
  cache,     \* the StateCache of the batch
  routines,  \* goroutines that fetch, flush or update the lookup table
  ev,        \* the eventualMigration fields of each StateService
  fatal      \* the log.Fatal or panic that stopped a worker, if any

vars == <<profile, coord, history, owner, keyMap, table, store, pc, cache,
          routines, ev, fatal>>

------------------------------------------------------------------------------
(* State objects of the user and the cache that holds them for a batch.    *)

Plus(v, n) == IF n = 0 THEN v ELSE ((v + n - 1) % MaxValue) + 1

\* What ProcessBatch may have made of a value: two updates, or none at all.
Results == [v \in Values |-> {0} \cup {Plus(v, n) : n \in 1..2}]

\* A state object as SetSimpleStateCache makes it from a fetched value.
Fetched(v) ==
  [base |-> v, val |-> v, added |-> 0,
   hasValue |-> v > 0, updated |-> FALSE, deleted |-> FALSE]

\* The calls of the user's function: a list is added to, or set as a value is.
Set(c) == [c EXCEPT !.val = Plus(@, 1), !.hasValue = TRUE, !.updated = TRUE]
Add(c) == [c EXCEPT !.val = Plus(@, 1), !.hasValue = TRUE, !.added = @ + 1]
Clear(c) == [c EXCEPT !.deleted = TRUE]

UserOp(c, op) ==
  CASE op = "set" -> Set(c) [] op = "add" -> Add(c) [] op = "clear" -> Clear(c)

RunScript(c, script) == FoldLeft(UserOp, c, script)

\* Which of the three calls of FlushSimpleState carries the key, if any.
FlushClass(c) ==
  CASE ~c.hasValue -> "none"
    [] c.hasValue /\ c.deleted -> "delete"
    [] c.hasValue /\ ~c.deleted /\ (c.updated \/ (c.added > 0 /\ ~profile.incremental)) -> "write"
    [] c.hasValue /\ ~c.deleted /\ ~c.updated /\ c.added > 0 /\ profile.incremental -> "merge"
    [] OTHER -> "none"

EmptyCache == [k \in Keys |-> None]
ToFlush(w, class) == {k \in Keys : cache[w][k] # None /\ FlushClass(cache[w][k]) = class}

------------------------------------------------------------------------------
(* Lookup tables.                                                          *)

Buckets == DOMAIN profile.table
BucketOf(k) == profile.bucketOf[k]
KeysOf(bs) == {k \in Keys : BucketOf(k) \in bs}
BucketsOf(ks) == {BucketOf(k) : k \in ks}

ByKey == profile.version = "by-key"
OwnedBy(w) == KeysOf({b \in Buckets : owner[b] = w})

\* The key map: a key that is not in it belongs to the owner of its bucket.
GetWorkerID(w, k) == IF keyMap[k] = None THEN w ELSE keyMap[k]

\* The bucket table.
BucketIdxToWorkerID(w, b) == table[w][b]

Location(w, k) == IF ByKey THEN GetWorkerID(w, k) ELSE BucketIdxToWorkerID(w, BucketOf(k))

\* groupKeysByWorker: the keys of a batch that are at x, and all such x.
At(w, ks, x) == {k \in ks : Location(w, k) = x}
Holders(w, ks) == {Location(w, k) : k \in ks}

\* groupKeysAndBucketsByWorker: the buckets of these keys.
BucketsAt(w, ks, x) == BucketsOf(At(w, ks, x))

\* groupKeysAndValuesByWorker: where a flush writes.  Only "no-migration"
\* leaves the state where it is.
Target(w, k) == IF profile.version = "no-migration" THEN Location(w, k) ELSE w

NoVals == [k \in Keys |-> 0]

\* A goroutine: whose keys it fetches, how far it is, the keys it was asked
\* for and what it read, the buckets still to go through, the keys it adds on
\* top, and whether it started under an eventual migration and has seen the
\* end of it.
Routine(from, at, ks, bs) ==
  [from |-> from, at |-> at, keys |-> ks, vals |-> NoVals, buckets |-> bs,
   extra |-> {}, eventual |-> FALSE, all |-> FALSE]

Replace(w, r, new) == routines' = [routines EXCEPT ![w] = (@ \ {r}) \cup new]
Fail(reason) ==
  /\ fatal' = reason
  /\ UNCHANGED <<profile, coord, history, owner, keyMap, table, store, pc, cache, routines, ev>>

NoMigration == [enabled |-> FALSE, affected |-> {}, locks |-> FALSE, finished |-> {},
                done |-> {}, remaining |-> 0, signal |-> FALSE]

Init ==
  /\ profile \in Profiles
  /\ coord = [step |-> "idle", tasks |-> profile.tasks, free |-> profile.free, part |-> profile.table,
              removed |-> {}, waiting |-> {}, told |-> {}, rescales |-> 0]
  /\ history = [b \in Buckets |-> {profile.table[b]}]
  /\ owner = profile.table
  /\ table = [w \in Workers |-> profile.table]
  /\ \E present \in SUBSET Keys :
       /\ keyMap = [k \in Keys |-> IF k \in present THEN owner[BucketOf(k)] ELSE None]
       /\ store = [w \in Workers |-> [k \in Keys |->
                     IF k \in present /\ owner[BucketOf(k)] = w THEN 1 ELSE 0]]
  /\ pc = [w \in Workers |-> "idle"]
  /\ cache = [w \in Workers |-> EmptyCache]
  /\ routines = [w \in Workers |-> {}]
  /\ ev = [w \in Workers |-> NoMigration]
  /\ fatal = None

------------------------------------------------------------------------------
(* A batch: FetchSimpleState, the user's function, FlushSimpleState.       *)

Cancelled(w) == {p[1] : p \in ev[w].affected}
Affected(w, c) == {p[2] : p \in {q \in ev[w].affected : q[1] = c}}

\* The goroutines that GetManyMultiState starts for the keys of a batch: one
\* for each holder, one for the addresses of the keys that will be local, and
\* one for each cancelled worker that this batch has no key from.
remoteReadWithByKeyMigration(w, ks) ==
  LET remote == {k \in ks : Location(w, k) # w}
      addr == [Routine(w, "addr", {}, {}) EXCEPT !.extra = remote]
      fetch(x) == [Routine(x, "read", At(w, ks, x), {}) EXCEPT !.eventual = ev[w].enabled]
  IN  {fetch(x) : x \in Holders(w, ks)}
        \cup (IF remote = {} THEN {} ELSE {addr})
        \cup (IF ev[w].enabled
              THEN {Routine(c, "scan", {}, Affected(w, c)) : c \in Cancelled(w) \ Holders(w, ks)}
              ELSE {})

\* "basic": every bucket of the batch that is not here moves first.
migrateRemoteBuckets(w, ks) ==
  {Routine(w, "read", ks, {b \in BucketsOf(ks) : BucketIdxToWorkerID(w, b) # w})}
    \cup {Routine(x, "bucket", {}, BucketsAt(w, ks, x)) : x \in Holders(w, ks) \ {w}}

\* "optimized": the keys first, then their buckets in the background.
remoteReadWithAsyncBucketMigration(w, ks) ==
  {Routine(x, "read", At(w, ks, x), IF x = w THEN {} ELSE BucketsAt(w, ks, x)) :
     x \in Holders(w, ks)}

\* "no-migration"
remoteRead(w, ks) == {Routine(x, "read", At(w, ks, x), {}) : x \in Holders(w, ks)}

\* A fetch waits for the background work of the one before.
GetManyMultiState(w, ks) ==
  /\ routines[w] = {}
  /\ routines' = [routines EXCEPT ![w] =
       CASE ByKey -> remoteReadWithByKeyMigration(w, ks)
         [] profile.version = "basic" -> migrateRemoteBuckets(w, ks)
         [] profile.version = "optimized" -> remoteReadWithAsyncBucketMigration(w, ks)
         [] profile.version = "no-migration" -> remoteRead(w, ks)]

FetchSimpleState(w, ks) ==
  /\ pc[w] = "idle" /\ ks # {} /\ ks \subseteq OwnedBy(w)
  /\ GetManyMultiState(w, ks)
  /\ pc' = [pc EXCEPT ![w] = "fetch"]
  /\ UNCHANGED <<profile, coord, history, owner, keyMap, table, store, cache, ev, fatal>>

\* A holder answers the read of its keys from its backend, and the values go
\* to the cache of the batch.
readLocalState(w, r) ==
  cache' = [cache EXCEPT ![w] = [k \in Keys |->
              IF k \in r.keys THEN Fetched(store[r.from][k]) ELSE @[k]]]

Answer(r) == [k \in Keys |-> IF k \in r.keys THEN store[r.from][k] ELSE 0]

\* "basic": once every bucket it misses is here, the table says so.
ReadMigrated(w, r) ==
  /\ profile.version = "basic" /\ r.at = "read"
  /\ \A s \in routines[w] : s.at # "bucket"
  /\ readLocalState(w, r)
  /\ table' = [table EXCEPT ![w] = [b \in Buckets |-> IF b \in r.buckets THEN w ELSE @[b]]]
  /\ Replace(w, r, {})
  /\ UNCHANGED <<profile, coord, history, owner, keyMap, store, pc, ev, fatal>>

\* The other versions read where the keys are.  What was fetched is kept, to
\* be flushed in the background.
FetchTo(w, r, next) ==
  /\ r.at = "read"
  /\ readLocalState(w, r)
  /\ Replace(w, r, IF r.from = w THEN {} ELSE next)
  /\ UNCHANGED <<profile, coord, history, owner, keyMap, table, store, pc, ev, fatal>>

byKeyStateFetchExecutor(w, r) ==
  ByKey /\ FetchTo(w, r, {[r EXCEPT !.at = "flush", !.vals = Answer(r)]})

asyncStateFetchExecutor(w, r) ==
  profile.version = "optimized" /\ FetchTo(w, r, {[r EXCEPT !.at = "bucket", !.vals = Answer(r)]})

remoteReadFromWorker(w, r) == profile.version = "no-migration" /\ FetchTo(w, r, {})

\* The fetched keys go to the local backend; a fetch from a cancelled worker
\* then looks for more keys to take from it.
FlushFetched(w, r) ==
  /\ r.at = "flush"
  /\ store' = [store EXCEPT ![w] = [k \in Keys |-> IF k \in r.keys THEN r.vals[k] ELSE @[k]]]
  /\ Replace(w, r, IF r.eventual /\ r.from \in Cancelled(w)
                   THEN {[r EXCEPT !.at = "scan", !.buckets = Affected(w, r.from), !.vals = NoVals]}
                   ELSE {})
  /\ UNCHANGED <<profile, coord, history, owner, keyMap, table, pc, cache, ev, fatal>>

\* The key has to be in the key map, and the map has to be here.
UpdateKeyFails(w, k) == owner[BucketOf(k)] # w \/ keyMap[k] = None
UpdateKey(w, k) == keyMap' = [keyMap EXCEPT ![k] = w]

\* Key by key, while others read the table.
updateAddrForFetchedNeededRemoteKeys(w, r, k) ==
  /\ r.at = "addr" /\ r.from = w /\ k \in r.extra
  /\ IF UpdateKeyFails(w, k) THEN Fail("UpdateKey")
     ELSE /\ UpdateKey(w, k)
          /\ Replace(w, r, IF r.extra = {k} THEN {} ELSE {[r EXCEPT !.extra = @ \ {k}]})
          /\ UNCHANGED <<profile, coord, history, owner, table, store, pc, cache, ev, fatal>>

\* The addresses of additional keys, each under the lock of its bucket.
UpdateAdditional(w, r, k) ==
  /\ r.at = "addr" /\ r.from # w /\ k \in r.extra
  /\ IF ~ev[w].locks THEN Fail("NoLock")
     ELSE IF UpdateKeyFails(w, k) THEN Fail("UpdateKey")
     ELSE /\ UpdateKey(w, k)
          /\ Replace(w, r, {[r EXCEPT !.extra = @ \ {k}, !.at = IF r.extra = {k} THEN "finish" ELSE @]})
          /\ UNCHANGED <<profile, coord, history, owner, table, store, pc, cache, ev, fatal>>

Pending(c) == {k \in Keys : c[k] # None /\ FlushClass(c[k]) # "none"}

\* A batch with nothing to flush ends here, without waiting for anything.
Process(w, scripts) ==
  LET c == [k \in Keys |-> IF cache[w][k] = None THEN None
                           ELSE RunScript(cache[w][k], scripts[k])]
      over == Pending(c) = {}
  IN  /\ pc[w] = "fetch"
      /\ \A r \in routines[w] : r.at # "read"
      /\ over => profile.readOnly
      /\ cache' = [cache EXCEPT ![w] = IF over THEN EmptyCache ELSE c]
      /\ pc' = [pc EXCEPT ![w] = IF over THEN "idle" ELSE "flush"]
      /\ UNCHANGED <<profile, coord, history, owner, keyMap, table, store, routines, ev, fatal>>

FaultFlushAtOnce(w) == TRUE

\* Each call of the flush waits until the fetches of the batch have settled.
Settled(w) == profile.version \in {"by-key", "optimized"} => routines[w] = {}

\* One call of the flush: the new values go to the backends that their keys
\* belong to.  The batch is over when no key is left.
Flush(w, new) ==
  LET rest == [k \in Keys |-> IF k \in DOMAIN new THEN None ELSE cache[w][k]]
      over == Pending(rest) = {}
  IN  /\ store' = [x \in Workers |-> [k \in Keys |->
                     IF k \in DOMAIN new /\ Target(w, k) = x THEN new[k] ELSE store[x][k]]]
      /\ cache' = [cache EXCEPT ![w] = IF over THEN EmptyCache ELSE rest]
      /\ pc' = [pc EXCEPT ![w] = IF over THEN "idle" ELSE "flush"]
      /\ UNCHANGED <<profile, coord, history, owner, table, routines, ev, fatal>>

insertOrUpdateAddrForLocalKeys(w, ks) ==
  keyMap' = [k \in Keys |-> IF ByKey /\ k \in ks THEN w ELSE keyMap[k]]

deleteKeysFromLookupTable(ks) ==
  keyMap' = [k \in Keys |-> IF ByKey /\ k \in ks THEN None ELSE keyMap[k]]

\* What the backend of x holds of a key after the call.
overwriteLocalState(w, x, k) == cache[w][k].val
mergeLocalState(w, x, k) == Plus(store[x][k], cache[w][k].added)

FaultKeepsDeleted(w, x, k) == store[x][k]

deleteLocalState(w, x, k) == 0

SetManyMultiState(w) ==
  LET ks == ToFlush(w, "write")
  IN  /\ pc[w] = "flush" /\ ks # {} /\ Settled(w)
      /\ insertOrUpdateAddrForLocalKeys(w, ks)
      /\ Flush(w, [k \in ks |-> overwriteLocalState(w, Target(w, k), k)])

MergeManyMultiState(w) ==
  LET ks == ToFlush(w, "merge")
  IN  /\ pc[w] = "flush" /\ ks # {} /\ Settled(w)
      /\ insertOrUpdateAddrForLocalKeys(w, ks)
      /\ Flush(w, [k \in ks |-> mergeLocalState(w, Target(w, k), k)])

\* RemoveKey ends in log.Fatalf for a key that is not in its map.
RemoveKeyFails(k) == ByKey /\ keyMap[k] = None

DeleteMany(w) ==
  LET ks == ToFlush(w, "delete")
  IN  /\ pc[w] = "flush" /\ ks # {} /\ Settled(w)
      /\ IF \E k \in ks : RemoveKeyFails(k) THEN Fail("RemoveKey")
         ELSE /\ deleteKeysFromLookupTable(ks)
              /\ Flush(w, [k \in ks |-> deleteLocalState(w, Target(w, k), k)])

\* The three calls in this order, each if there is something for it.
FlushSimpleState(w) ==
  \/ SetManyMultiState(w)
  \/ ToFlush(w, "write") = {} /\ MergeManyMultiState(w)
  \/ ToFlush(w, "write") \cup ToFlush(w, "merge") = {} /\ DeleteMany(w)

------------------------------------------------------------------------------
(* Migration of whole buckets ("basic", "optimized").                      *)

\* The server checks that the bucket is its own, sends what its backend holds
\* of it, except the keys it has just sent, and gives the bucket away.
ReadLocalBucketRange(x, b) == {k \in KeysOf({b}) : store[x][k] > 0}
ChangeBucketOwner(x, b, w) == [table EXCEPT ![x][b] = w]

\* The requester writes what it receives to its own backend.
migrateRemoteBucketsFromWorker(w, r, sent) ==
  store' = [store EXCEPT ![w] = [k \in Keys |-> IF k \in sent THEN store[r.from][k] ELSE @[k]]]

\* "basic": the requester updates its own table when all workers are done.
RemoteBucketMigration(w, r, b) ==
  LET sent == ReadLocalBucketRange(r.from, b)
  IN  /\ profile.version = "basic" /\ r.at = "bucket" /\ b \in r.buckets
      /\ IF BucketIdxToWorkerID(r.from, b) # r.from THEN Fail("NotTheOwner")
         ELSE /\ migrateRemoteBucketsFromWorker(w, r, sent)
              /\ table' = ChangeBucketOwner(r.from, b, w)
              /\ Replace(w, r, IF r.buckets = {b} THEN {} ELSE {[r EXCEPT !.buckets = @ \ {b}]})
              /\ UNCHANGED <<profile, coord, history, owner, keyMap, pc, cache, ev, fatal>>

\* "optimized": the last bucket settles the table of the requester.
RemoteAsyncBucketMigration(w, r, b) ==
  LET sent == ReadLocalBucketRange(r.from, b) \ r.keys
      last == r.buckets = {b}
      mine == IF last THEN BucketsOf(r.keys) ELSE {}
      given == ChangeBucketOwner(r.from, b, w)
  IN  /\ profile.version = "optimized" /\ r.at = "bucket" /\ b \in r.buckets
      /\ IF BucketIdxToWorkerID(r.from, b) # r.from THEN Fail("NotTheOwner")
         ELSE /\ migrateRemoteBucketsFromWorker(w, r, sent)
              /\ table' = [given EXCEPT ![w] = [c \in Buckets |-> IF c \in mine THEN w ELSE @[c]]]
              /\ Replace(w, r, {[r EXCEPT !.buckets = @ \ {b}, !.at = IF last THEN "flush" ELSE @]})
              /\ UNCHANGED <<profile, coord, history, owner, keyMap, pc, cache, ev, fatal>>

------------------------------------------------------------------------------
(* Eventual migration of what cancelled workers still hold ("by-key").     *)

\* getKeysForEventualMigration, one bucket at a time, under its read lock:
\* a bucket is finished once all of its keys are on their way, and the scan
\* stops at LazyByKeyGradualMigrationBatchSize keys (-1: no limit).
ScanBucket(w, r, b) ==
  LET left == {k \in KeysOf({b}) : keyMap[k] = r.from} \ r.keys
      room == profile.maxKeys - Cardinality(r.extra)
      full == profile.maxKeys > 0 /\ Cardinality(left) >= room
      skip == <<r.from, b>> \in ev[w].finished
      next(found) == IF r.buckets # {b} THEN [r EXCEPT !.buckets = @ \ {b}, !.extra = found]
                     ELSE [r EXCEPT !.buckets = {}, !.extra = found, !.at = "copy", !.all = TRUE]
      until(found) == [r EXCEPT !.buckets = {}, !.extra = @ \cup found, !.at = "copy"]
  IN  /\ r.at = "scan" /\ b \in r.buckets
      /\ IF ~skip /\ owner[b] # w THEN Fail("NilKeyMap")
         ELSE IF ~skip /\ ~ev[w].locks THEN Fail("NilLock")
         ELSE /\ IF skip THEN Replace(w, r, {next(r.extra)})
                 ELSE IF full THEN \E some \in kSubset(room, left) : Replace(w, r, {until(some)})
                 ELSE Replace(w, r, {next(r.extra \cup left)})
              /\ ev' = [ev EXCEPT ![w].finished = IF skip \/ full THEN @ ELSE @ \cup {<<r.from, b>>}]
              /\ UNCHANGED <<profile, coord, history, owner, keyMap, table, store, pc, cache, fatal>>

\* fetchAdditionalKeysByTcp: the values go straight to the local backend.
CopyExtra(w, r) ==
  /\ r.at = "copy"
  /\ store' = [store EXCEPT ![w] = [k \in Keys |->
                 IF k \in r.extra THEN store[r.from][k] ELSE @[k]]]
  /\ Replace(w, r, {[r EXCEPT !.at = IF r.extra = {} THEN "finish" ELSE "addr"]})
  /\ UNCHANGED <<profile, coord, history, owner, keyMap, table, pc, cache, ev, fatal>>

\* A cancelled worker is counted as done once; it may be asked for more later.
FirstDone(w, r) == r.all /\ r.from \notin ev[w].done

FaultEndsAtFirst(w, r) == FirstDone(w, r)

FaultEndsNever(w, r) == FirstDone(w, r) /\ ev[w].remaining = 0

\* The last cancelled worker to be done ends the migration.
LastDone(w, r) == FirstDone(w, r) /\ ev[w].remaining = 1

FinishExtra(w, r) ==
  LET first == FirstDone(w, r)
      over == LastDone(w, r)
  IN  /\ r.at = "finish"
      /\ ev' = [ev EXCEPT ![w] =
                  [@ EXCEPT !.done = IF first THEN @ \cup {r.from} ELSE @,
                            !.remaining = IF first THEN @ - 1 ELSE @,
                            !.enabled = @ /\ ~over,
                            !.locks = @ /\ ~over,
                            !.finished = IF over THEN {} ELSE @,
                            !.signal = @ \/ over]]
      /\ Replace(w, r, {})
      /\ UNCHANGED <<profile, coord, history, owner, keyMap, table, store, pc, cache, fatal>>

\* HandleEventualStateMigration, until it waits.
SetEventualMigrationMeta(w) ==
  LET pairs == {p \in coord.removed \X Buckets : coord.part[p[2]] = w /\ p[1] \in history[p[2]]}
  IN  /\ coord.step = "eventual" /\ w \in coord.waiting \ coord.told
      /\ IF ev[w].remaining # 0 THEN Fail("RemainingWorkers")
         ELSE /\ ev' = [ev EXCEPT ![w] =
                          [enabled |-> TRUE, affected |-> pairs, locks |-> TRUE, finished |-> {},
                           done |-> {}, remaining |-> Cardinality({p[1] : p \in pairs}),
                           signal |-> FALSE]]
              /\ coord' = [coord EXCEPT !.told = @ \cup {w}]
              /\ UNCHANGED <<profile, history, owner, keyMap, table, store, pc, cache, routines, fatal>>

\* WaitEventualMigrationDone returns and the worker acks.
EventualMigrationDone(w) ==
  /\ coord.step = "eventual" /\ w \in coord.told \cap coord.waiting /\ ev[w].signal
  /\ coord' = [coord EXCEPT !.waiting = @ \ {w}]
  /\ UNCHANGED <<profile, history, owner, keyMap, table, store, pc, cache, routines, ev, fatal>>

------------------------------------------------------------------------------
(* The coordinator: a rescale adds tasks or removes some, and moves buckets. *)

\* prepareReconfiguration: new workers come from the free ones, in port order,
\* and go to the end of the list; the last of the list are removed.  A removed
\* worker is never free again.
Resized(n) ==
  LET grown == SubSeq(coord.free, 1, n - Len(coord.tasks))
  IN  IF n < Len(coord.tasks) THEN SubSeq(coord.tasks, 1, n) ELSE coord.tasks \o grown

\* The consistent partition policies move a bucket only off a removed task
\* or onto a new one; the uniform one may move any bucket.  A repartition that
\* moves nothing ends the coordinator.
Rescale(n, part) ==
  LET old == Range(coord.tasks)
      new == Range(Resized(n))
  IN  /\ coord.step = "idle" /\ coord.rescales < profile.rescales
      /\ part \in [Buckets -> new]
      /\ Cardinality(old \ new) <= profile.cancels
      /\ profile.uniform \/ \A b \in Buckets :
           part[b] # coord.part[b] => coord.part[b] \notin new \/ part[b] \notin old
      /\ profile.returns \/ \A b \in Buckets : part[b] \in history[b] => part[b] = coord.part[b]
      /\ IF part = coord.part THEN Fail("NoEffect")
         ELSE /\ coord' = [step |-> "moving", tasks |-> Resized(n),
                           free |-> SelectSeq(coord.free, LAMBDA w : w \notin new), part |-> part,
                           removed |-> old \ new, waiting |-> {}, told |-> {},
                           rescales |-> coord.rescales + 1]
              /\ history' = [b \in Buckets |-> history[b] \cup {part[b]}]
              /\ UNCHANGED <<profile, owner, keyMap, table, store, pc, cache, routines, ev, fatal>>

\* A task enters the transition between two batches: the key maps of the
\* buckets it loses leave for their new owners.
HandOver(w) ==
  LET lost == {b \in Buckets : owner[b] = w /\ coord.part[b] # w}
  IN  /\ coord.step = "moving" /\ pc[w] = "idle" /\ lost # {}
      /\ owner' = [b \in Buckets |-> IF b \in lost THEN None ELSE owner[b]]
      /\ UNCHANGED <<profile, coord, history, keyMap, table, store, pc, cache, routines, ev, fatal>>

ReceiveKeyMap(b) ==
  /\ owner[b] = None
  /\ owner' = [owner EXCEPT ![b] = coord.part[b]]
  /\ UNCHANGED <<profile, coord, history, keyMap, table, store, pc, cache, routines, ev, fatal>>

FaultFormerOwners ==
  UNION {history[b] : b \in {c \in Buckets : history[c] \cap coord.removed # {}}}

\* The owners of buckets that a removed worker ever had.
EventualTargets ==
  {coord.part[b] : b \in {c \in Buckets : history[c] \cap coord.removed # {}}}

\* Every key map has arrived: notifyEventualStateMigration, if it applies.
AllMoved ==
  LET applies == profile.eventual /\ coord.removed # {}
  IN  /\ coord.step = "moving" /\ owner = coord.part
      /\ IF applies /\ EventualTargets = {} THEN Fail("NoAffectedBuckets")
         ELSE /\ coord' = IF applies THEN [coord EXCEPT !.step = "eventual", !.waiting = EventualTargets]
                          ELSE [coord EXCEPT !.step = "idle"]
              /\ UNCHANGED <<profile, history, owner, keyMap, table, store, pc, cache, routines, ev, fatal>>

RescaleDone ==
  /\ coord.step = "eventual" /\ coord.waiting = {}
  /\ coord' = [coord EXCEPT !.step = "idle"]
  /\ UNCHANGED <<profile, history, owner, keyMap, table, store, pc, cache, routines, ev, fatal>>

RoutineStep(w, r) ==
  \/ ReadMigrated(w, r) \/ byKeyStateFetchExecutor(w, r)
  \/ asyncStateFetchExecutor(w, r) \/ remoteReadFromWorker(w, r)
  \/ FlushFetched(w, r)
  \/ \E k \in r.extra : updateAddrForFetchedNeededRemoteKeys(w, r, k) \/ UpdateAdditional(w, r, k)
  \/ \E b \in r.buckets : \/ RemoteBucketMigration(w, r, b) \/ RemoteAsyncBucketMigration(w, r, b)
                           \/ ScanBucket(w, r, b)
  \/ CopyExtra(w, r) \/ FinishExtra(w, r)

Scripts == [Keys -> profile.scripts]

TaskStep(w) ==
  \/ \E ks \in SUBSET Keys : FetchSimpleState(w, ks)
  \/ \E scripts \in Scripts : Process(w, scripts)
  \/ FlushSimpleState(w)

CoordinatorStep ==
  \/ \E n \in 1 .. Len(coord.tasks \o coord.free) : n # Len(coord.tasks) /\
       \E part \in [Buckets -> Workers] : Rescale(n, part)
  \/ AllMoved \/ RescaleDone

ControlStep ==
  \/ \E w \in Workers : HandOver(w) \/ SetEventualMigrationMeta(w) \/ EventualMigrationDone(w)
  \/ \E b \in Buckets : ReceiveKeyMap(b)

Next ==
  /\ fatal = None
  /\ \/ CoordinatorStep \/ ControlStep
     \/ \E w \in Workers : TaskStep(w) \/ \E r \in routines[w] : RoutineStep(w, r)

Spec == Init /\ [][Next]_vars

\* While a rescale waits for the eventual migration of a task, its goroutines and
\* handlers go on and batches keep coming for it.
Waiting(w) == fatal = None /\ coord.step = "eventual" /\ w \in coord.waiting
Fairness ==
  /\ WF_vars(fatal = None /\ RescaleDone)
  /\ \A w \in Workers :
       /\ WF_vars(Waiting(w) /\ \E r \in routines[w] : RoutineStep(w, r))
       /\ WF_vars(Waiting(w) /\ TaskStep(w))
       /\ WF_vars(Waiting(w) /\ (SetEventualMigrationMeta(w) \/ EventualMigrationDone(w)))

FairSpec == Spec /\ Fairness

------------------------------------------------------------------------------
(* Properties.                                                             *)

\* The variables have the types the code gives them; the tasks that are told to
\* migrate eventually are tasks of the new list (notifyEventualStateMigration).
TypeOK ==
  /\ profile \in Profiles
  /\ coord.step \in {"idle", "moving", "eventual"}
  /\ coord.part \in [Buckets -> Range(coord.tasks)] /\ coord.told \subseteq Range(coord.tasks)
  /\ owner \in [Buckets -> Workers \cup {None}]
  /\ keyMap \in [Keys -> Workers \cup {None}]
  /\ table \in [Workers -> [Buckets -> Workers]]
  /\ store \in [Workers -> [Keys -> Values]]
  /\ pc \in [Workers -> {"idle", "fetch", "flush"}]
  /\ \A w \in Workers : /\ \A r \in routines[w] : r.keys \cup r.extra \subseteq Keys
                         /\ ev[w].remaining \in 0..Cardinality(Workers)

\* The value of a key, wherever it is: with the holder a goroutine has read it
\* from and not flushed yet, or else where the tables of its owner say.
Home(b) == IF owner[b] = None THEN coord.part[b] ELSE owner[b]
Fetching(k) == {r \in UNION {routines[w] : w \in Workers} :
                  /\ profile.version # "basic"
                  /\ r.at \in {"read", "bucket", "flush"} /\ k \in r.keys}
\* Under the versions with bucket tables a bucket is with the worker whose own
\* table says so; while it is given away, with the one that fetches it.
Holder(b) ==
  LET claims == {w \in Workers : table[w][b] = w}
      fetches == {w \in Workers : \E r \in routines[w] : b \in r.buckets \cup BucketsOf(r.keys)}
  IN  CHOOSE w \in Workers : w \in IF claims # {} THEN claims ELSE fetches

Place(k) == IF ByKey THEN GetWorkerID(Home(BucketOf(k)), k) ELSE Holder(BucketOf(k))
Current(k) ==
  IF Fetching(k) # {} THEN store[(CHOOSE r \in Fetching(k) : TRUE).from][k] ELSE store[Place(k)][k]

Store == INSTANCE StateStore WITH
           kv <- [k \in Keys |-> Current(k)],
           view <- [w \in Workers |-> [k \in Keys |->
                     IF cache[w][k] = None THEN None ELSE cache[w][k].base]]

\* Whatever moves in the background, a task reads the last value written for
\* a key by any task, and writes back on top of what it read (GetManyMultiState,
\* SetManyMultiState, MergeManyMultiState, DeleteMany).
ImplementsStore == Store!Spec

\* The routine of a cancelled worker that is done already, started again by a
\* later batch, scans after the last worker has ended the migration.
ReInvoked ==
  \E w \in Workers : \E r \in routines[w] :
    /\ r.at = "scan" /\ r.from \in ev[w].done
    /\ ~ev[w].enabled /\ Cardinality(ev[w].done) > 1

\* No validation of the state path fails and no missing lock or map is used
\* (UpdateKey, RemoveKey, the ownership checks of the servers, the locks and
\* counters of an eventual migration, the affected buckets of a removed worker),
\* but for three cases: the coordinator refuses a repartition that moves nothing;
\* a bucket table is a move behind after two rescales; and a re-invoked routine
\* finds the locks gone, which takes a batch limit and two cancelled workers.
FailsOnlyAsKnown ==
  \/ fatal \in {None, "NoEffect"}
  \/ fatal = "NotTheOwner" /\ ~ByKey /\ coord.rescales > 1
  \/ fatal = "NilLock" /\ profile.maxKeys > 0 /\ ReInvoked

\* A rescale that migrates eventually returns only when no key map locates a
\* key at a worker without a task (eventualMigrationDoneWorkers, allDone), apart
\* from keys whose new address is being written.
RemovedHoldsNothing ==
  profile.eventual /\ coord.step = "idle" =>
    \A k \in Keys : keyMap[k] \in Workers \ Range(coord.tasks) =>
      \E r \in routines[owner[BucketOf(k)]] : r.at = "addr" /\ k \in r.extra

\* A key that its owner does not find in the key map is new: the local backend,
\* which will be asked for it, has nothing to answer (GetWorkerID).
AbsentKeyIsNew ==
  \A k \in Keys : ByKey /\ keyMap[k] = None => store[Home(BucketOf(k))][k] = 0

\* Eventual migration ends, provided the tasks that take over keep receiving
\* records, their goroutines run, and none is re-invoked too late
\* (WaitEventualMigrationDone).
EventualMigrationEnds == coord.step = "eventual" ~> coord.step = "idle" \/ fatal = "NilLock"
=============================================================================
