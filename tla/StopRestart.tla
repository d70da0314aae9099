----------------------------- MODULE StopRestart -----------------------------
(***************************************************************************)
(* The stop-and-restart protocol of a job: the start of the job, and then  *)
(* rescaleStopAndRestart, which pauses the tasks upstream of a stateful    *)
(* operator, waits until that operator has drained, moves buckets, starts  *)
(* and stops tasks and lets the upstream tasks go on.                      *)
(*                                                                         *)
(* The coordinator sends one message to a set of workers and waits for     *)
(* their acks: todo holds the ones that have not handled it.  The one      *)
(* message a worker sends on its own account, "Data drained", may wait in  *)
(* the stream, ahead of an ack: reported counts it.                        *)
(*                                                                         *)
(* A record adds itself to the value of its key, or clears the key.  A key *)
(* with a value has an entry in the in-memory index of its task, as an     *)
(* active window has.  The upstream operator may be rescaled as well; of   *)
(* that rescale the model keeps what the tasks modelled here see of it.    *)
(***************************************************************************)
EXTENDS KeyPartition

CONSTANTS Upstreams,      \* workers that may run a task of the operator upstream
          Pool,           \* the workers for the rescaled one, in port order
          Keys, BucketOf,
          Jobs,           \* partition policy and first tasks of a job, and bounds
          BatchSize,      \* records that fit in a pending batch
          Spaced,         \* whether rescales are only asked for when all channels
                          \* of the last one are in place
          MaxRecords,     \* bound: records that are emitted
          Moving          \* not a worker

Workers == Range(Pool)
Links == Upstreams \X Workers
Kinds == {"add", "clear"}
Records == [id : 1 .. MaxRecords, key : Keys, kind : Kinds]

\* A job has tasks for which there are workers and buckets.  Its bounds: how many
\* records of what kinds, how many rescales of the operator and of the one
\* upstream.
JobType ==
  [policy : Policies, parallelism : {n \in 1 .. Len(Pool) : n <= NumBuckets},
   ups : (SUBSET Upstreams) \ {{}}, records : 0 .. MaxRecords, kinds : SUBSET Kinds,
   rescales : Nat, upRescales : Nat]

ASSUME ConstantsAssumption ==
  /\ Upstreams # {} /\ IsFiniteSet(Upstreams) /\ Upstreams \cap Workers = {}
  /\ Pool \in Seq(Workers) /\ IsInjective(Pool)
  /\ BucketOf \in [Keys -> Buckets] /\ Jobs \subseteq JobType
  /\ BatchSize \in Nat \ {0} /\ MaxRecords \in Nat /\ Spaced \in BOOLEAN
  /\ Moving \notin Workers

\* No two workers have a hash value in common.
ASSUME TokensAssumption ==
  /\ \A w \in Workers : Tokens[w] \in SUBSET Nat /\ IsFiniteSet(Tokens[w]) /\ Tokens[w] # {}
  /\ \A v, w \in Workers : v # w => Tokens[v] \cap Tokens[w] = {}

VARIABLES
  job,       \* Config.PartitionPolicy, and the bounds
  step,      \* the coordinator: the step of StartJob or of the rescale
  todo,      \* workers, or moves, this step still waits for
  plan,      \* TaskPlacementPlan, the workers still available, KeyPartitions
  change,    \* updatedWorkers, newWorkers and removedWorkers of the rescale
  history,   \* BucketOwnerHistory
  rescales,  \* rescales of this operator, and of the one upstream
  sender,    \* KeybyCollector of an upstream task
  conn,      \* state of each connection
  chan,      \* work units on each connection, output buffer to input buffer
  assigned,  \* workers with an AssignedTask
  sup,       \* Supplier of each worker
  reported,  \* "Data drained" messages that the coordinator has not read
  store,     \* state backend of each worker
  index,     \* in-memory metadata of each task
  initMeta,  \* TaskInitMetadata
  emitted,   \* history: number of records emitted
  done,      \* history: records processed
  live,      \* history: the value of each key, as the records set it
  returned,  \* history: buckets that went back to a worker that had them before
  fatal      \* the log.Fatal that stopped a process, if any

coordVars == <<step, todo, plan, change, history, rescales, returned>>
netVars == <<conn, chan>>
dataVars == <<store, index, initMeta>>
pastVars == <<emitted, done, live>>
vars == <<job, coordVars, sender, netVars, assigned, sup, reported, dataVars,
          pastVars, fatal>>

-----------------------------------------------------------------------------
Batch(rs) == [type |-> "batch", recs |-> rs]
DrainBarrier == [type |-> "barrier", recs |-> <<>>]
Termination == [type |-> "termination", recs |-> <<>>]

Idle == [downs |-> {}, table |-> [b \in Buckets |-> Moving], paused |-> FALSE,
         batches |-> [w \in Workers |-> <<>>]]

Supplier(n) == [expected |-> n, deployed |-> FALSE, drains |-> 0, shuttingDown |-> FALSE]

Require(ok, reason) == fatal' = IF ok THEN fatal ELSE reason

Tasks == Range(plan.tasks)

\* Acked: the coordinator no longer waits for x.
Acked(x) == todo' = todo \ {x}

\* WaitACK from a worker of the operator: the ack is the next message.
WaitACK(w) == Require(reported[w] = 0, "unexpected ack")

\* Once all acks of one step are in, the next message goes out.
Advance(from, to, targets) ==
  /\ fatal = "none" /\ step = from /\ todo = {}
  /\ step' = to /\ todo' = targets

\* RunJob up to StartJob: the workers, the key partition and its history.
Init ==
  /\ job \in Jobs
  /\ LET tasks == SubSeq(Pool, 1, job.parallelism) IN
     /\ plan = [tasks |-> tasks, free |-> SubSeq(Pool, job.parallelism + 1, Len(Pool)),
                ups |-> job.ups, table |-> GenerateBuckets(job.policy, tasks)]
     /\ change = [updated |-> tasks, added |-> {}, removed |-> {}]
     /\ todo = job.ups \cup Range(tasks)
  /\ step = "deploy"
  /\ history = [b \in Buckets |-> {plan.table[b]}]
  /\ rescales = [own |-> 0, upstream |-> 0]
  /\ sender = [u \in Upstreams |-> Idle]
  /\ conn = [l \in Links |-> "closed"] /\ chan = [l \in Links |-> <<>>]
  /\ assigned = {}
  /\ sup = [w \in Workers |-> Supplier(0)]
  /\ reported = [w \in Workers |-> 0]
  /\ store = [w \in Workers |-> [k \in Keys |-> {}]]
  /\ index = [w \in Workers |-> {}] /\ initMeta = [w \in Workers |-> {}]
  /\ emitted = 0 /\ done = {} /\ live = [k \in Keys |-> {}]
  /\ returned = {} /\ fatal = "none"

-----------------------------------------------------------------------------
(***************************************************************************)
(* Collector.  Flush and Push give the channels of u after its pending     *)
(* batches, or a unit, went into the output buffers of ws.                 *)
(***************************************************************************)
Flush(u) ==
  [l \in Links |->
     IF l[1] = u /\ sender[u].batches[l[2]] # <<>>
       THEN Append(chan[l], Batch(sender[u].batches[l[2]])) ELSE chan[l]]

Push(ch, u, ws, unit) ==
  [l \in Links |-> IF l[1] = u /\ l[2] \in ws THEN Append(ch[l], unit) ELSE ch[l]]

\* ConsumeOutputBuffer of a new downstream starts to dial.
Dial(u, ws) == [l \in Links |-> IF l[1] = u /\ l[2] \in ws THEN "dialing" ELSE conn[l]]

\* HandleTaskAssignment of an upstream task: the setup of its collector.
StartCollector(u) ==
  /\ sender' = [sender EXCEPT ![u] = [Idle EXCEPT !.downs = Tasks,
                                        !.table = Deserialize(Serialize(plan.table))]]
  /\ conn' = Dial(u, Tasks)

Emit(u, k, kind) ==
  LET r == [id |-> emitted + 1, key |-> k, kind |-> kind]
      w == sender[u].table[BucketOf[k]]
      full == Len(sender[u].batches[w]) = BatchSize
  IN /\ fatal = "none" /\ emitted < job.records /\ kind \in job.kinds
     /\ sender[u].downs # {} /\ ~ sender[u].paused
     /\ Require(w \in sender[u].downs, "unknown downstream")
     /\ sender' = [sender EXCEPT ![u].batches[w] = IF full THEN <<r>> ELSE Append(@, r)]
     /\ chan' = IF full THEN [chan EXCEPT ![<<u, w>>] = Append(@, Batch(sender[u].batches[w]))]
                        ELSE chan
     /\ emitted' = emitted + 1
     /\ UNCHANGED <<job, coordVars, conn, assigned, sup, reported, dataVars, done, live>>

\* The pending batches go out after a while, and ahead of every watermark.
FlushAllPendingBatches(u) ==
  /\ fatal = "none" /\ ~ sender[u].paused
  /\ \E w \in Workers : sender[u].batches[w] # <<>>
  /\ chan' = Flush(u)
  /\ sender' = [sender EXCEPT ![u].batches = Idle.batches]
  /\ UNCHANGED <<job, coordVars, conn, assigned, sup, reported, dataVars, pastVars, fatal>>

FaultNoFlush(u) == Push(chan, u, sender[u].downs, DrainBarrier)

FaultBarrierFirst(u) ==
  LET barred == Push(chan, u, sender[u].downs, DrainBarrier)
  IN [l \in Links |->
        IF l[1] = u /\ sender[u].batches[l[2]] # <<>>
          THEN Append(barred[l], Batch(sender[u].batches[l[2]])) ELSE barred[l]]

\* What a pause puts on the channels.
Paused(u) == Push(Flush(u), u, sender[u].downs, DrainBarrier)

PauseEmit(u) ==
  /\ fatal = "none" /\ step = "pause" /\ u \in todo
  /\ sender' = [sender EXCEPT ![u].paused = TRUE, ![u].batches = Idle.batches]
  /\ chan' = Paused(u)
  /\ Acked(u)
  /\ UNCHANGED <<job, step, plan, change, history, rescales, returned, conn, assigned,
                 sup, reported, dataVars, pastVars, fatal>>

UpdateRouting(u) ==
  /\ fatal = "none" /\ step = "routing" /\ u \in todo
  /\ Require(change.added \cap sender[u].downs = {} /\ change.removed \subseteq sender[u].downs,
             "downstreams")
  /\ sender' = [sender EXCEPT ![u].downs = (@ \cup change.added) \ change.removed,
                              ![u].table = Deserialize(Serialize(plan.table)),
                              ![u].batches = Idle.batches]
  /\ conn' = Dial(u, change.added)
  /\ chan' = Push(Flush(u), u, change.removed, Termination)
  /\ Acked(u)
  /\ UNCHANGED <<job, step, plan, change, history, rescales, returned, assigned,
                 sup, reported, dataVars, pastVars>>

ResumeEmit(u) ==
  /\ fatal = "none" /\ step = "resume" /\ u \in todo
  /\ sender' = [sender EXCEPT ![u].paused = FALSE]
  /\ Acked(u)
  /\ UNCHANGED <<job, step, plan, change, history, rescales, returned, netVars, assigned,
                 sup, reported, dataVars, pastVars, fatal>>

-----------------------------------------------------------------------------
(***************************************************************************)
(* Supplier and main loop of a task of the operator.                       *)
(***************************************************************************)
Connected(w) == {u \in Upstreams : conn[<<u, w>>] = "open"}

\* RequestHandler waits for the task, then InitNewUpstream adds the channel.
InitNewUpstream(u, w) ==
  /\ fatal = "none" /\ conn[<<u, w>>] = "dialing" /\ w \in assigned
  /\ conn' = [conn EXCEPT ![<<u, w>>] = "open"]
  /\ sup' = [sup EXCEPT ![w].deployed =
               @ \/ Cardinality(Connected(w)) + 1 = sup[w].expected]
  /\ UNCHANGED <<job, coordVars, sender, chan, assigned, reported, dataVars, pastVars, fatal>>

Ready(u, w, type) ==
  /\ fatal = "none" /\ conn[<<u, w>>] = "open"
  /\ chan[<<u, w>>] # <<>> /\ Head(chan[<<u, w>>]).type = type

Consumed(u, w) == chan' = [chan EXCEPT ![<<u, w>>] = Tail(@)]

\* The value of key k after the records of a batch, one after the other.
Value(v, recs, k) ==
  LET mine == {i \in DOMAIN recs : recs[i].key = k}
      clears == {i \in mine : recs[i].kind = "clear"}
      kept == {i \in mine : \A c \in clears : i > c}
  IN (IF clears = {} THEN v ELSE {}) \cup {recs[i].id : i \in kept}

ProcessBatch(u, w) ==
  LET recs == Head(chan[<<u, w>>]).recs
      keys == {recs[i].key : i \in DOMAIN recs}
      new == [k \in Keys |-> Value(store[w][k], recs, k)]
  IN /\ Ready(u, w, "batch") /\ Consumed(u, w)
     /\ store' = [store EXCEPT ![w] = new]
     /\ index' = [index EXCEPT ![w] = (@ \ keys) \cup {k \in keys : new[k] # {}}]
     /\ done' = done \cup Range(recs)
     /\ live' = [k \in Keys |-> Value(live[k], recs, k)]
     /\ UNCHANGED <<job, coordVars, sender, conn, assigned, sup, reported, initMeta,
                    emitted, fatal>>

FaultEveryBarrier(drains, connected) == TRUE

FaultAlignedLate(drains, connected) == drains > connected

\* All channels aligned: the main loop tells the coordinator.
Aligned(drains, connected) == drains = connected

HandleDrainBarrier(u, w) ==
  LET drains == sup[w].drains + 1
      connected == Cardinality(Connected(w))
      aligned == Aligned(drains, connected)
  IN /\ Ready(u, w, "barrier") /\ Consumed(u, w)
     /\ Require(aligned \/ drains < connected, "drain barriers")
     /\ sup' = [sup EXCEPT ![w].drains = IF aligned THEN 0 ELSE drains]
     /\ reported' = [reported EXCEPT ![w] = IF aligned THEN @ + 1 ELSE @]
     /\ UNCHANGED <<job, coordVars, sender, conn, assigned, dataVars, pastVars>>

RemoveUpstream(u, w) ==
  /\ Ready(u, w, "termination") /\ Consumed(u, w)
  /\ Require(/\ sup[w].deployed
             /\ Cardinality(Connected(w)) > 1 \/ sup[w].shuttingDown, "remove upstream")
  /\ conn' = [conn EXCEPT ![<<u, w>>] = "closed"]
  /\ UNCHANGED <<job, coordVars, sender, assigned, sup, reported, dataVars, pastVars>>

-----------------------------------------------------------------------------
(***************************************************************************)
(* Start and end of tasks.                                                 *)
(***************************************************************************)
\* HandleTaskAssignment: during StartJob of all tasks, in a rescale of the new.
HandleTaskAssignment(x) ==
  /\ fatal = "none" /\ x \in todo
  /\ \/ step = "deploy"
     \/ step = "tasks" /\ x \in change.added
  /\ Acked(x)
  /\ \/ x \in Upstreams /\ StartCollector(x)
        /\ UNCHANGED <<assigned, sup, index, fatal>>
     \/ x \in Workers
        /\ assigned' = assigned \cup {x}
        /\ sup' = [sup EXCEPT ![x] = Supplier(Cardinality(plan.ups))]
        /\ index' = [index EXCEPT ![x] = initMeta[x]]
        /\ WaitACK(x)
        /\ UNCHANGED <<sender, conn>>
  /\ UNCHANGED <<job, step, plan, change, history, rescales, returned, chan, reported,
                 store, initMeta, pastVars>>

FaultNotShuttingDown(w) ==
  /\ fatal = "none" /\ step = "tasks" /\ w \in todo /\ w \in change.removed
  /\ WaitACK(w) /\ Acked(w)
  /\ UNCHANGED <<job, step, plan, change, history, rescales, returned, sender, netVars,
                 assigned, sup, reported, dataVars, pastVars>>

HandleTerminate(w) ==
  /\ fatal = "none" /\ step = "tasks" /\ w \in todo /\ w \in change.removed
  /\ sup' = [sup EXCEPT ![w].shuttingDown = TRUE]
  /\ WaitACK(w) /\ Acked(w)
  /\ UNCHANGED <<job, step, plan, change, history, rescales, returned, sender, netVars,
                 assigned, reported, dataVars, pastVars>>

-----------------------------------------------------------------------------
(***************************************************************************)
(* State migration: the destination takes the metadata out of the source's *)
(* memory, and then copies its state.                                      *)
(***************************************************************************)
KeysOf(ranges) == {k \in Keys : BucketOf[k] \in FromRanges(ranges)}

\* The moves of bucketOwnerChanges, none of them begun.
Moves(old, new) ==
  {[src |-> m.src, dst |-> m.dst, ranges |-> m.ranges, taken |-> FALSE] :
     m \in OwnerChanges(old, new)}

FaultMetadataCopied(m, ks) == index

\* The metadata of ks leaves the memory of the source.
Extracted(m, ks) == [index EXCEPT ![m.src] = @ \ ks]

\* A destination handles its list one source after the other.
MigrateTaskMetadata(m) ==
  /\ fatal = "none" /\ step = "migrate" /\ m \in todo /\ ~ m.taken
  /\ \A o \in todo : o.dst = m.dst => ~ o.taken
  /\ LET ks == KeysOf(m.ranges) \cap index[m.src]
         rest == Extracted(m, ks) IN
     IF m.dst \in assigned
       THEN /\ index' = [rest EXCEPT ![m.dst] = @ \cup ks]
            /\ UNCHANGED initMeta
       ELSE /\ initMeta' = [initMeta EXCEPT ![m.dst] = @ \cup ks]
            /\ index' = rest
  /\ todo' = (todo \ {m}) \cup {[m EXCEPT !.taken = TRUE]}
  /\ UNCHANGED <<job, step, plan, change, history, rescales, returned, sender, netVars,
                 assigned, sup, reported, store, pastVars, fatal>>

FaultOwnCopyWins(m, k) == IF store[m.dst][k] = {} THEN store[m.src][k] ELSE store[m.dst][k]

\* The keys that the source has overwrite those of the destination.
Pulled(m, k) == IF store[m.src][k] # {} THEN store[m.src][k] ELSE store[m.dst][k]

PullStatePartition(m) ==
  /\ fatal = "none" /\ step = "migrate" /\ m \in todo /\ m.taken
  /\ store' = [store EXCEPT ![m.dst] =
                 [k \in Keys |-> IF k \in KeysOf(m.ranges) THEN Pulled(m, k) ELSE @[k]]]
  /\ WaitACK(m.dst) /\ Acked(m)
  /\ UNCHANGED <<job, step, plan, change, history, rescales, returned, sender, netVars,
                 assigned, sup, reported, index, initMeta, pastVars>>

-----------------------------------------------------------------------------
(***************************************************************************)
(* Coordinator.                                                            *)
(***************************************************************************)
StartJobDone ==
  /\ Advance("deploy", "idle", {})
  /\ UNCHANGED <<job, plan, change, history, rescales, returned, sender, netVars, assigned,
                 sup, reported, dataVars, pastVars, fatal>>

\* All connections are open and no upstream task is about to leave.
Settled ==
  /\ \A u \in plan.ups, w \in Tasks : conn[<<u, w>>] = "open"
  /\ \A l \in Links : \A i \in DOMAIN chan[l] : chan[l][i].type # "termination"

\* prepareReconfiguration: new workers come from the pool, the last ones go.
Prepared(n) ==
  LET now == Len(plan.tasks)
      more == SubSeq(plan.free, 1, n - now)
  IN IF n > now
       THEN [updated |-> plan.tasks \o more, added |-> Range(more), removed |-> {}]
       ELSE [updated |-> SubSeq(plan.tasks, 1, n), added |-> {},
             removed |-> Range(SubSeq(plan.tasks, n + 1, now))]

\* The pool after the change; workers that were removed do not go back to it.
Available(n) ==
  LET now == Len(plan.tasks)
  IN IF n > now THEN SubSeq(plan.free, n - now + 1, Len(plan.free)) ELSE plan.free

\* A request the coordinator does not refuse: another parallelism, not more
\* than there are workers and buckets for.
Rescale(n) ==
  /\ Advance("idle", "pause", plan.ups)
  /\ rescales.own < job.rescales /\ (Spaced => Settled)
  /\ n # Len(plan.tasks) /\ n <= NumBuckets /\ n - Len(plan.tasks) <= Len(plan.free)
  /\ change' = Prepared(n)
  /\ plan' = [plan EXCEPT !.free = Available(n)]
  /\ rescales' = [rescales EXCEPT !.own = @ + 1]
  /\ UNCHANGED <<job, history, returned, sender, netVars, assigned, sup, reported, dataVars,
                 pastVars, fatal>>

DrainInflightData ==
  /\ Advance("pause", "drain", Tasks)
  /\ UNCHANGED <<job, plan, change, history, rescales, returned, sender, netVars, assigned,
                 sup, reported, dataVars, pastVars, fatal>>

WaitDataDrain(w) ==
  /\ fatal = "none" /\ step = "drain" /\ w \in todo /\ reported[w] > 0
  /\ reported' = [reported EXCEPT ![w] = @ - 1]
  /\ Acked(w)
  /\ UNCHANGED <<job, step, plan, change, history, rescales, returned, sender, netVars,
                 assigned, sup, dataVars, pastVars, fatal>>

\* updateKeyPartition, then the migration plan goes to the destinations.
ReconfigureStatefulOp ==
  LET new == RePartition(job.policy, change.updated, plan.table)
      moved == {b \in Buckets : new[b] # plan.table[b]}
      refused == Refuses(job.policy, change.updated, plan.table)
  IN /\ fatal = "none" /\ step = "drain" /\ todo = {}
     /\ Require(~ refused /\ moved # {}, "repartition")
     /\ IF refused
          THEN UNCHANGED <<step, todo, plan, history, returned>>
          ELSE /\ step' = "migrate" /\ todo' = Moves(plan.table, new)
               /\ plan' = [plan EXCEPT !.table = new]
               /\ history' = [b \in Buckets |-> history[b] \cup {new[b]}]
               /\ returned' = returned \cup {b \in moved : new[b] \in history[b]}
     /\ UNCHANGED <<job, change, rescales, sender, netVars, assigned, sup, reported,
                    dataVars, pastVars>>

RescaleTasks ==
  /\ Advance("migrate", "tasks", change.added \cup change.removed)
  /\ UNCHANGED <<job, plan, change, history, rescales, returned, sender, netVars, assigned,
                 sup, reported, dataVars, pastVars, fatal>>

NotifyUpstreamTasks ==
  /\ Advance("tasks", "routing", plan.ups)
  /\ plan' = [plan EXCEPT !.tasks = change.updated]
  /\ UNCHANGED <<job, change, history, rescales, returned, sender, netVars, assigned,
                 sup, reported, dataVars, pastVars, fatal>>

ResumeUpstreams ==
  /\ Advance("routing", "resume", plan.ups)
  /\ UNCHANGED <<job, plan, change, history, rescales, returned, sender, netVars, assigned,
                 sup, reported, dataVars, pastVars, fatal>>

RescaleDone ==
  /\ Advance("resume", "idle", {})
  /\ UNCHANGED <<job, plan, change, history, rescales, returned, sender, netVars, assigned,
                 sup, reported, dataVars, pastVars, fatal>>

\* A rescale of the upstream operator that starts or stops one of its tasks.
RescaleUpstream(u) ==
  /\ fatal = "none" /\ step = "idle" /\ (Spaced => Settled)
  /\ rescales.upstream < job.upRescales
  /\ rescales' = [rescales EXCEPT !.upstream = @ + 1]
  /\ \/ u \notin plan.ups /\ sender[u].downs = {}
        /\ plan' = [plan EXCEPT !.ups = @ \cup {u}]
        /\ StartCollector(u) /\ UNCHANGED chan
     \/ u \in plan.ups /\ plan.ups # {u}   \* its task is drained and emits no more
        /\ plan' = [plan EXCEPT !.ups = @ \ {u}]
        /\ chan' = Push(Flush(u), u, sender[u].downs, Termination)
        /\ sender' = [sender EXCEPT ![u].paused = TRUE, ![u].batches = Idle.batches]
        /\ UNCHANGED conn
  /\ UNCHANGED <<job, step, todo, change, history, returned, assigned, sup, reported,
                 dataVars, pastVars, fatal>>

-----------------------------------------------------------------------------
CoordinatorStep ==
  \/ StartJobDone
  \/ \E n \in 1 .. Len(Pool) : Rescale(n)
  \/ DrainInflightData
  \/ \E w \in Workers : WaitDataDrain(w)
  \/ ReconfigureStatefulOp
  \/ RescaleTasks
  \/ NotifyUpstreamTasks
  \/ ResumeUpstreams
  \/ RescaleDone

UpstreamStep(u) ==
  \/ \E k \in Keys, kind \in Kinds : Emit(u, k, kind)
  \/ FlushAllPendingBatches(u)
  \/ PauseEmit(u)
  \/ UpdateRouting(u)
  \/ ResumeEmit(u)
  \/ RescaleUpstream(u)

ChannelStep(u, w) ==
  \/ InitNewUpstream(u, w)
  \/ ProcessBatch(u, w)
  \/ HandleDrainBarrier(u, w)
  \/ RemoveUpstream(u, w)

ControlStep ==
  \/ \E x \in Upstreams \cup Workers : HandleTaskAssignment(x)
  \/ \E w \in Workers : HandleTerminate(w)
  \/ step = "migrate" /\ \E m \in todo : MigrateTaskMetadata(m) \/ PullStatePartition(m)

Next ==
  \/ CoordinatorStep
  \/ ControlStep
  \/ \E u \in Upstreams : UpstreamStep(u) \/ \E w \in Workers : ChannelStep(u, w)

Spec == Init /\ [][Next]_vars

\* Until a rescale is over some process takes a step whenever one can; the
\* emission of records does not count, and is bounded.  The second
\* conjunct is weak fairness of ReconfigureStatefulOp, stated by its guard and
\* the step it takes.
Busy == step # "idle"

SystemStep ==
  \/ StartJobDone
  \/ DrainInflightData
  \/ \E w \in Workers : WaitDataDrain(w)
  \/ RescaleTasks
  \/ NotifyUpstreamTasks
  \/ ResumeUpstreams
  \/ RescaleDone
  \/ ControlStep
  \/ \E u \in Upstreams : \/ PauseEmit(u) \/ UpdateRouting(u) \/ ResumeEmit(u)
                          \/ \E w \in Workers : ChannelStep(u, w)

Fairness ==
  /\ WF_vars(Busy /\ SystemStep)
  /\ WF_step(fatal = "none" /\ step = "drain" /\ todo = {} /\ step' = "migrate")

FairSpec == Spec /\ Fairness

-----------------------------------------------------------------------------
\* The variables have the types that the code gives them.
Steps == {"deploy", "idle", "pause", "drain", "migrate", "tasks", "routing", "resume"}

TypeOK ==
  /\ job \in Jobs /\ step \in Steps
  /\ plan.table \in [Buckets -> Workers] /\ plan.ups \subseteq Upstreams
  /\ Range(plan.tasks) \subseteq Workers /\ Range(plan.free) \subseteq Workers
  /\ conn \in [Links -> {"closed", "dialing", "open"}]
  /\ assigned \subseteq Workers
  /\ \A w \in Workers : sup[w].drains \in 0 .. Cardinality(Upstreams)
  /\ reported \in [Workers -> 0 .. 1]
  /\ store \in [Workers -> [Keys -> SUBSET (1 .. emitted)]]
  /\ index \in [Workers -> SUBSET Keys] /\ initMeta \in [Workers -> SUBSET Keys]
  /\ done \subseteq Records

\* No process stops in a log.Fatal: no ack is another one than the coordinator
\* waits for, no supplier counts more barriers than upstreams or loses its last
\* one, no collector routes to a worker it is not connected to, and no policy
\* refuses the worker list or leaves all buckets where they are.
NoFatal == fatal = "none"

InFlight ==
  (UNION {Range(sender[u].batches[w]) : u \in Upstreams, w \in Workers})
    \cup (UNION {UNION {Range(chan[l][i].recs) : i \in DOMAIN chan[l]} : l \in Links})

\* From the last "Data drained" that drainInflightData waits for until the
\* upstream tasks resume, no record is on its way to any task, and no barrier
\* or report is left that would count for the next rescale.
Drained ==
  step \in {"migrate", "tasks", "routing"}
    => /\ InFlight = {}
       /\ \A w \in Workers : reported[w] = 0 /\ sup[w].drains = 0
       /\ \A l \in Links : \A i \in DOMAIN chan[l] : chan[l][i].type # "barrier"

\* The worker that holds key k while buckets move, Moving between the two calls.
Home(k) ==
  LET pending == {m \in todo : BucketOf[k] \in FromRanges(m.ranges)}
  IN IF step = "migrate" /\ pending # {}
       THEN LET m == CHOOSE m \in pending : TRUE IN IF m.taken THEN Moving ELSE m.src
       ELSE plan.table[BucketOf[k]]

\* The owner of a key has all its records applied, in the order in which they
\* were processed, across all migrations.  Exempt are the keys that were
\* cleared and whose bucket went back to a former owner: PullStatePartition
\* does not delete, so the copy that was left behind comes back.
StateComplete ==
  \A k \in Keys :
    \/ Home(k) = Moving
    \/ store[Home(k)][k] = live[k]
    \/ BucketOf[k] \in returned /\ \E r \in done : r.key = k /\ r.kind = "clear"

\* A key with state has exactly one index entry, in the memory of its owner's
\* task, or waiting for that task to start: an entry that is lost or doubled
\* would be a window that never fires or fires twice.
IndexTracksState ==
  \A k \in Keys :
    Home(k) # Moving =>
      {w \in Workers : k \in index[w] \/ (w \notin assigned /\ k \in initMeta[w])}
         = IF live[k] = {} THEN {} ELSE {Home(k)}

\* The list for which the partition table was made.
Owners == IF step \in {"migrate", "tasks"} THEN change.updated ELSE plan.tasks

\* Guarantee 1 of EvenPartitionPolicy, which the uniform policy gives as well:
\* after any rescales each worker of the list has its share of the buckets.
EvenSpread ==
  job.policy # "consistent-hashing" =>
    \A i \in DOMAIN Owners :
      Cardinality(Owned(plan.table, Owners[i])) = Desired(Len(Owners), i)

\* Guarantee 2: a rescale moves buckets to new workers or from removed ones,
\* and none between workers that stay.
MinimalMovement ==
  [][job.policy # "uniform" =>
       \A b \in Buckets : \/ plan'.table[b] = plan.table[b]
                          \/ plan.table[b] \in change.removed
                          \/ plan'.table[b] \in change.added]_vars

Ownership == INSTANCE KeyOwnership
  WITH owner <- [k \in Keys |-> Home(k)], inFlight <- InFlight

\* A stop-and-restart rescale keeps the promise of the lazy one: a key has one
\* owner, only the owner processes its records, and each record is processed
\* exactly once.
ImplementsOwnership == Ownership!Spec

\* A rescale, and the start of the job, comes to its end: every task drains and
\* nobody waits for an ack that is not sent.
RescaleCompletes == Busy ~> ~ Busy
=============================================================================
