------------------------- MODULE LazyReconfigProofs -------------------------
(***************************************************************************)
(* Proofs about LazyReconfig for every number of tasks, keys, records and  *)
(* reconfigurations, however closely the reconfigurations follow each      *)
(* other: type correctness, and that the key map of a bucket is never lost *)
(* and never duplicated.                                                   *)
(***************************************************************************)
EXTENDS LazyReconfig, FiniteSetTheorems, WellFoundedInduction, TLAPS

Channels == [Links -> Seq(Units)]
Batches == [Workers -> SUBSET Records]

-----------------------------------------------------------------------------
(* The values that the actions put into the variables.                     *)

\* The work units a collector creates are work units.
LEMMA UnitTypes ==
  /\ \A rs \in SUBSET Records : Batch(rs) \in Units
  /\ \A t \in Unset .. MaxWatermark : Watermark(t) \in Units
  /\ Barrier \in Units /\ Termination \in Units
  BY ConstantsAssumption, SMT DEF Batch, Watermark, Barrier, Termination, Units, Unset

\* A collector that holds nothing.
LEMMA NoBatchesType == NoBatches \in Batches
  BY DEF NoBatches, Batches

\* Pushing a unit to some downstreams leaves channels of work units.
LEMMA PushToType ==
  ASSUME NEW c \in Channels, NEW x, NEW ds, NEW unit \in Units
  PROVE  PushTo(c, x, ds, unit) \in Channels
  BY DEF PushTo, Channels

\* So does flushing pending batches.
LEMMA FlushType ==
  ASSUME NEW c \in Channels, NEW x, NEW b \in Batches
  PROVE  Flush(c, x, b) \in Channels
<1>1. \A l \in Links : b[l[2]] \in SUBSET Records
  BY DEF Batches, Links
<1>2. \A l \in Links : Batch(b[l[2]]) \in Units
  BY <1>1, UnitTypes
<1> QED
  BY <1>2 DEF Flush, Channels

\* The pending batches and the channels after a collector flushed.
LEMMA FlushedType ==
  ASSUME SendType, NetType, NEW x \in Tasks
  PROVE  /\ Flush(chan, x, pending[x]) \in Channels
         /\ [pending EXCEPT ![x] = NoBatches] \in [Tasks -> Batches]
<1>1. chan \in Channels /\ pending \in [Tasks -> Batches]
  BY DEF SendType, NetType, Channels, Batches
<1>2. pending[x] \in Batches
  BY <1>1
<1> QED
  BY <1>1, <1>2, FlushType, NoBatchesType

\* The Supplier of a new task.
LEMMA NewSupplierType ==
  ASSUME NEW n \in Nat, NEW b \in Int, NEW p \in Int
  PROVE  NewSupplier(n, b, p) \in Suppliers
  BY ConstantsAssumption DEF NewSupplier, Suppliers, Unset

\* The numbers of barriers and peers that a task expects.
LEMMA ExpectedCounts ==
  ASSUME CoordType, NEW w
  PROVE  /\ Cardinality(Upstreams) \in Nat
         /\ Cardinality(SourcesOf(w)) \in Nat
<1>1. SourcesOf(w) \subseteq Workers
  BY DEF CoordType, Plans, Tables, SourcesOf, Senders, Moved
<1>2. IsFiniteSet(SourcesOf(w)) /\ IsFiniteSet(Upstreams)
  BY <1>1, FS_Subset, ConstantsAssumption
<1> QED
  BY <1>2, FS_CardinalityType

\* Updates of a Supplier.
LEMMA SupplierUpdates ==
  ASSUME NEW s \in Suppliers, NEW b \in Nat, NEW e \in Int, NEW p \in Int, NEW d \in BOOLEAN
  PROVE  /\ [s EXCEPT !.barriers = b, !.expBarriers = e, !.reconfigTerminated = d] \in Suppliers
         /\ [s EXCEPT !.peers = p, !.expPeers = e, !.reconfigTerminated = d] \in Suppliers
         /\ [s EXCEPT !.expBarriers = e, !.expPeers = p, !.shuttingDown = d] \in Suppliers
         /\ [s EXCEPT !.expPeers = e, !.allPeersConnected = d] \in Suppliers
         /\ [s EXCEPT !.barriers = b] \in Suppliers
         /\ [s EXCEPT !.peers = p] \in Suppliers
         /\ [s EXCEPT !.deployed = d] \in Suppliers
         /\ [s EXCEPT !.allPeersConnected = d] \in Suppliers
         /\ [s EXCEPT !.reconfigTerminated = d] \in Suppliers
         /\ [s EXCEPT !.shuttingDown = d] \in Suppliers
<1>1. [s EXCEPT !.barriers = b, !.expBarriers = e, !.reconfigTerminated = d] \in Suppliers
  BY Zenon DEF Suppliers
<1>2. [s EXCEPT !.peers = p, !.expPeers = e, !.reconfigTerminated = d] \in Suppliers
  BY Zenon DEF Suppliers
<1>3. [s EXCEPT !.expBarriers = e, !.expPeers = p, !.shuttingDown = d] \in Suppliers
  BY Zenon DEF Suppliers
<1>4. [s EXCEPT !.expPeers = e, !.allPeersConnected = d] \in Suppliers
  BY Zenon DEF Suppliers
<1>5. [s EXCEPT !.barriers = b] \in Suppliers /\ [s EXCEPT !.peers = p] \in Suppliers
  BY Zenon DEF Suppliers
<1>6. [s EXCEPT !.deployed = d] \in Suppliers
  BY Zenon DEF Suppliers
<1>7. [s EXCEPT !.allPeersConnected = d] \in Suppliers
  BY Zenon DEF Suppliers
<1>8. [s EXCEPT !.reconfigTerminated = d] \in Suppliers
  BY Zenon DEF Suppliers
<1>9. [s EXCEPT !.shuttingDown = d] \in Suppliers
  BY Zenon DEF Suppliers
<1> QED
  BY <1>1, <1>2, <1>3, <1>4, <1>5, <1>6, <1>7, <1>8, <1>9

\* And of its task watermark.
LEMMA TaskWatermarkUpdate ==
  ASSUME NEW s \in Suppliers, NEW t \in Unset .. MaxWatermark
  PROVE  [s EXCEPT !.taskWM = t] \in Suppliers
  BY Zenon DEF Suppliers

\* A Supplier of one worker is replaced.
LEMMA SupplierReplaced ==
  ASSUME SupType, NEW w \in Workers, NEW s \in Suppliers, sup' = [sup EXCEPT ![w] = s]
  PROVE  SupType'
  BY DEF SupType

\* What an action leaves alone keeps its type.
LEMMA Frame ==
  /\ CoordType /\ UNCHANGED coordVars => CoordType'
  /\ TaskType /\ UNCHANGED taskVars => TaskType'
  /\ SendType /\ UNCHANGED sendVars => SendType'
  /\ NetType /\ UNCHANGED netVars => NetType'
  /\ SupType /\ UNCHANGED sup => SupType'
  /\ KeyType /\ UNCHANGED keyVars => KeyType'
  /\ SrcType /\ UNCHANGED srcVars => SrcType'
<1>1. CoordType /\ UNCHANGED coordVars => CoordType'
  BY DEF CoordType, coordVars
<1>2. TaskType /\ UNCHANGED taskVars => TaskType'
  BY DEF TaskType, taskVars
<1>3. SendType /\ UNCHANGED sendVars => SendType'
  BY DEF SendType, sendVars
<1>4. NetType /\ UNCHANGED netVars => NetType'
  BY DEF NetType, netVars
<1>5. SupType /\ UNCHANGED sup => SupType'
  BY DEF SupType
<1>6. KeyType /\ UNCHANGED keyVars => KeyType'
  BY DEF KeyType, keyVars
<1>7. SrcType /\ UNCHANGED srcVars => SrcType'
  BY DEF SrcType, srcVars
<1> QED
  BY <1>1, <1>2, <1>3, <1>4, <1>5, <1>6, <1>7

\* An ack takes a task off the list of those the coordinator waits for.
LEMMA AckType ==
  ASSUME CoordType, NEW t, Ack(t)
  PROVE  CoordType'
  BY DEF CoordType, Ack

-----------------------------------------------------------------------------
(* Type correctness: one lemma per action.                                 *)

\* prepareReconfiguration chooses a placement and a partition over the workers.
LEMMA RescaleType ==
  ASSUME TypeOK, NEW newTasks \in SUBSET Workers, NEW newTable \in Tables,
         Rescale(newTasks, newTable)
  PROVE  TypeOK'
<1>1. plan' \in Plans
  BY Zenon DEF Rescale, TypeOK, CoordType, Plans
<1>2. rescales' \in 0 .. MaxRescales
  BY ConstantsAssumption DEF Rescale, TypeOK, CoordType
<1>3. waiting' \subseteq Tasks /\ step' \in Steps
  BY DEF Rescale, TypeOK, CoordType, Plans, Tasks, Steps
<1>4. CoordType'
  BY <1>1, <1>2, <1>3 DEF CoordType
<1> QED
  BY <1>4, Frame DEF TypeOK, Rescale

\* The coordinator sends the message of the next step to a set of tasks.
LEMMA AdvanceType ==
  ASSUME TypeOK, NEW from, NEW to \in Steps, NEW targets \in SUBSET Tasks,
         Advance(from, to, targets)
  PROVE  TypeOK'
<1>1. CoordType'
  BY DEF Advance, TypeOK, CoordType
<1> QED
  BY <1>1, Frame DEF TypeOK, Advance

\* The targets of the steps are tasks: those that lose keys are told to
\* fast-forward, those that gain some are asked for their peers, the upstreams
\* get the new routing, all report the end, and the removed ones are stopped.
LEMMA CoordinatorStepsType ==
  ASSUME TypeOK,
         \/ StartFastForward \/ WaitAllInboundPeersToConnect \/ NotifyUpstreamTasks
         \/ WaitAllTasksReconfigDone \/ TerminateTasks
  PROVE  TypeOK'
<1>1. plan.table \in Tables /\ plan.newTable \in Tables
      /\ plan.tasks \subseteq Workers /\ plan.newTasks \subseteq Workers
  BY DEF TypeOK, CoordType, Plans
<1>2. Senders \subseteq Tasks /\ Receivers \subseteq Tasks
  BY <1>1 DEF Senders, Receivers, Moved, Tables, Tasks
<1>3. /\ Upstreams \subseteq Tasks /\ plan.tasks \cup plan.newTasks \subseteq Tasks
      /\ Removed \subseteq Tasks
  BY <1>1 DEF Removed, Tasks
<1>4. {"fastForward", "peers", "routing", "done", "stop"} \subseteq Steps
  BY DEF Steps
<1>5. CASE StartFastForward
  BY <1>2, <1>4, <1>5, AdvanceType DEF StartFastForward
<1>6. CASE WaitAllInboundPeersToConnect
  BY <1>2, <1>4, <1>6, AdvanceType DEF WaitAllInboundPeersToConnect
<1>7. CASE NotifyUpstreamTasks
  BY <1>3, <1>4, <1>7, AdvanceType DEF NotifyUpstreamTasks
<1>8. CASE WaitAllTasksReconfigDone
  BY <1>3, <1>4, <1>8, AdvanceType DEF WaitAllTasksReconfigDone
<1>9. CASE TerminateTasks
  BY <1>3, <1>4, <1>9, AdvanceType DEF TerminateTasks
<1> QED
  BY <1>5, <1>6, <1>7, <1>8, <1>9

\* The coordinator adopts the new placement and partition.
LEMMA FinishRescaleType ==
  ASSUME TypeOK, FinishRescale
  PROVE  TypeOK'
<1>1. CoordType'
  BY Zenon DEF FinishRescale, TypeOK, CoordType, Plans, Steps
<1> QED
  BY <1>1, Frame DEF TypeOK, FinishRescale

\* A new task gets a Supplier that expects its upstreams and peers.
LEMMA HandleTaskAssignmentType ==
  ASSUME TypeOK, NEW w \in Workers, HandleTaskAssignment(w)
  PROVE  TypeOK'
<1> DEFINE p == Cardinality(SourcesOf(w))
           b == Cardinality(Upstreams)
<1>1. b \in Nat /\ p \in Nat
  BY ExpectedCounts DEF TypeOK
<1>2. sup' = [sup EXCEPT ![w] = NewSupplier(b + p, b, p)]
  BY DEF HandleTaskAssignment
<1> HIDE DEF p, b
<1>3. b + p \in Nat /\ b \in Int /\ p \in Int
  BY <1>1
<1>4. NewSupplier(b + p, b, p) \in Suppliers
  BY <1>3, NewSupplierType, Zenon
<1>5. SupType'
  BY <1>2, <1>4, SupplierReplaced, Zenon DEF TypeOK
<1>6. TaskType'
  BY DEF HandleTaskAssignment, TypeOK, TaskType
<1>7. CoordType'
  BY AckType DEF HandleTaskAssignment, TypeOK
<1> QED
  BY <1>5, <1>6, <1>7, Frame DEF TypeOK, HandleTaskAssignment

\* An existing task sets the barriers and the peers it expects.
LEMMA HandleInitLazyReconfigType ==
  ASSUME TypeOK, NEW w \in Workers, HandleInitLazyReconfig(w)
  PROVE  TypeOK'
<1> DEFINE b == Cardinality(Upstreams)
           p == IF w \in Receivers THEN Cardinality(SourcesOf(w)) ELSE -1
           d == sup[w].shuttingDown \/ w \in Removed
           s == [sup[w] EXCEPT !.expBarriers = b, !.expPeers = p, !.shuttingDown = d]
<1>1. sup[w] \in Suppliers
  BY DEF TypeOK, SupType
<1>2. sup' = [sup EXCEPT ![w] = s]
  BY <1>1, Zenon DEF HandleInitLazyReconfig, TypeOK, SupType, Suppliers
<1>3. b \in Int /\ p \in Int
  BY ExpectedCounts DEF TypeOK
<1>4. d \in BOOLEAN
  OBVIOUS
<1> HIDE DEF b, p, d
<1>5. s \in Suppliers
  BY <1>1, <1>3, <1>4, 0 \in Nat, SupplierUpdates, Zenon
<1> HIDE DEF s
<1>6. SupType'
  BY <1>2, <1>5, SupplierReplaced, Zenon DEF TypeOK
<1>7. CoordType'
  BY AckType, Zenon DEF HandleInitLazyReconfig, TypeOK
<1> QED
  BY <1>6, <1>7, Frame, Zenon DEF TypeOK, HandleInitLazyReconfig

\* A task that loses keys activates its PeerCollector.
LEMMA HandleStartFastForwardType ==
  ASSUME TypeOK, NEW w \in Workers, HandleStartFastForward(w)
  PROVE  TypeOK'
<1>1. plan.newTable \in Tables
  BY DEF TypeOK, CoordType, Plans
<1>2. PeersOf(w) \subseteq Workers
  BY <1>1 DEF PeersOf, Moved, Tables
<1>3. SendType'
  <2>1. routing' \in [Tasks -> Tables \cup {NoTable}]
    BY <1>1, Zenon DEF HandleStartFastForward, TypeOK, SendType
  <2>2. downs' \in [Tasks -> SUBSET Workers]
    BY <1>2, Zenon DEF HandleStartFastForward, TypeOK, SendType
  <2>3. pending' \in [Tasks -> Batches]
    BY NoBatchesType, Zenon DEF HandleStartFastForward, TypeOK, SendType, Batches
  <2> QED
    BY <2>1, <2>2, <2>3 DEF SendType, Batches
<1>4. NetType'
  BY Zenon DEF HandleStartFastForward, TypeOK, NetType
<1>5. TaskType'
  BY Zenon DEF HandleStartFastForward, TypeOK, TaskType
<1> QED
  BY <1>3, <1>4, <1>5, Frame, Zenon DEF TypeOK, HandleStartFastForward

\* The control thread sets the phase flag.
LEMMA SetLazyProtocolPhaseType ==
  ASSUME TypeOK, NEW w \in Workers, SetLazyProtocolPhase(w)
  PROVE  TypeOK'
<1>1. TaskType'
  BY DEF SetLazyProtocolPhase, TypeOK, TaskType
<1> QED
  BY <1>1, Frame DEF TypeOK, SetLazyProtocolPhase

\* The main loop and the control thread meet.
LEMMA ReconfigStartType ==
  ASSUME TypeOK, NEW w \in Workers, ReconfigStart(w)
  PROVE  TypeOK'
<1>1. TaskType'
  BY DEF ReconfigStart, TypeOK, TaskType
<1>2. CoordType'
  BY AckType DEF ReconfigStart, TypeOK
<1> QED
  BY <1>1, <1>2, Frame DEF TypeOK, ReconfigStart

\* The control thread consumes the signal that all peers are connected.
LEMMA HandleWaitInboundPeersType ==
  ASSUME TypeOK, NEW w \in Workers, HandleWaitInboundPeers(w)
  PROVE  TypeOK'
<1> DEFINE s == [sup[w] EXCEPT !.allPeersConnected = FALSE]
<1>1. sup[w] \in Suppliers
  BY DEF TypeOK, SupType
<1>2. sup' = [sup EXCEPT ![w] = s]
  BY <1>1 DEF HandleWaitInboundPeers, TypeOK, SupType
<1>3. s \in Suppliers
  BY <1>1, 0 \in Nat, 0 \in Int, FALSE \in BOOLEAN, SupplierUpdates, Zenon
<1> HIDE DEF s
<1>4. SupType' /\ CoordType'
  BY <1>2, <1>3, SupplierReplaced, AckType, Zenon DEF TypeOK, HandleWaitInboundPeers
<1> QED
  BY <1>4, Frame DEF TypeOK, HandleWaitInboundPeers

\* The control thread consumes the termination signal.
LEMMA HandleWaitReconfigDoneType ==
  ASSUME TypeOK, NEW w \in Workers, HandleWaitReconfigDone(w)
  PROVE  TypeOK'
<1> DEFINE s == [sup[w] EXCEPT !.reconfigTerminated = FALSE]
<1>1. sup[w] \in Suppliers
  BY DEF TypeOK, SupType
<1>2. sup' = [sup EXCEPT ![w] = s]
  BY <1>1 DEF HandleWaitReconfigDone, TypeOK, SupType
<1>3. s \in Suppliers
  BY <1>1, 0 \in Nat, 0 \in Int, FALSE \in BOOLEAN, SupplierUpdates, Zenon
<1> HIDE DEF s
<1>4. SupType' /\ CoordType'
  BY <1>2, <1>3, SupplierReplaced, AckType, Zenon DEF TypeOK, HandleWaitReconfigDone
<1> QED
  BY <1>4, Frame DEF TypeOK, HandleWaitReconfigDone

\* A removed task is marked as shutting down.
LEMMA HandleTerminateType ==
  ASSUME TypeOK, NEW w \in Workers, HandleTerminate(w)
  PROVE  TypeOK'
<1> DEFINE s == [sup[w] EXCEPT !.shuttingDown = TRUE]
<1>1. sup[w] \in Suppliers
  BY DEF TypeOK, SupType
<1>2. sup' = [sup EXCEPT ![w] = s]
  BY <1>1 DEF HandleTerminate, TypeOK, SupType
<1>3. s \in Suppliers
  BY <1>1, 0 \in Nat, 0 \in Int, TRUE \in BOOLEAN, SupplierUpdates, Zenon
<1> HIDE DEF s
<1>4. SupType' /\ CoordType'
  BY <1>2, <1>3, SupplierReplaced, AckType, Zenon DEF TypeOK, HandleTerminate
<1> QED
  BY <1>4, Frame DEF TypeOK, HandleTerminate

\* A source emits a record, flushing a full batch first.
LEMMA EmitType ==
  ASSUME TypeOK, NEW u \in Upstreams, NEW k \in Keys, Emit(u, k)
  PROVE  TypeOK'
<1> DEFINE d == routing[u][k]
           r == [id |-> emitted + 1, key |-> k, ts |-> wm[u] + 1]
<1>1. r \in Records
  BY ConstantsAssumption DEF TypeOK, SrcType, Emit, Records
<1>2. EmitTo(u, d, r)
  BY DEF Emit
<1>3. u \in Tasks /\ pending[u] \in Batches
  BY DEF TypeOK, SendType, Tasks, Batches
<1> HIDE DEF d, r
<1>4. SendType'
  <2> DEFINE v == IF Cardinality(pending[u][d]) >= BatchSize THEN {r} ELSE pending[u][d] \cup {r}
             b == [pending[u] EXCEPT ![d] = v]
  <2>1. d \in Workers => v \in SUBSET Records
    BY <1>1, <1>3 DEF Batches
  <2>2. pending' = [pending EXCEPT ![u] = b]
    BY <1>2, <1>3 DEF EmitTo, TypeOK, SendType
  <2> HIDE DEF v
  <2>3. b \in Batches
    BY <1>3, <2>1, Zenon DEF Batches
  <2> HIDE DEF b
  <2>4. pending' \in [Tasks -> Batches]
    <3>1. pending \in [Tasks -> Batches]
      BY DEF TypeOK, SendType, Batches
    <3> QED
      BY <2>2, <2>3, <3>1
  <2> QED
    BY <2>4 DEF Emit, TypeOK, SendType, Batches
<1>5. NetType'
  <2>1. <<u, d>> \in Links => Batch(pending[u][d]) \in Units
    BY <1>3, UnitTypes DEF Links, Batches
  <2>2. chan' \in [Links -> Seq(Units)]
    <3> DEFINE c == Append(chan[<<u, d>>], Batch(pending[u][d]))
    <3>1. <<u, d>> \in Links => c \in Seq(Units)
      BY <2>1 DEF TypeOK, NetType
    <3>2. chan' = [chan EXCEPT ![<<u, d>>] = c] \/ chan' = chan
      BY <1>2 DEF EmitTo
    <3> HIDE DEF c
    <3> QED
      BY <3>1, <3>2, Zenon DEF TypeOK, NetType
  <2> QED
    BY <2>2 DEF Emit, TypeOK, NetType
<1>6. SrcType'
  BY ConstantsAssumption DEF Emit, TypeOK, SrcType
<1> QED
  BY <1>4, <1>5, <1>6, Frame DEF TypeOK, Emit

\* A collector flushes its pending batches on a timeout.
LEMMA TimerTimeoutType ==
  ASSUME TypeOK, NEW x \in Tasks, TimerTimeout(x)
  PROVE  TypeOK'
<1>1. chan' \in Channels /\ pending' \in [Tasks -> Batches]
  BY FlushedType DEF TimerTimeout, TypeOK
<1>2. SendType' /\ NetType'
  BY <1>1 DEF TimerTimeout, TypeOK, SendType, NetType, Channels, Batches
<1> QED
  BY <1>2, Frame DEF TypeOK, TimerTimeout

\* A source sends the next watermark to all its downstreams.
LEMMA BroadcastWatermarkType ==
  ASSUME TypeOK, NEW u \in Upstreams, BroadcastWatermark(u)
  PROVE  TypeOK'
<1>1. u \in Tasks
  BY DEF Tasks
<1>2. wm[u] + 1 \in 0 .. MaxWatermark
  BY ConstantsAssumption DEF TypeOK, SrcType, BroadcastWatermark
<1>3. Watermark(wm[u] + 1) \in Units
  BY <1>2, UnitTypes DEF Unset
<1>4. chan' \in Channels /\ pending' \in [Tasks -> Batches]
  BY <1>1, <1>3, FlushedType, PushToType DEF BroadcastWatermark, TypeOK
<1>5. SendType' /\ NetType'
  BY <1>4 DEF BroadcastWatermark, TypeOK, SendType, NetType, Channels, Batches
<1>6. SrcType'
  BY <1>2 DEF BroadcastWatermark, TypeOK, SrcType
<1> QED
  BY <1>5, <1>6, Frame DEF TypeOK, BroadcastWatermark

\* An upstream task flushes, sends barriers and switches its routing.
LEMMA HandleUpdateDownstreamRoutingType ==
  ASSUME TypeOK, NEW u \in Upstreams, HandleUpdateDownstreamRouting(u)
  PROVE  TypeOK'
<1>1. u \in Tasks
  BY DEF Tasks
<1>2. Flush(chan, u, pending[u]) \in Channels /\ pending' \in [Tasks -> Batches]
  BY <1>1, FlushedType DEF HandleUpdateDownstreamRouting, TypeOK
<1>3. Rerouted(u) \in Channels
  BY <1>2, UnitTypes, PushToType DEF Rerouted
<1>4. plan.newTable \in Tables /\ NewTasks \subseteq Workers
  BY DEF TypeOK, CoordType, Plans, NewTasks
<1>5. SendType'
  <2>1. routing' \in [Tasks -> Tables \cup {NoTable}]
    BY <1>4, Zenon DEF HandleUpdateDownstreamRouting, TypeOK, SendType
  <2>2. downs' \in [Tasks -> SUBSET Workers]
    BY <1>1, <1>4 DEF HandleUpdateDownstreamRouting, TypeOK, SendType
  <2> QED
    BY <1>2, <2>1, <2>2 DEF SendType, Batches
<1>6. NetType'
  <2>1. conn' \in [Links -> {"closed", "dialing", "open"}]
    BY DEF HandleUpdateDownstreamRouting, TypeOK, NetType
  <2> QED
    BY <1>3, <2>1 DEF HandleUpdateDownstreamRouting, TypeOK, NetType, Channels
<1>7. CoordType'
  BY AckType DEF HandleUpdateDownstreamRouting, TypeOK
<1> QED
  BY <1>5, <1>6, <1>7, Frame DEF TypeOK, HandleUpdateDownstreamRouting

\* The Supplier of a worker to which one more channel is connected.
LEMMA ConnectedType ==
  ASSUME NEW s \in Suppliers, NEW n
  PROVE  Connected(s, n) \in Suppliers
<1> DEFINE d == s.deployed \/ n = s.expUpstreams
<1>1. d \in BOOLEAN
  OBVIOUS
<1>2. Connected(s, n) = [s EXCEPT !.deployed = d]
  BY DEF Connected, Suppliers
<1> HIDE DEF d
<1> QED
  BY <1>1, <1>2, 0 \in Nat, 0 \in Int, SupplierUpdates, Zenon

\* A worker accepts an upstream channel.
LEMMA ConnectUpstreamType ==
  ASSUME TypeOK, NEW u \in Upstreams, NEW w \in Workers, ConnectUpstream(u, w)
  PROVE  TypeOK'
<1> DEFINE s == Connected(sup[w], Cardinality(Open(w, conn')))
<1>1. sup' = [sup EXCEPT ![w] = s]
  BY DEF ConnectUpstream, TypeOK, SupType
<1>2. s \in Suppliers
  BY ConnectedType DEF TypeOK, SupType
<1> HIDE DEF s
<1>3. SupType'
  BY <1>1, <1>2, SupplierReplaced, Zenon DEF TypeOK
<1>4. NetType'
  BY Zenon DEF ConnectUpstream, TypeOK, NetType
<1> QED
  BY <1>3, <1>4, Frame DEF TypeOK, ConnectUpstream

\* The Supplier of a worker to which a peer is connected.
LEMMA PeerConnectedType ==
  ASSUME NEW s \in Suppliers, NEW n
  PROVE  PeerConnected(s, n) \in Suppliers
<1> DEFINE c == Connected(s, n)
           p == c.peers + 1
           new == [c EXCEPT !.peers = p]
           all == [new EXCEPT !.expPeers = -2, !.allPeersConnected = TRUE]
<1>1. c \in Suppliers
  BY ConnectedType
<1>2. p \in Int
  BY <1>1 DEF Suppliers
<1>3. PeerConnected(s, n) = IF new.peers = new.expPeers THEN all ELSE new
  BY DEF PeerConnected
<1> HIDE DEF c, p
<1>4. new \in Suppliers
  BY <1>1, <1>2, 0 \in Nat, TRUE \in BOOLEAN, SupplierUpdates, Zenon
<1> HIDE DEF new
<1>5. all \in Suppliers
  BY <1>4, 0 \in Nat, -2 \in Int, TRUE \in BOOLEAN, SupplierUpdates, Zenon
<1> QED
  BY <1>3, <1>4, <1>5

\* A worker accepts a peer channel and takes over its key maps.
LEMMA ConnectPeerType ==
  ASSUME TypeOK, NEW s \in Workers, NEW w \in Workers, ConnectPeer(s, w)
  PROVE  TypeOK'
<1> DEFINE p == PeerConnected(sup[w], Cardinality(Open(w, conn')))
<1>1. sup' = [sup EXCEPT ![w] = p]
  BY Zenon DEF ConnectPeer, TypeOK, SupType
<1>2. p \in Suppliers
  BY PeerConnectedType DEF TypeOK, SupType
<1> HIDE DEF p
<1>3. SupType'
  BY <1>1, <1>2, SupplierReplaced, Zenon DEF TypeOK
<1>4. NetType'
  BY Zenon DEF ConnectPeer, TypeOK, NetType
<1>5. KeyType'
  <2>1. <<s, w>> \in Links
    BY DEF Links, Tasks
  <2> QED
    BY <2>1, Zenon DEF ConnectPeer, TypeOK, KeyType
<1> QED
  BY <1>3, <1>4, <1>5, Frame, Zenon DEF TypeOK, ConnectPeer

\* Actions that only append to or read from channels, or only change pending
\* batches, keep the types of the rest of the network and the collectors.
LEMMA QueuesType ==
  /\ NetType /\ chan' \in Channels /\ UNCHANGED <<conn, chWM>> => NetType'
  /\ SendType /\ pending' \in [Tasks -> Batches] /\ UNCHANGED <<routing, downs>> => SendType'
<1>1. NetType /\ chan' \in Channels /\ UNCHANGED <<conn, chWM>> => NetType'
  BY DEF NetType, Channels
<1>2. SendType /\ pending' \in [Tasks -> Batches] /\ UNCHANGED <<routing, downs>> => SendType'
  BY DEF SendType, Batches
<1> QED
  BY <1>1, <1>2

\* The main loop moves on, and nothing else of the task changes.
LEMMA MainLoopMoves ==
  ASSUME TaskType, NEW w \in Workers, UNCHANGED <<cpc, phase, inTrans>>,
         NEW l \in {"off", "top", "notify", "announce", "get", "exit", "dropTable",
                    "deactivate", "release"},
         mpc' = [mpc EXCEPT ![w] = l]
  PROVE  TaskType'
  BY DEF TaskType

\* BroadcastWatermarkToPeers leaves channels and pending batches.
LEMMA BroadcastToPeersType ==
  ASSUME SendType, NetType, NEW w \in Workers, NEW t \in Unset .. MaxWatermark,
         NEW c \in Channels, BroadcastToPeers(w, t, c)
  PROVE  chan' \in Channels /\ pending' \in [Tasks -> Batches]
<1>1. w \in Tasks /\ pending[w] \in Batches
  BY DEF SendType, Tasks, Batches
<1>2. Flush(c, w, pending[w]) \in Channels
  BY <1>1, FlushType
<1>3. Watermark(t) \in Units
  BY UnitTypes
<1>4. PushTo(Flush(c, w, pending[w]), w, downs[w], Watermark(t)) \in Channels
  BY <1>2, <1>3, PushToType
<1>5. [pending EXCEPT ![w] = NoBatches] \in [Tasks -> Batches]
  BY <1>1, FlushedType
<1> QED
  BY <1>4, <1>5 DEF BroadcastToPeers

\* The same for a watermark that is forwarded only in the transition.
LEMMA ForwardWatermarkType ==
  ASSUME SendType, NetType, NEW w \in Workers, NEW t \in Unset .. MaxWatermark,
         NEW c \in Channels, ForwardWatermark(w, t, c)
  PROVE  chan' \in Channels /\ pending' \in [Tasks -> Batches]
<1>1. pending \in [Tasks -> Batches]
  BY DEF SendType, Batches
<1> QED
  BY <1>1, BroadcastToPeersType DEF ForwardWatermark

\* The main loop reads the phase flag.
LEMMA UpdateInTransitionFlagType ==
  ASSUME TypeOK, NEW w \in Workers, UpdateInTransitionFlag(w)
  PROVE  TypeOK'
<1> DEFINE l == IF phase[w] = 1 /\ ~inTrans[w] THEN "notify" ELSE "get"
<1>1. inTrans' \in [Workers -> BOOLEAN]
  BY DEF UpdateInTransitionFlag, TypeOK, TaskType
<1>2. mpc' = [mpc EXCEPT ![w] = l] /\ l \in {"notify", "get"}
  BY DEF UpdateInTransitionFlag
<1>3. UNCHANGED <<cpc, phase>>
  BY DEF UpdateInTransitionFlag
<1>4. TaskType'
  <2> HIDE DEF l
  <2> QED
    BY <1>1, <1>2, <1>3 DEF TypeOK, TaskType
<1> QED
  BY <1>4, Frame DEF TypeOK, UpdateInTransitionFlag

\* The main loop sends the key maps and the watermark to its peers.
LEMMA EnterTransitionType ==
  ASSUME TypeOK, NEW w \in Workers, EnterTransition(w)
  PROVE  TypeOK'
<1>1. chan' \in Channels /\ pending' \in [Tasks -> Batches]
  <2>1. chan \in Channels /\ pending \in [Tasks -> Batches]
    BY DEF TypeOK, SendType, NetType, Channels, Batches
  <2>2. sup[w].taskWM \in Unset .. MaxWatermark
    BY DEF TypeOK, SupType, Suppliers
  <2>3. CASE sup[w].taskWM = Unset
    <3>1. UNCHANGED <<chan, pending>>
      BY <2>3 DEF EnterTransition
    <3> QED
      BY <2>1, <3>1
  <2>4. CASE sup[w].taskWM # Unset
    <3>1. BroadcastToPeers(w, sup[w].taskWM, chan)
      BY <2>4, Zenon DEF EnterTransition
    <3> QED
      BY <2>1, <2>2, <3>1, BroadcastToPeersType DEF TypeOK
  <2> QED
    BY <2>3, <2>4
<1>2. SendType' /\ NetType'
  BY <1>1, QueuesType, Zenon DEF TypeOK, EnterTransition
<1>3. KeyType'
  <2>1. Leaving(w) \subseteq Keys /\ Staying(w) \subseteq Keys
    BY DEF Leaving, Staying, TypeOK, KeyType
  <2>2. keyMap' \in [Workers -> SUBSET Keys]
    BY <2>1, Zenon DEF EnterTransition, TypeOK, KeyType
  <2>3. mapSent' \in [Links -> SUBSET Keys]
    BY <2>1, Zenon DEF EnterTransition, TypeOK, KeyType
  <2> QED
    BY <2>2, <2>3 DEF KeyType
<1>4. TaskType'
  BY Zenon DEF EnterTransition, TypeOK, TaskType
<1> QED
  BY <1>2, <1>3, <1>4, Frame, Zenon DEF TypeOK, EnterTransition

\* The main loop clears the phase flag.
LEMMA ExitTransitionPhaseType ==
  ASSUME TypeOK, NEW w \in Workers, ExitTransitionPhase(w)
  PROVE  TypeOK'
<1>1. TaskType'
  BY DEF ExitTransitionPhase, TypeOK, TaskType
<1> QED
  BY <1>1, Frame DEF TypeOK, ExitTransitionPhase

\* The main loop drops its routing table.
LEMMA DropRoutingTableType ==
  ASSUME TypeOK, NEW w \in Workers, DropRoutingTable(w)
  PROVE  TypeOK'
<1>1. TaskType'
  BY MainLoopMoves, Zenon DEF DropRoutingTable, TypeOK
<1>2. SendType'
  BY Zenon DEF DropRoutingTable, TypeOK, SendType
<1> QED
  BY <1>1, <1>2, Frame DEF TypeOK, DropRoutingTable

\* The PeerCollector flushes and ends its channels.
LEMMA DeactivateType ==
  ASSUME TypeOK, NEW w \in Workers, Deactivate(w)
  PROVE  TypeOK'
<1>1. w \in Tasks
  BY DEF Tasks
<1>2. chan' \in Channels /\ pending' \in [Tasks -> Batches]
  BY <1>1, FlushedType, UnitTypes, PushToType DEF Deactivate, TypeOK
<1>3. SendType' /\ NetType' /\ TaskType'
  BY <1>2, QueuesType, MainLoopMoves, Zenon DEF TypeOK, Deactivate
<1> QED
  BY <1>3, Frame, Zenon DEF TypeOK, Deactivate

\* The PeerCollector forgets its peers.
LEMMA ReleasePeersType ==
  ASSUME TypeOK, NEW w \in Workers, ReleasePeers(w)
  PROVE  TypeOK'
<1>1. w \in Tasks
  BY DEF Tasks
<1>2. pending' \in [Tasks -> Batches]
  BY <1>1, FlushedType DEF ReleasePeers, TypeOK
<1>3. SendType'
  BY <1>2 DEF TypeOK, SendType, ReleasePeers, Batches
<1>4. TaskType'
  BY MainLoopMoves, Zenon DEF ReleasePeers, TypeOK
<1> QED
  BY <1>3, <1>4, Frame DEF TypeOK, ReleasePeers

\* The main loop goes round.
LEMMA ReceiveOtherBatchType ==
  ASSUME TypeOK, NEW w \in Workers, ReceiveOtherBatch(w)
  PROVE  TypeOK'
<1>1. TaskType'
  BY MainLoopMoves, Zenon DEF ReceiveOtherBatch, TypeOK
<1> QED
  BY <1>1, Frame DEF TypeOK, ReceiveOtherBatch

\* What is left of a channel after a unit was read is a channel, and the unit
\* is a work unit.
LEMMA ReadType ==
  ASSUME NetType, NEW x \in Tasks, NEW w \in Workers, NEW type, Reads(w, x, type)
  PROVE  Rest(x, w) \in Channels /\ Head(chan[<<x, w>>]) \in Units
<1>1. <<x, w>> \in Links
  BY DEF Links
<1>2. chan[<<x, w>>] \in Seq(Units) /\ chan[<<x, w>>] # <<>>
  BY <1>1 DEF Reads, NetType
<1>3. Tail(chan[<<x, w>>]) \in Seq(Units) /\ Head(chan[<<x, w>>]) \in Units
  BY <1>2
<1> QED
  BY <1>3, Zenon DEF Rest, NetType, Channels

\* The Supplier after a barrier.
LEMMA BarrierReceivedType ==
  ASSUME NEW s \in Suppliers
  PROVE  BarrierReceived(s) \in Suppliers
<1> DEFINE d == s.reconfigTerminated \/ s.expPeers = -1
           b == s.barriers + 1
<1>1. BarrierReceived(s) = IF Aligned(s)
         THEN [s EXCEPT !.barriers = 0, !.expBarriers = -1, !.reconfigTerminated = d]
         ELSE [s EXCEPT !.barriers = b]
  BY DEF BarrierReceived, Suppliers
<1>2. d \in BOOLEAN
  OBVIOUS
<1>3. b \in Nat
  BY DEF Suppliers
<1> HIDE DEF d, b
<1>4. [s EXCEPT !.barriers = 0, !.expBarriers = -1, !.reconfigTerminated = d] \in Suppliers
  BY <1>2, 0 \in Nat, -1 \in Int, SupplierUpdates, Zenon
<1>5. [s EXCEPT !.barriers = b] \in Suppliers
  BY <1>2, <1>3, -1 \in Int, SupplierUpdates, Zenon
<1> QED
  BY <1>1, <1>4, <1>5

\* The Supplier counts a barrier and may report the end.
LEMMA ReceiveBarrierType ==
  ASSUME TypeOK, NEW x \in Tasks, NEW w \in Workers, ReceiveBarrier(x, w)
  PROVE  TypeOK'
<1>1. chan' \in Channels
  BY ReadType, Zenon DEF ReceiveBarrier, TypeOK
<1>2. NetType'
  BY <1>1, QueuesType, Zenon DEF TypeOK, ReceiveBarrier
<1>3. SupType'
  <2>1. BarrierReceived(sup[w]) \in Suppliers
    BY BarrierReceivedType DEF TypeOK, SupType
  <2>2. sup' = [sup EXCEPT ![w] = BarrierReceived(sup[w])]
    BY Zenon DEF ReceiveBarrier, TypeOK, SupType
  <2> QED
    BY <2>1, <2>2, SupplierReplaced, Zenon DEF TypeOK
<1>4. TaskType'
  BY Zenon DEF ReceiveBarrier, TypeOK, TaskType
<1> QED
  BY <1>2, <1>3, <1>4, Frame, Zenon DEF TypeOK, ReceiveBarrier

\* The least of a non-empty set of watermarks is one of them.
LEMMA MinWatermark ==
  ASSUME NEW S \in SUBSET (Unset .. MaxWatermark), S # {}
  PROVE  Min(S) \in S /\ \A y \in S : Min(S) <= y
<1> DEFINE T == {y + 1 : y \in S}
<1>0. S \subseteq Int /\ \A y \in S : y + 1 \in Nat
  BY ConstantsAssumption DEF Unset
<1>1. T \subseteq Nat /\ T # {}
  <2>1. T \subseteq Nat
    BY <1>0
  <2>2. PICK y \in S : TRUE
    BY Zenon
  <2>3. y + 1 \in T
    BY <2>2
  <2> QED
    BY <2>1, <2>3
<1>2. PICK m \in T : \A y \in T : ~(<<y, m>> \in OpToRel(<, Nat))
  BY <1>1, NatLessThanWellFounded, WFMin, Zenon
<1>3. \A y \in T : m <= y
  <2> SUFFICES ASSUME NEW y \in T PROVE m <= y
    OBVIOUS
  <2>1. y \in Nat /\ m \in Nat
    BY <1>1, <1>2, Zenon
  <2> HIDE DEF T
  <2>2. ~(y < m)
    BY <1>2, <2>1, Zenon DEF OpToRel
  <2> QED
    BY <2>1, <2>2
<1>4. PICK x \in S : m = x + 1
  OBVIOUS
<1>5. \A y \in S : x <= y
  <2> SUFFICES ASSUME NEW y \in S PROVE x <= y
    OBVIOUS
  <2>1. y + 1 \in T
    OBVIOUS
  <2>2. x + 1 <= y + 1
    BY <1>3, <1>4, <2>1, Zenon
  <2> QED
    BY <1>0, <2>2
<1> QED
  BY <1>5, Zenon DEF Min


\* The task watermark that the Supplier computes from channel watermarks is one
\* of them.
LEMMA TaskWatermarkType ==
  ASSUME NEW w \in Workers, NEW open \in SUBSET Tasks,
         NEW c \in [Links -> Unset .. MaxWatermark], Progresses(w, open, c)
  PROVE  Min({c[<<y, w>>] : y \in open}) \in Unset .. MaxWatermark
<1> DEFINE S == {c[<<y, w>>] : y \in open}
<1>1. \A y \in open : <<y, w>> \in Links
  BY DEF Links
<1>2. S \in SUBSET (Unset .. MaxWatermark)
  BY <1>1, Zenon
<1>3. S # {}
  BY Zenon DEF Progresses
<1> HIDE DEF S
<1>4. Min(S) \in S
  BY <1>2, <1>3, MinWatermark
<1>5. Min(S) \in Unset .. MaxWatermark
  BY <1>2, <1>4, Zenon
<1> QED
  BY <1>5 DEF S

\* The Supplier takes a watermark and may advance the task watermark.
LEMMA ReceiveWatermarkType ==
  ASSUME TypeOK, NEW x \in Tasks, NEW w \in Workers, ReceiveWatermark(x, w)
  PROVE  TypeOK'
<1> DEFINE open == Open(w, conn)
           t == Min({chWM'[<<y, w>>] : y \in open})
<1>1. Rest(x, w) \in Channels /\ Head(chan[<<x, w>>]) \in Units
  BY ReadType, Zenon DEF ReceiveWatermark, TypeOK
<1>2. chWM' \in [Links -> Unset .. MaxWatermark]
  BY <1>1, Zenon DEF ReceiveWatermark, TypeOK, NetType, Units
<1>3. open \subseteq Tasks
  BY DEF Open
<1>4. UNCHANGED <<conn, routing, downs, cpc, phase, inTrans>>
  BY Zenon DEF ReceiveWatermark
<1>5. ASSUME sup[w].deployed, Progresses(w, open, chWM')
      PROVE  chan' \in Channels /\ SupType' /\ TaskType' /\ SendType'
  <2>1. t \in Unset .. MaxWatermark
    BY <1>2, <1>3, <1>5, TaskWatermarkType, Zenon
  <2>2. sup' = [sup EXCEPT ![w].taskWM = t] /\ ForwardWatermark(w, t, Rest(x, w))
        /\ mpc' = [mpc EXCEPT ![w] = "top"]
    BY <1>5, Zenon DEF ReceiveWatermark
  <2> HIDE DEF t, open
  <2>3. chan' \in Channels /\ pending' \in [Tasks -> Batches]
    BY <1>1, <2>1, <2>2, ForwardWatermarkType DEF TypeOK
  <2>4. SupType'
    <3>1. sup' = [sup EXCEPT ![w] = [sup[w] EXCEPT !.taskWM = t]]
      BY <2>2 DEF TypeOK, SupType
    <3>2. [sup[w] EXCEPT !.taskWM = t] \in Suppliers
      BY <2>1, TaskWatermarkUpdate DEF TypeOK, SupType
    <3> QED
      BY <3>1, <3>2, SupplierReplaced, Zenon DEF TypeOK
  <2>5. TaskType' /\ SendType'
    BY <1>4, <2>2, <2>3, QueuesType, MainLoopMoves, Zenon DEF TypeOK
  <2> QED
    BY <2>3, <2>4, <2>5
<1>6. ASSUME ~(sup[w].deployed /\ Progresses(w, open, chWM'))
      PROVE  chan' \in Channels /\ SupType' /\ TaskType' /\ SendType'
  <2>1. chan' \in Channels /\ UNCHANGED <<sup, pending, mpc>>
    BY <1>1, <1>6, Zenon DEF ReceiveWatermark
  <2> QED
    BY <1>4, <2>1, Frame DEF TypeOK, taskVars, sendVars
<1>7. chan' \in Channels /\ SupType' /\ TaskType' /\ SendType'
  BY <1>5, <1>6
<1>8. NetType'
  BY <1>2, <1>4, <1>7 DEF TypeOK, NetType, Channels
<1> QED
  BY <1>7, <1>8, Frame, Zenon DEF TypeOK, ReceiveWatermark

\* The Supplier after the end of a peer connection.
LEMMA PeerClosedType ==
  ASSUME NEW s \in Suppliers
  PROVE  PeerClosed(s) \in Suppliers
<1> DEFINE d == s.reconfigTerminated \/ s.expBarriers = -1
           p == s.peers - 1
<1>1. PeerClosed(s) = IF s.peers = 1
         THEN [s EXCEPT !.peers = 0, !.expPeers = -1, !.reconfigTerminated = d]
         ELSE [s EXCEPT !.peers = p]
  BY DEF PeerClosed, Suppliers
<1>2. d \in BOOLEAN
  OBVIOUS
<1>3. p \in Int /\ 0 \in Int /\ -1 \in Int /\ 0 \in Nat
  BY DEF Suppliers
<1> HIDE DEF d, p
<1>4. [s EXCEPT !.peers = 0, !.expPeers = -1, !.reconfigTerminated = d] \in Suppliers
  BY <1>2, <1>3, SupplierUpdates, Zenon
<1>5. [s EXCEPT !.peers = p] \in Suppliers
  BY <1>2, <1>3, SupplierUpdates, Zenon
<1> QED
  BY <1>1, <1>4, <1>5

\* The Supplier removes a channel and may advance the task watermark.
LEMMA ReceiveTerminationType ==
  ASSUME TypeOK, NEW x \in Tasks, NEW w \in Workers, ReceiveTermination(x, w)
  PROVE  TypeOK'
<1> DEFINE remaining == Open(w, conn) \ {x}
           t == Min({chWM[<<y, w>>] : y \in remaining})
           closed == IF x \in Workers THEN PeerClosed(sup[w]) ELSE sup[w]
           progress == x \in Workers /\ Progresses(w, remaining, chWM)
           unread == UNCHANGED <<conn, chan, chWM, sup, pending, mpc>>
<1>1. Rest(x, w) \in Channels
  BY ReadType, Zenon DEF ReceiveTermination, TypeOK
<1>2. closed \in Suppliers
  BY PeerClosedType DEF TypeOK, SupType
<1>3. UNCHANGED <<cpc, phase, inTrans, routing, downs>>
  BY Zenon DEF ReceiveTermination
<1>4. \/ unread
      \/ /\ conn' = [conn EXCEPT ![<<x, w>>] = "closed"]
         /\ chWM' = [chWM EXCEPT ![<<x, w>>] = Unset]
         /\ IF progress
              THEN /\ sup' = [sup EXCEPT ![w] = [closed EXCEPT !.taskWM = t]]
                   /\ ForwardWatermark(w, t, Rest(x, w))
                   /\ mpc' = [mpc EXCEPT ![w] = "top"]
              ELSE /\ sup' = [sup EXCEPT ![w] = closed]
                   /\ chan' = Rest(x, w)
                   /\ UNCHANGED <<pending, mpc>>
  BY Zenon DEF ReceiveTermination
<1>5. ASSUME unread PROVE SupType' /\ TaskType' /\ SendType' /\ NetType'
  BY <1>3, <1>5, Frame DEF TypeOK, taskVars, sendVars, netVars
<1>6. ASSUME conn' = [conn EXCEPT ![<<x, w>>] = "closed"],
             chWM' = [chWM EXCEPT ![<<x, w>>] = Unset], chan' \in Channels
      PROVE  NetType'
  <2>1. Unset \in Unset .. MaxWatermark
    BY ConstantsAssumption DEF Unset
  <2>2. chWM' \in [Links -> Unset .. MaxWatermark]
    BY <1>6, <2>1, Zenon DEF TypeOK, NetType
  <2>3. conn' \in [Links -> {"closed", "dialing", "open"}]
    BY <1>6, Zenon DEF TypeOK, NetType
  <2> QED
    BY <1>6, <2>2, <2>3 DEF NetType, Channels
<1>7. ASSUME progress,
             sup' = [sup EXCEPT ![w] = [closed EXCEPT !.taskWM = t]],
             ForwardWatermark(w, t, Rest(x, w)), mpc' = [mpc EXCEPT ![w] = "top"]
      PROVE  chan' \in Channels /\ SupType' /\ TaskType' /\ SendType'
  <2>1. t \in Unset .. MaxWatermark
    <3>1. remaining \in SUBSET Tasks /\ chWM \in [Links -> Unset .. MaxWatermark]
      BY DEF Open, TypeOK, NetType
    <3> HIDE DEF remaining
    <3> QED
      BY <1>7, <3>1, TaskWatermarkType, Zenon
  <2> HIDE DEF remaining, t, closed, progress
  <2>2. [closed EXCEPT !.taskWM = t] \in Suppliers
    BY <1>2, <2>1, TaskWatermarkUpdate
  <2>3. SupType'
    BY <1>7, <2>2, SupplierReplaced, Zenon DEF TypeOK
  <2>4. chan' \in Channels /\ pending' \in [Tasks -> Batches]
    BY <1>1, <1>7, <2>1, ForwardWatermarkType DEF TypeOK
  <2>5. TaskType' /\ SendType'
    BY <1>3, <1>7, <2>4, QueuesType, MainLoopMoves, Zenon DEF TypeOK
  <2> QED
    BY <2>3, <2>4, <2>5
<1>8. ASSUME sup' = [sup EXCEPT ![w] = closed], chan' = Rest(x, w), UNCHANGED <<pending, mpc>>
      PROVE  chan' \in Channels /\ SupType' /\ TaskType' /\ SendType'
  <2> HIDE DEF closed
  <2>1. SupType'
    BY <1>2, <1>8, SupplierReplaced, Zenon DEF TypeOK
  <2> QED
    BY <1>1, <1>3, <1>8, <2>1, Frame DEF TypeOK, taskVars, sendVars
<1> HIDE DEF remaining, t, closed, progress, unread
<1>9. SupType' /\ TaskType' /\ SendType' /\ NetType'
  <2>1. CASE unread
    BY <1>5, <2>1
  <2>2. CASE ~unread
    <3>1. chan' \in Channels /\ SupType' /\ TaskType' /\ SendType'
      BY <1>4, <1>7, <1>8, <2>2
    <3> QED
      BY <1>4, <1>6, <2>2, <3>1
  <2> QED
    BY <2>1, <2>2
<1> QED
  BY <1>9, Frame, Zenon DEF TypeOK, ReceiveTermination

\* A batch is divided into what is processed here and what is forwarded.
LEMMA ReceiveBatchType ==
  ASSUME TypeOK, NEW x \in Tasks, NEW w \in Workers, ReceiveBatch(x, w)
  PROVE  TypeOK'
<1> DEFINE recs == Head(chan[<<x, w>>]).recs
           owner(r) == IF inTrans[w] THEN routing[w][r.key] ELSE w
           leave(d) == {r \in recs : owner(r) = d /\ d # w}
           joined(d) == pending[w][d] \cup leave(d)
           here == {r \in recs : owner(r) = w}
           unread == UNCHANGED <<processed, chan, pending, mpc>>
<1>1. Rest(x, w) \in Channels /\ recs \subseteq Records
  BY ReadType, Zenon DEF ReceiveBatch, Units, TypeOK
<1>2. pending \in [Tasks -> Batches] /\ pending[w] \in Batches
  BY DEF TypeOK, SendType, Batches, Tasks
<1>3. here \subseteq Records /\ \A d \in Workers : joined(d) \subseteq Records
  BY <1>1, <1>2, Zenon DEF Batches
<1>4. UNCHANGED <<cpc, phase, inTrans, routing, downs, conn, chWM>>
  BY Zenon DEF ReceiveBatch
<1>5. unread \/ \E sent \in [Workers -> SUBSET UNION {joined(d) : d \in Workers}] :
                  /\ processed' = processed \cup here
                  /\ chan' = Flush(Rest(x, w), w, sent)
                  /\ pending' = [pending EXCEPT ![w] = [d \in Workers |-> joined(d) \ sent[d]]]
                  /\ mpc' = [mpc EXCEPT ![w] = "top"]
  BY Zenon DEF ReceiveBatch
<1> HIDE DEF recs, owner, leave, joined, here
<1>6. ASSUME ~unread
      PROVE  /\ chan' \in Channels /\ pending' \in [Tasks -> Batches]
             /\ TaskType' /\ processed' \subseteq Records
  <2>1. PICK sent \in [Workers -> SUBSET UNION {joined(d) : d \in Workers}] :
          /\ processed' = processed \cup here
          /\ chan' = Flush(Rest(x, w), w, sent)
          /\ pending' = [pending EXCEPT ![w] = [d \in Workers |-> joined(d) \ sent[d]]]
          /\ mpc' = [mpc EXCEPT ![w] = "top"]
    BY <1>5, <1>6
  <2>2. sent \in Batches
    BY <1>3 DEF Batches
  <2>3. chan' \in Channels
    BY <1>1, <2>1, <2>2, FlushType
  <2>4. [d \in Workers |-> joined(d) \ sent[d]] \in Batches
    BY <1>3 DEF Batches
  <2>5. pending' \in [Tasks -> Batches]
    BY <1>2, <2>1, <2>4, Zenon
  <2>6. processed' \subseteq Records
    BY <1>3, <2>1 DEF TypeOK
  <2>7. TaskType'
    BY <1>4, <2>1, MainLoopMoves, Zenon DEF TypeOK
  <2> QED
    BY <2>3, <2>5, <2>6, <2>7
<1>7. ASSUME unread
      PROVE  /\ chan' \in Channels /\ pending' \in [Tasks -> Batches]
             /\ TaskType' /\ processed' \subseteq Records
  <2>1. TaskType'
    BY <1>4, <1>7, Frame DEF TypeOK, taskVars
  <2>2. chan' \in Channels
    BY <1>7 DEF TypeOK, NetType, Channels
  <2> QED
    BY <1>2, <1>7, <2>1, <2>2 DEF TypeOK
<1> HIDE DEF unread
<1>8. /\ chan' \in Channels /\ pending' \in [Tasks -> Batches]
      /\ TaskType' /\ processed' \subseteq Records
  BY <1>6, <1>7
<1>9. NetType' /\ SendType'
  BY <1>4, <1>8, QueuesType DEF TypeOK
<1> QED
  BY <1>8, <1>9, Frame, Zenon DEF TypeOK, ReceiveBatch

\* A job starts well typed.
LEMMA InitType == Init => TypeOK
<1> SUFFICES ASSUME Init PROVE TypeOK
  OBVIOUS
<1>1. CoordType
  <2>1. plan \in Plans
    BY ConstantsAssumption DEF Init, Plans, Tables
  <2> QED
    BY <2>1, ConstantsAssumption DEF Init, CoordType, Steps
<1>2. SupType
  <2> DEFINE s == NewSupplier(Cardinality(Upstreams), -1, -1)
             idle == NewSupplier(0, -1, -1)
             est == [s EXCEPT !.deployed = Established]
  <2>1. Cardinality(Upstreams) \in Nat /\ 0 \in Nat /\ -1 \in Int /\ Established \in BOOLEAN
    BY ConstantsAssumption, FS_CardinalityType
  <2>2. s \in Suppliers /\ idle \in Suppliers
    BY <2>1, NewSupplierType
  <2>3. sup = [w \in Workers |-> IF w \in InitialTasks THEN est ELSE idle]
    BY DEF Init
  <2> HIDE DEF s, idle
  <2>4. est \in Suppliers
    BY <2>1, <2>2, SupplierUpdates, Zenon
  <2> HIDE DEF est
  <2> QED
    BY <2>2, <2>3, <2>4 DEF SupType
<1>3. SendType
  <2>1. pending \in [Tasks -> Batches]
    BY NoBatchesType DEF Init
  <2>2. routing \in [Tasks -> Tables \cup {NoTable}]
    BY ConstantsAssumption DEF Init, Tables
  <2>3. downs \in [Tasks -> SUBSET Workers]
    BY ConstantsAssumption DEF Init
  <2> QED
    BY <2>1, <2>2, <2>3 DEF SendType, Batches
<1>4. NetType
  BY ConstantsAssumption DEF Init, NetType, Unset
<1>5. TaskType
  BY DEF Init, TaskType
<1>6. KeyType /\ SrcType
  BY ConstantsAssumption DEF Init, KeyType, SrcType
<1> QED
  BY <1>1, <1>2, <1>3, <1>4, <1>5, <1>6 DEF Init, TypeOK

\* Every step leads from a well-typed state to a well-typed state.
LEMMA NextType == TypeOK /\ [Next]_vars => TypeOK'
<1> SUFFICES ASSUME TypeOK, [Next]_vars PROVE TypeOK'
  OBVIOUS
<1>1. CASE Request
  BY <1>1, RescaleType DEF Request
<1>2. CASE Coordinator
  BY <1>2, CoordinatorStepsType, FinishRescaleType DEF Coordinator
<1>3. ASSUME NEW w \in Workers, ControlPlane(w) PROVE TypeOK'
  BY <1>3, HandleTaskAssignmentType, HandleInitLazyReconfigType, HandleStartFastForwardType,
     SetLazyProtocolPhaseType, HandleWaitInboundPeersType, HandleWaitReconfigDoneType,
     HandleTerminateType DEF ControlPlane
<1>4. ASSUME NEW w \in Workers, MainLoop(w) PROVE TypeOK'
  BY <1>4, UpdateInTransitionFlagType, ReconfigStartType, EnterTransitionType,
     ExitTransitionPhaseType, DropRoutingTableType, DeactivateType, ReleasePeersType,
     ReceiveOtherBatchType DEF MainLoop
<1>5. ASSUME NEW x \in Tasks, NEW w \in Workers, Receive(x, w) PROVE TypeOK'
  BY <1>5, ReceiveBatchType, ReceiveWatermarkType, ReceiveBarrierType,
     ReceiveTerminationType DEF Receive
<1>6. ASSUME NEW u \in Upstreams, Source(u) \/ Upstream(u) PROVE TypeOK'
  BY <1>6, EmitType, BroadcastWatermarkType, HandleUpdateDownstreamRoutingType
     DEF Source, Upstream
<1>7. CASE Network
  BY <1>7, ConnectUpstreamType, ConnectPeerType, TimerTimeoutType DEF Network
<1>8. CASE UNCHANGED vars
  BY <1>8, Frame DEF TypeOK, vars
<1>9. CASE Halted
  BY <1>8, <1>9 DEF Halted
<1> QED
  BY <1>1, <1>2, <1>3, <1>4, <1>5, <1>6, <1>7, <1>8, <1>9 DEF Next

\* The state of the coordinator, the workers, their Suppliers and the channels
\* stays well typed, for any number of tasks, keys, records and rescales.
THEOREM LazyTypeCorrect == Spec => []TypeOK
  BY InitType, NextType, PTL DEF Spec

-----------------------------------------------------------------------------
(***************************************************************************)
(* Single copy of the key maps.  Only two actions move key maps.           *)
(***************************************************************************)

\* SerializeMigratingKeyMaps takes every key map that leaves out of the local
\* table and puts it on the connection to one peer.
LEMMA EnterTransitionSingleCopy ==
  ASSUME TypeOK, KeyMapSingleCopy, NEW w \in Workers, EnterTransition(w)
  PROVE  KeyMapSingleCopy'
<1> SUFFICES ASSUME NEW k \in Keys
             PROVE  \/ /\ \E v \in Workers : \A u \in Workers : k \in keyMap'[u] <=> u = v
                       /\ \A l \in Links : k \notin mapSent'[l]
                    \/ /\ \A v \in Workers : k \notin keyMap'[v]
                       /\ \E l \in Links : \A m \in Links : k \in mapSent'[m] <=> m = l
  BY Zenon DEF KeyMapSingleCopy
<1>1. \A l \in Links : k \in mapSent'[l] <=>
        \/ k \in mapSent[l]
        \/ k \in Leaving(w) /\ l[1] = w /\ l[2] = routing[w][k]
  BY Zenon DEF EnterTransition, TypeOK, KeyType
<1>2. \A v \in Workers : k \in keyMap'[v] <=> k \in keyMap[v] /\ ~(v = w /\ k \in Leaving(w))
  BY Zenon DEF EnterTransition, TypeOK, KeyType, Staying
<1>3. CASE k \in Leaving(w)
  <2>1. k \in keyMap[w] /\ routing[w] # NoTable
    BY <1>3 DEF Leaving
  <2>2. routing[w][k] \in Workers /\ w \in Tasks
    BY <2>1 DEF TypeOK, SendType, Tasks, Tables
  <2>3. /\ \A v \in Workers : k \in keyMap[v] <=> v = w
        /\ \A l \in Links : k \notin mapSent[l]
    BY <2>1 DEF KeyMapSingleCopy
  <2>4. \A v \in Workers : k \notin keyMap'[v]
    BY <1>2, <1>3, <2>3
  <2>5. <<w, routing[w][k]>> \in Links
    BY <2>2 DEF Links
  <2>6. \A m \in Links : k \in mapSent'[m] <=> m = <<w, routing[w][k]>>
    BY <1>1, <1>3, <2>3 DEF Links
  <2> QED
    BY <2>4, <2>5, <2>6
<1>4. CASE k \notin Leaving(w)
  BY <1>1, <1>2, <1>4 DEF KeyMapSingleCopy
<1> QED
  BY <1>3, <1>4

\* DeserializeMigratingKeyMaps takes the key maps off the connection and puts
\* them into the table of the worker at its end.
LEMMA ConnectPeerSingleCopy ==
  ASSUME TypeOK, KeyMapSingleCopy, NEW s \in Workers, NEW w \in Workers, ConnectPeer(s, w)
  PROVE  KeyMapSingleCopy'
<1> SUFFICES ASSUME NEW k \in Keys
             PROVE  \/ /\ \E v \in Workers : \A u \in Workers : k \in keyMap'[u] <=> u = v
                       /\ \A l \in Links : k \notin mapSent'[l]
                    \/ /\ \A v \in Workers : k \notin keyMap'[v]
                       /\ \E l \in Links : \A m \in Links : k \in mapSent'[m] <=> m = l
  BY DEF KeyMapSingleCopy
<1>0. <<s, w>> \in Links
  BY DEF Links, Tasks
<1>1. \A l \in Links : k \in mapSent'[l] <=> k \in mapSent[l] /\ l # <<s, w>>
  BY <1>0, Zenon DEF ConnectPeer, TypeOK, KeyType
<1>2. \A v \in Workers : k \in keyMap'[v] <=> k \in keyMap[v] \/ (v = w /\ k \in mapSent[<<s, w>>])
  <2>1. keyMap' = [keyMap EXCEPT ![w] = keyMap[w] \cup mapSent[<<s, w>>]]
    BY DEF ConnectPeer, TypeOK, KeyType
  <2>2. keyMap \in [Workers -> SUBSET Keys]
    BY DEF TypeOK, KeyType
  <2> QED
    BY <2>1, <2>2
<1>3. CASE k \in mapSent[<<s, w>>]
  <2>1. /\ \A v \in Workers : k \notin keyMap[v]
        /\ \A m \in Links : k \in mapSent[m] <=> m = <<s, w>>
    BY <1>0, <1>3 DEF KeyMapSingleCopy
  <2> QED
    BY <1>1, <1>2, <1>3, <2>1
<1>4. CASE k \notin mapSent[<<s, w>>]
  BY <1>0, <1>1, <1>2, <1>4 DEF KeyMapSingleCopy
<1> QED
  BY <1>3, <1>4

\* No other action touches the key maps.
LEMMA KeyMapsKept ==
  ASSUME KeyMapSingleCopy, UNCHANGED keyVars
  PROVE  KeyMapSingleCopy'
  BY DEF KeyMapSingleCopy, keyVars

\* A job starts with the key map of every bucket at its owner.
LEMMA InitSingleCopy == Init => KeyMapSingleCopy
<1> SUFFICES ASSUME Init, NEW k \in Keys
             PROVE  /\ \E v \in Workers : \A u \in Workers : k \in keyMap[u] <=> u = v
                    /\ \A l \in Links : k \notin mapSent[l]
  BY DEF KeyMapSingleCopy
<1>1. InitialTable[k] \in Workers
  BY ConstantsAssumption
<1>2. \A u \in Workers : k \in keyMap[u] <=> u = InitialTable[k]
  BY DEF Init
<1>3. \A l \in Links : k \notin mapSent[l]
  BY DEF Init
<1> QED
  BY <1>1, <1>2, <1>3

\* Every step keeps the key map of a bucket in exactly one place.
LEMMA NextSingleCopy == TypeOK /\ KeyMapSingleCopy /\ [Next]_vars => KeyMapSingleCopy'
<1> SUFFICES ASSUME TypeOK, KeyMapSingleCopy, [Next]_vars PROVE KeyMapSingleCopy'
  OBVIOUS
<1>1. CASE Request
  BY <1>1, KeyMapsKept DEF Request, Rescale
<1>2. CASE Coordinator
  BY <1>2, KeyMapsKept
     DEF Coordinator, Advance, StartFastForward, WaitAllInboundPeersToConnect,
     NotifyUpstreamTasks, WaitAllTasksReconfigDone, TerminateTasks, FinishRescale
<1>3. ASSUME NEW w \in Workers, ControlPlane(w) PROVE KeyMapSingleCopy'
  BY <1>3, KeyMapsKept, Zenon
     DEF ControlPlane, HandleTaskAssignment, HandleInitLazyReconfig,
     HandleStartFastForward, SetLazyProtocolPhase, HandleWaitInboundPeers,
     HandleWaitReconfigDone, HandleTerminate
<1>4. ASSUME NEW w \in Workers, MainLoop(w) PROVE KeyMapSingleCopy'
  BY <1>4, KeyMapsKept, EnterTransitionSingleCopy, Zenon
     DEF MainLoop, UpdateInTransitionFlag,
     ReconfigStart, ExitTransitionPhase, DropRoutingTable, Deactivate, ReleasePeers,
     ReceiveOtherBatch
<1>5. ASSUME NEW x \in Tasks, NEW w \in Workers, Receive(x, w) PROVE KeyMapSingleCopy'
  <2>1. UNCHANGED keyVars
    BY <1>5, Zenon
       DEF Receive, ReceiveBatch, ReceiveWatermark, ReceiveBarrier, ReceiveTermination
  <2> QED
    BY <2>1, KeyMapsKept
<1>6. ASSUME NEW u \in Upstreams, Source(u) \/ Upstream(u) PROVE KeyMapSingleCopy'
  BY <1>6, KeyMapsKept, Zenon DEF Source, Upstream, Emit, BroadcastWatermark,
     HandleUpdateDownstreamRouting
<1>7. CASE Network
  BY <1>7, KeyMapsKept, ConnectPeerSingleCopy, Zenon
     DEF Network, ConnectUpstream, TimerTimeout
<1>8. CASE UNCHANGED vars
  BY <1>8, KeyMapsKept DEF vars
<1>9. CASE Halted
  BY <1>8, <1>9 DEF Halted
<1> QED
  BY <1>1, <1>2, <1>3, <1>4, <1>5, <1>6, <1>7, <1>8, <1>9 DEF Next

\* However rescales, connections and main loops interleave, and however closely
\* rescales follow each other, the key map of a bucket is in exactly one place:
\* one worker's key lookup table or one peer connection.
THEOREM LazyKeyMapSingleCopy == Spec => []KeyMapSingleCopy
  BY InitType, NextType, InitSingleCopy, NextSingleCopy, PTL DEF Spec

=============================================================================
