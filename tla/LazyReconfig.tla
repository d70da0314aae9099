---------------------------- MODULE LazyReconfig ----------------------------
(***************************************************************************)
(* The lazy reconfiguration protocol, key maps included ("by-key"): the    *)
(* coordinator's rescaleLazy, the control-plane handlers and the main loop *)
(* of every task of the rescaled operator, its Supplier and PeerCollector, *)
(* the KeybyCollectors of the upstream tasks, and the data channels that   *)
(* join them.                                                              *)
(*                                                                         *)
(* A key stands for one bucket.  A record is a number, its key and its     *)
(* event time; a batch is a set of records, as nothing depends on their    *)
(* order in it.  A step of the coordinator sends the same message to a set *)
(* of tasks and waits for all their acks, so the message in transit is the *)
(* current step and the tasks that did not ack yet.  The state fetches     *)
(* that processing a record may cause, the operator-specific fast-forward  *)
(* metadata and the eventual migration of removed tasks are not here.      *)
(*                                                                         *)
(* A new task starts with an empty map for each of its buckets; keyMap     *)
(* only counts the key maps with the locations of the keys, which arrive   *)
(* on the peer connections.  A record processed without it would find its  *)
(* key "new" and its state gone.                                           *)
(***************************************************************************)
EXTENDS Integers, Sequences, FiniteSets, FiniteSetsExt

CONSTANTS Upstreams,     \* tasks of the operator that feeds the rescaled one
          Workers,       \* workers that may run a task of the rescaled operator
          Keys,
          InitialTasks,  \* workers that run one when the job starts
          InitialTable,  \* and the owner of each key then
          Established,   \* whether the channels are connected by then
          Spaced,        \* whether a rescale is only requested once every task
                         \* has left the transition of the one before
          BatchSize,     \* records that fit in a pending batch
          MaxRescales,   \* bound: reconfigurations
          MaxRecords,    \* bound: records that are emitted
          MaxWatermark,  \* bound: the largest watermark of an upstream
          NoTable        \* the routing table of a task outside a transition

Tasks == Upstreams \cup Workers
Tables == [Keys -> Workers]
Links == Tasks \X Workers

ASSUME ConstantsAssumption ==
  /\ Upstreams \cap Workers = {}
  /\ Upstreams # {} /\ IsFiniteSet(Upstreams) /\ IsFiniteSet(Workers)
  /\ InitialTasks \subseteq Workers
  /\ InitialTable \in [Keys -> InitialTasks]
  /\ Established \in BOOLEAN /\ Spaced \in BOOLEAN
  /\ BatchSize \in Nat \ {0}
  /\ MaxRescales \in Nat /\ MaxRecords \in Nat /\ MaxWatermark \in Nat
  /\ NoTable \notin Tables

VARIABLES
  step,       \* the coordinator: the step of rescaleLazy it is at
  waiting,    \* tasks that have not acked the message of this step
  plan,       \* task placement and key partition, old and new
  rescales,   \* reconfigurations started
  cpc,        \* control thread of a worker inside HandleStartFastForward
  mpc,        \* main loop of a worker
  phase,      \* w.LazyProtocolPhase
  inTrans,    \* the main loop's local inTransition
  routing,    \* RoutingTable of a collector, or of a task in transition
  downs,      \* Downstreams of a KeybyCollector or a PeerCollector
  pending,    \* CurBatches
  conn,       \* state of each connection
  chan,       \* work units on each connection, output buffer to input buffer
  chWM,       \* the Supplier's watermark of each connection
  sup,        \* the other fields of the Supplier of each worker
  keyMap,     \* buckets whose key map is in a worker's key lookup table
  mapSent,    \* MigratingKeyMap units at the head of a peer connection
  wm,         \* last watermark of an upstream
  emitted,    \* history: number of records emitted
  processed,  \* history: records processed by their operator
  fatal       \* the log.Fatal that stopped a worker, if any

coordVars == <<step, waiting, plan, rescales>>
taskVars == <<cpc, mpc, phase, inTrans>>
sendVars == <<routing, downs, pending>>
netVars == <<conn, chan, chWM>>
keyVars == <<keyMap, mapSent>>
srcVars == <<wm, emitted>>
vars == <<coordVars, taskVars, sendVars, netVars, sup, keyVars, srcVars,
          processed, fatal>>

-----------------------------------------------------------------------------
Unset == -1

Records == [id : 1 .. MaxRecords, key : Keys, ts : 0 .. MaxWatermark + 1]

Batch(rs) == [type |-> "batch", recs |-> rs, wm |-> Unset]
Watermark(t) == [type |-> "watermark", recs |-> {}, wm |-> t]
Barrier == [type |-> "barrier", recs |-> {}, wm |-> Unset]
Termination == [type |-> "termination", recs |-> {}, wm |-> Unset]

Units == [type : {"batch", "watermark", "barrier", "termination"},
          recs : SUBSET Records, wm : Unset .. MaxWatermark]

NoBatches == [d \in Workers |-> {}]

\* A Supplier that expects n upstreams, b barriers and p peers.
NewSupplier(n, b, p) ==
  [expUpstreams |-> n, deployed |-> FALSE, shuttingDown |-> FALSE,
   expBarriers |-> b, barriers |-> 0, expPeers |-> p, peers |-> 0,
   allPeersConnected |-> FALSE, reconfigTerminated |-> FALSE,
   taskWM |-> Unset]

Init ==
  /\ step = "idle" /\ waiting = {} /\ rescales = 0
  /\ plan = [tasks |-> InitialTasks, table |-> InitialTable,
             newTasks |-> InitialTasks, newTable |-> InitialTable,
             available |-> Workers \ InitialTasks]
  /\ cpc = [w \in Workers |-> "idle"]
  /\ mpc = [w \in Workers |-> IF w \in InitialTasks THEN "top" ELSE "off"]
  /\ phase = [w \in Workers |-> 0]
  /\ inTrans = [w \in Workers |-> FALSE]
  /\ routing = [x \in Tasks |-> IF x \in Upstreams THEN InitialTable ELSE NoTable]
  /\ downs = [x \in Tasks |-> IF x \in Upstreams THEN InitialTasks ELSE {}]
  /\ pending = [x \in Tasks |-> NoBatches]
  /\ conn = [l \in Links |->
               IF l[1] \in Upstreams /\ l[2] \in InitialTasks
                 THEN IF Established THEN "open" ELSE "dialing"
                 ELSE "closed"]
  /\ chan = [l \in Links |-> <<>>]
  /\ chWM = [l \in Links |-> Unset]
  /\ sup = [w \in Workers |->
              IF w \in InitialTasks
                THEN [NewSupplier(Cardinality(Upstreams), -1, -1)
                        EXCEPT !.deployed = Established]
                ELSE NewSupplier(0, -1, -1)]
  /\ keyMap = [w \in Workers |-> {k \in Keys : InitialTable[k] = w}]
  /\ mapSent = [l \in Links |-> {}]
  /\ wm = [u \in Upstreams |-> 0]
  /\ emitted = 0 /\ processed = {} /\ fatal = "none"

-----------------------------------------------------------------------------
(***************************************************************************)
(* Coordinator: rescaleLazy.  The old and the new key partition determine  *)
(* who sends to whom (updateKeyPartition, GenerateMigrationPlan).          *)
(***************************************************************************)
Moved == {k \in Keys : plan.table[k] # plan.newTable[k]}
Senders == {plan.table[k] : k \in Moved}
Receivers == {plan.newTable[k] : k \in Moved}
PeersOf(s) == {plan.newTable[k] : k \in {j \in Moved : plan.table[j] = s}}
SourcesOf(d) == {s \in Senders : d \in PeersOf(s)}
NewTasks == plan.newTasks \ plan.tasks
Removed == plan.tasks \ plan.newTasks

\* Step 0 and the start of step 1.  New tasks run on workers that were never
\* used before and each gets some key; a scale-down keeps some of the tasks.
\* The partition policies are not modelled here: any new partition that moves
\* at least one key may be chosen.
OutOfTransition(w) == phase[w] = 0 /\ mpc[w] \in {"off", "top", "get"} /\ ~inTrans[w]

Rescale(newTasks, newTable) ==
  /\ step = "idle"
  /\ rescales < MaxRescales
  /\ Spaced => \A w \in Workers : OutOfTransition(w)
  /\ \/ plan.tasks \subseteq newTasks /\ newTasks \ plan.tasks \subseteq plan.available
     \/ newTasks \subseteq plan.tasks
  /\ newTasks # plan.tasks
  /\ newTable # plan.table
  /\ \A k \in Keys : newTable[k] \in newTasks
  /\ \A w \in newTasks \ plan.tasks : \E k \in Keys : newTable[k] = w
  /\ plan' = [plan EXCEPT !.newTasks = newTasks, !.newTable = newTable,
                          !.available = @ \ newTasks]
  /\ rescales' = rescales + 1
  /\ step' = "init"
  /\ waiting' = plan.tasks \cup newTasks
  /\ UNCHANGED <<taskVars, sendVars, netVars, sup, keyVars, srcVars, processed, fatal>>

\* When every task has acked, the message of the next step goes out.
Advance(from, to, targets) ==
  /\ step = from /\ waiting = {}
  /\ step' = to
  /\ waiting' = targets
  /\ UNCHANGED <<plan, rescales, taskVars, sendVars, netVars, sup, keyVars,
                 srcVars, processed, fatal>>

StartFastForward == Advance("init", "fastForward", Senders)
FaultNoPeerWait == Advance("fastForward", "peers", {})
WaitAllInboundPeersToConnect == Advance("fastForward", "peers", Receivers)
NotifyUpstreamTasks == Advance("peers", "routing", Upstreams)
WaitAllTasksReconfigDone == Advance("routing", "done", plan.tasks \cup plan.newTasks)
TerminateTasks == Advance("done", "stop", Removed)

\* The end of terminateTasks: the task placement plan is updated.
FinishRescale ==
  /\ step = "stop" /\ waiting = {}
  /\ step' = "idle"
  /\ plan' = [plan EXCEPT !.tasks = plan.newTasks, !.table = plan.newTable]
  /\ UNCHANGED <<waiting, rescales, taskVars, sendVars, netVars, sup, keyVars,
                 srcVars, processed, fatal>>

Ack(t) == waiting' = waiting \ {t} /\ UNCHANGED <<step, plan, rescales>>

\* log.Fatal for a reason unless ok.
Require(ok, reason) == fatal' = IF ok THEN fatal ELSE reason

-----------------------------------------------------------------------------
(* Control plane of the workers.                                           *)

HandleTaskAssignment(w) ==
  /\ step = "init" /\ w \in waiting \cap NewTasks
  /\ sup' = [sup EXCEPT ![w] =
       NewSupplier(Cardinality(Upstreams) + Cardinality(SourcesOf(w)),
                   Cardinality(Upstreams), Cardinality(SourcesOf(w)))]
  /\ mpc' = [mpc EXCEPT ![w] = "top"]
  /\ Ack(w)
  /\ UNCHANGED <<cpc, phase, inTrans, sendVars, netVars, keyVars, srcVars,
                 processed, fatal>>

\* An existing task that receives no key expects no peers (-1).
FaultNoPeersExpected(w) ==
  /\ step = "init" /\ w \in waiting \ NewTasks
  /\ Require(sup[w].expBarriers = -1 /\ sup[w].expPeers = -1, "metadata not clean")
  /\ sup' = [sup EXCEPT ![w].expBarriers = Cardinality(Upstreams),
                        ![w].shuttingDown = @ \/ w \in Removed]
  /\ Ack(w)
  /\ UNCHANGED <<taskVars, sendVars, netVars, keyVars, srcVars, processed>>

HandleInitLazyReconfig(w) ==
  /\ step = "init" /\ w \in waiting \ NewTasks
  /\ Require(sup[w].expBarriers = -1 /\ sup[w].expPeers = -1, "metadata not clean")
  /\ sup' = [sup EXCEPT
       ![w].expBarriers = Cardinality(Upstreams),
       ![w].expPeers = IF w \in Receivers THEN Cardinality(SourcesOf(w)) ELSE -1,
       ![w].shuttingDown = @ \/ w \in Removed]
  /\ Ack(w)
  /\ UNCHANGED <<taskVars, sendVars, netVars, keyVars, srcVars, processed>>

\* PrepareLazyProtocol: the routing table is set and the PeerCollector
\* activated; its network routines dial the peers on their own.
HandleStartFastForward(w) ==
  /\ step = "fastForward" /\ w \in waiting /\ cpc[w] = "idle"
  /\ Require(phase[w] = 0, "already in reconfiguration phase")
  /\ routing' = [routing EXCEPT ![w] = plan.newTable]
  /\ downs' = [downs EXCEPT ![w] = PeersOf(w)]
  /\ pending' = [pending EXCEPT ![w] = NoBatches]
  /\ conn' = [l \in Links |-> IF l[1] = w /\ l[2] \in PeersOf(w) THEN "dialing" ELSE conn[l]]
  /\ cpc' = [cpc EXCEPT ![w] = "prepared"]
  /\ UNCHANGED <<coordVars, mpc, phase, inTrans, chan, chWM, sup, keyVars,
                 srcVars, processed>>

SetLazyProtocolPhase(w) ==
  /\ cpc[w] = "prepared"
  /\ phase' = [phase EXCEPT ![w] = 1]
  /\ cpc' = [cpc EXCEPT ![w] = "waitStart"]
  /\ UNCHANGED <<coordVars, mpc, inTrans, sendVars, netVars, sup, keyVars,
                 srcVars, processed, fatal>>

\* ReconfigStartChan is unbuffered: NotifyReconfigStart in the main loop and
\* WaitReconfigStart in the control thread meet, and the coordinator is acked.
ReconfigStart(w) ==
  /\ cpc[w] = "waitStart" /\ mpc[w] = "notify"
  /\ cpc' = [cpc EXCEPT ![w] = "idle"]
  /\ mpc' = [mpc EXCEPT ![w] = "announce"]
  /\ Ack(w)
  /\ UNCHANGED <<phase, inTrans, sendVars, netVars, sup, keyVars, srcVars,
                 processed, fatal>>

HandleWaitInboundPeers(w) ==
  /\ step = "peers" /\ w \in waiting
  /\ sup[w].allPeersConnected
  /\ sup' = [sup EXCEPT ![w].allPeersConnected = FALSE]
  /\ Ack(w)
  /\ UNCHANGED <<taskVars, sendVars, netVars, keyVars, srcVars, processed, fatal>>

FaultFlagNotReset(w) ==
  /\ step = "done" /\ w \in waiting
  /\ sup[w].reconfigTerminated
  /\ Ack(w)
  /\ UNCHANGED <<taskVars, sendVars, netVars, sup, keyVars, srcVars, processed, fatal>>

HandleWaitReconfigDone(w) ==
  /\ step = "done" /\ w \in waiting
  /\ sup[w].reconfigTerminated
  /\ sup' = [sup EXCEPT ![w].reconfigTerminated = FALSE]
  /\ Ack(w)
  /\ UNCHANGED <<taskVars, sendVars, netVars, keyVars, srcVars, processed, fatal>>

\* The main loop of a terminated task keeps running.
HandleTerminate(w) ==
  /\ step = "stop" /\ w \in waiting
  /\ sup' = [sup EXCEPT ![w].shuttingDown = TRUE]
  /\ Ack(w)
  /\ UNCHANGED <<taskVars, sendVars, netVars, keyVars, srcVars, processed, fatal>>

-----------------------------------------------------------------------------
(***************************************************************************)
(* Sending: collectors push to the channels of their Downstreams.          *)
(***************************************************************************)

\* c with unit added to the channels from x to ds.
PushTo(c, x, ds, unit) ==
  [l \in Links |-> IF l[1] = x /\ l[2] \in ds THEN Append(c[l], unit) ELSE c[l]]

\* c with the pending batches of x, b, flushed.
Flush(c, x, b) ==
  [l \in Links |-> IF l[1] = x /\ b[l[2]] # {} THEN Append(c[l], Batch(b[l[2]])) ELSE c[l]]

\* Emitting r to d: a full pending batch is flushed first.
FaultFullReplaced(x, d, r) ==
  LET full == Cardinality(pending[x][d]) >= BatchSize
  IN  /\ pending' = [pending EXCEPT ![x][d] = IF full THEN {r} ELSE @ \cup {r}]
      /\ UNCHANGED chan

EmitTo(x, d, r) ==
  LET full == Cardinality(pending[x][d]) >= BatchSize
  IN  /\ chan' = IF full THEN [chan EXCEPT ![<<x, d>>] = Append(@, Batch(pending[x][d]))]
                         ELSE chan
      /\ pending' = [pending EXCEPT ![x][d] = IF full THEN {r} ELSE @ \cup {r}]

\* KeybyCollector.Emit: a record of some key, on time at this upstream.
Emit(u, k) ==
  /\ emitted < MaxRecords
  /\ emitted' = emitted + 1
  /\ EmitTo(u, routing[u][k], [id |-> emitted + 1, key |-> k, ts |-> wm[u] + 1])
  /\ UNCHANGED <<coordVars, taskVars, routing, downs, conn, chWM, sup, keyVars,
                 wm, processed, fatal>>

\* monitorTimerTimeout of a KeybyCollector or a PeerCollector.
TimerTimeout(x) ==
  /\ pending[x] # NoBatches
  /\ chan' = Flush(chan, x, pending[x])
  /\ pending' = [pending EXCEPT ![x] = NoBatches]
  /\ UNCHANGED <<coordVars, taskVars, routing, downs, conn, chWM, sup, keyVars,
                 srcVars, processed, fatal>>

BroadcastWatermark(u) ==
  /\ wm[u] < MaxWatermark
  /\ wm' = [wm EXCEPT ![u] = @ + 1]
  /\ chan' = PushTo(Flush(chan, u, pending[u]), u, downs[u], Watermark(wm[u] + 1))
  /\ pending' = [pending EXCEPT ![u] = NoBatches]
  /\ UNCHANGED <<coordVars, taskVars, routing, downs, conn, chWM, sup, keyVars,
                 emitted, processed, fatal>>

\* What KeybyCollector.UpdateRouting puts on the channels: pending batches, a
\* barrier to old and new downstreams, and the end of the removed ones.
FaultBarrierFirst(u) ==
  LET barred == PushTo(chan, u, downs[u] \cup NewTasks, Barrier)
  IN  PushTo(Flush(barred, u, pending[u]), u, Removed, Termination)

FaultNoFlush(u) ==
  PushTo(PushTo(chan, u, downs[u] \cup NewTasks, Barrier), u, Removed, Termination)

Rerouted(u) ==
  LET flushed == Flush(chan, u, pending[u])
  IN  PushTo(PushTo(flushed, u, downs[u] \cup NewTasks, Barrier), u, Removed, Termination)

\* All of it happens under the collector's lock.
HandleUpdateDownstreamRouting(u) ==
  /\ step = "routing" /\ u \in waiting
  /\ chan' = Rerouted(u)
  /\ downs' = [downs EXCEPT ![u] = (@ \cup NewTasks) \ Removed]
  /\ conn' = [l \in Links |-> IF l[1] = u /\ l[2] \in NewTasks THEN "dialing" ELSE conn[l]]
  /\ routing' = [routing EXCEPT ![u] = plan.newTable]
  /\ pending' = [pending EXCEPT ![u] = NoBatches]
  /\ Ack(u)
  /\ UNCHANGED <<taskVars, chWM, sup, keyVars, srcVars, processed, fatal>>

-----------------------------------------------------------------------------
(***************************************************************************)
(* Supplier: new connections, and the preprocessing of work units.         *)
(***************************************************************************)
Open(w, c) == {x \in Tasks : c[<<x, w>>] = "open"}

\* Supplier fields of w once n channels are connected.
Connected(s, n) == [s EXCEPT !.deployed = @ \/ n = s.expUpstreams]

\* The same, when one of them is a new peer connection.
PeerConnected(s, n) ==
  LET new == [Connected(s, n) EXCEPT !.peers = @ + 1]
  IN  IF new.peers = new.expPeers
        THEN [new EXCEPT !.expPeers = -2, !.allPeersConnected = TRUE]
        ELSE new

\* InitNewUpstream for a regular channel.
ConnectUpstream(u, w) ==
  /\ conn[<<u, w>>] = "dialing" /\ mpc[w] # "off"
  /\ conn' = [conn EXCEPT ![<<u, w>>] = "open"]
  /\ sup' = [sup EXCEPT ![w] = Connected(@, Cardinality(Open(w, conn')))]
  /\ UNCHANGED <<coordVars, taskVars, sendVars, chan, chWM, keyVars, srcVars,
                 processed, fatal>>

\* InitNewUpstream for a peer channel: the key maps are read first, and go
\* into the key lookup table before the channel is added.
ConnectPeer(s, w) ==
  /\ conn[<<s, w>>] = "dialing" /\ mapSent[<<s, w>>] # {}
  /\ conn' = [conn EXCEPT ![<<s, w>>] = "open"]
  /\ keyMap' = [keyMap EXCEPT ![w] = @ \cup mapSent[<<s, w>>]]
  /\ mapSent' = [mapSent EXCEPT ![<<s, w>>] = {}]
  /\ Require(sup[w].expPeers > 0, "unexpected inbound peer connection")
  /\ sup' = [sup EXCEPT ![w] = PeerConnected(@, Cardinality(Open(w, conn')))]
  /\ UNCHANGED <<coordVars, taskVars, sendVars, chan, chWM, srcVars, processed>>

\* The main loop at GetWorkUnit reads the next unit from x.
Reads(w, x, type) ==
  /\ mpc[w] = "get" /\ conn[<<x, w>>] = "open"
  /\ chan[<<x, w>>] # <<>>
  /\ Head(chan[<<x, w>>]).type = type

Rest(x, w) == [chan EXCEPT ![<<x, w>>] = Tail(@)]

\* Whether the task watermark of w progresses, and to what, for the open
\* channels open and their watermarks c.
Progresses(w, open, c) ==
  /\ open # {} /\ \A x \in open : c[<<x, w>>] # Unset
  /\ Min({c[<<x, w>>] : x \in open}) > sup[w].taskWM

\* BroadcastWatermarkToPeers; c is the state of the channels.  The main loop
\* forwards a progressed watermark if the task is in transition.
FaultWatermarkFirst(w, t, c) ==
  /\ chan' = PushTo(c, w, downs[w], Watermark(t))
  /\ UNCHANGED pending

BroadcastToPeers(w, t, c) ==
  /\ chan' = PushTo(Flush(c, w, pending[w]), w, downs[w], Watermark(t))
  /\ pending' = [pending EXCEPT ![w] = NoBatches]

ForwardWatermark(w, t, c) ==
  IF inTrans[w] THEN BroadcastToPeers(w, t, c) ELSE chan' = c /\ UNCHANGED pending

-----------------------------------------------------------------------------
(* Main loop of the workers.                                               *)

\* updateInTransitionFlag: only the start of a transition needs more steps.
UpdateInTransitionFlag(w) ==
  /\ mpc[w] = "top"
  /\ mpc' = [mpc EXCEPT ![w] = IF phase[w] = 1 /\ ~inTrans[w] THEN "notify" ELSE "get"]
  /\ inTrans' = [inTrans EXCEPT ![w] = @ /\ phase[w] = 1]
  /\ UNCHANGED <<coordVars, cpc, phase, sendVars, netVars, sup, keyVars, srcVars,
                 processed, fatal>>

\* SerializeMigratingKeyMaps: the key maps that leave w, and those that stay.
Leaving(w) == {k \in keyMap[w] : routing[w] # NoTable /\ routing[w][k] # w}
FaultMapsKept(w) == keyMap[w]
Staying(w) == keyMap[w] \ Leaving(w)

\* ConstructAndSendKeyMaps and BroadcastWatermarkToPeers(nil).
EnterTransition(w) ==
  /\ mpc[w] = "announce"
  /\ Require(routing[w] # NoTable /\ \A k \in Leaving(w) : routing[w][k] \in downs[w],
             "peer not found")
  /\ mapSent' = [l \in Links |->
       mapSent[l] \cup {k \in Leaving(w) : l[1] = w /\ routing[w][k] = l[2]}]
  /\ keyMap' = [keyMap EXCEPT ![w] = Staying(w)]
  /\ IF sup[w].taskWM = Unset
       THEN UNCHANGED <<chan, pending>>
       ELSE BroadcastToPeers(w, sup[w].taskWM, chan)
  /\ inTrans' = [inTrans EXCEPT ![w] = TRUE]
  /\ mpc' = [mpc EXCEPT ![w] = "get"]
  /\ UNCHANGED <<coordVars, cpc, phase, routing, downs, conn, chWM, sup, srcVars, processed>>

\* The batches that can get full when records are added to the pending batch b,
\* which makes it joined.  Neither b nor what is added has more than BatchSize
\* records, so there is at most one, and it starts with b.
Filled(b, joined) ==
  IF Cardinality(joined) > BatchSize
    THEN {s \in SUBSET joined : b \subseteq s /\ Cardinality(s) = BatchSize}
    ELSE {{}}

\* FastForward, then ProcessBatch for what stays.
ReceiveBatch(x, w) ==
  /\ Reads(w, x, "batch")
  /\ LET recs == Head(chan[<<x, w>>]).recs
         owner(r) == IF inTrans[w] THEN routing[w][r.key] ELSE w
         leave(d) == {r \in recs : owner(r) = d /\ d # w}
         joined(d) == pending[w][d] \cup leave(d)
     IN  IF inTrans[w] /\ routing[w] = NoTable
           THEN /\ fatal' = "peer not found"
                /\ UNCHANGED <<processed, chan, pending, mpc>>
           ELSE \E sent \in [Workers -> SUBSET UNION {joined(d) : d \in Workers}] :
                /\ \A d \in Workers : sent[d] \in Filled(pending[w][d], joined(d))
                /\ processed' = processed \cup {r \in recs : owner(r) = w}
                /\ Require(\A d \in Workers : leave(d) # {} => d \in downs[w], "peer not found")
                /\ chan' = Flush(Rest(x, w), w, sent)
                /\ pending' = [pending EXCEPT ![w] = [d \in Workers |-> joined(d) \ sent[d]]]
                /\ mpc' = [mpc EXCEPT ![w] = "top"]
  /\ UNCHANGED <<coordVars, cpc, phase, inTrans, routing, downs, conn, chWM, sup,
                 keyVars, srcVars>>

\* A batch of records that are not followed individually: all it does here is
\* to make the main loop go round.
ReceiveOtherBatch(w) ==
  /\ mpc[w] = "get" /\ \E u \in Upstreams : conn[<<u, w>>] = "open"
  /\ mpc' = [mpc EXCEPT ![w] = "top"]
  /\ UNCHANGED <<coordVars, cpc, phase, inTrans, sendVars, netVars, sup, keyVars,
                 srcVars, processed, fatal>>

ReceiveWatermark(x, w) ==
  /\ Reads(w, x, "watermark")
  /\ LET t == Head(chan[<<x, w>>]).wm
     IN  /\ Require(t > chWM[<<x, w>>], "watermark does not progress")
         /\ chWM' = [chWM EXCEPT ![<<x, w>>] = t]
  /\ LET open == Open(w, conn)
         t == Min({chWM'[<<y, w>>] : y \in open})
     IN  IF sup[w].deployed /\ Progresses(w, open, chWM')
           THEN /\ sup' = [sup EXCEPT ![w].taskWM = t]
                /\ ForwardWatermark(w, t, Rest(x, w))
                /\ mpc' = [mpc EXCEPT ![w] = "top"]
           ELSE /\ chan' = Rest(x, w)
                /\ UNCHANGED <<sup, pending, mpc>>
  /\ UNCHANGED <<coordVars, cpc, phase, inTrans, routing, downs, conn, keyVars,
                 srcVars, processed>>

\* The Supplier after handleInflightBarrier.  Termination of the
\* reconfiguration is signalled before the main loop leaves the transition.
Aligned(s) == s.barriers + 1 = s.expBarriers

FaultCountedDown(s) == [s EXCEPT !.barriers = @ - 1]

BarrierReceived(s) ==
  IF Aligned(s)
    THEN [s EXCEPT !.barriers = 0, !.expBarriers = -1,
                   !.reconfigTerminated = @ \/ s.expPeers = -1]
    ELSE [s EXCEPT !.barriers = @ + 1]

ReceiveBarrier(x, w) ==
  /\ Reads(w, x, "barrier")
  /\ Require(sup[w].expBarriers > 0, "unexpected InflightBarrier received")
  /\ sup' = [sup EXCEPT ![w] = BarrierReceived(@)]
  /\ mpc' = [mpc EXCEPT ![w] =
       IF ~Aligned(sup[w]) THEN @ ELSE IF inTrans[w] THEN "exit" ELSE "top"]
  /\ chan' = Rest(x, w)
  /\ UNCHANGED <<coordVars, cpc, phase, inTrans, sendVars, conn, chWM, keyVars,
                 srcVars, processed>>

\* exitTransitionPhase, in the four steps the control thread can see.
ExitTransitionPhase(w) ==
  /\ mpc[w] = "exit"
  /\ phase' = [phase EXCEPT ![w] = 0]
  /\ mpc' = [mpc EXCEPT ![w] = "dropTable"]
  /\ UNCHANGED <<coordVars, cpc, inTrans, sendVars, netVars, sup, keyVars, srcVars,
                 processed, fatal>>

DropRoutingTable(w) ==
  /\ mpc[w] = "dropTable"
  /\ routing' = [routing EXCEPT ![w] = NoTable]
  /\ mpc' = [mpc EXCEPT ![w] = "deactivate"]
  /\ UNCHANGED <<coordVars, cpc, phase, inTrans, downs, pending, netVars, sup,
                 keyVars, srcVars, processed, fatal>>

\* PeerCollector.Deactivate, and its last two assignments.
FaultPendingDropped(w) ==
  /\ mpc[w] = "deactivate"
  /\ chan' = PushTo(chan, w, downs[w], Termination)
  /\ pending' = [pending EXCEPT ![w] = NoBatches]
  /\ mpc' = [mpc EXCEPT ![w] = "release"]
  /\ UNCHANGED <<coordVars, cpc, phase, inTrans, routing, downs, conn, chWM, sup,
                 keyVars, srcVars, processed, fatal>>

Deactivate(w) ==
  /\ mpc[w] = "deactivate"
  /\ chan' = PushTo(Flush(chan, w, pending[w]), w, downs[w], Termination)
  /\ pending' = [pending EXCEPT ![w] = NoBatches]
  /\ mpc' = [mpc EXCEPT ![w] = "release"]
  /\ UNCHANGED <<coordVars, cpc, phase, inTrans, routing, downs, conn, chWM, sup,
                 keyVars, srcVars, processed, fatal>>

ReleasePeers(w) ==
  /\ mpc[w] = "release"
  /\ downs' = [downs EXCEPT ![w] = {}]
  /\ pending' = [pending EXCEPT ![w] = NoBatches]
  /\ mpc' = [mpc EXCEPT ![w] = "top"]
  /\ UNCHANGED <<coordVars, cpc, phase, inTrans, routing, netVars, sup, keyVars,
                 srcVars, processed, fatal>>

\* The Supplier after the end of a peer connection.
FaultNoSignal(s) ==
  IF s.peers = 1 THEN [s EXCEPT !.peers = 0, !.expPeers = -1] ELSE [s EXCEPT !.peers = @ - 1]

PeerClosed(s) ==
  IF s.peers = 1
    THEN [s EXCEPT !.peers = 0, !.expPeers = -1,
                   !.reconfigTerminated = @ \/ s.expBarriers = -1]
    ELSE [s EXCEPT !.peers = @ - 1]

\* A connection is closed: by an upstream that removed this task, or by a peer
\* that left its transition.
ReceiveTermination(x, w) ==
  /\ Reads(w, x, "termination")
  /\ LET open == Open(w, conn)
         remaining == open \ {x}
         t == Min({chWM[<<y, w>>] : y \in remaining})
         reason == IF ~sup[w].deployed THEN "task deployment phase not passed"
                   ELSE IF remaining = {} /\ ~sup[w].shuttingDown
                     THEN "removed the last upstream"
                   ELSE IF x \in Workers /\ sup[w].expPeers # -2
                     THEN "unexpected inbound peer termination"
                   ELSE "none"
         closed == IF x \in Workers THEN PeerClosed(sup[w]) ELSE sup[w]
     IN  IF reason # "none"
           THEN /\ fatal' = reason
                /\ UNCHANGED <<conn, chan, chWM, sup, pending, mpc>>
           ELSE /\ conn' = [conn EXCEPT ![<<x, w>>] = "closed"]
                /\ chWM' = [chWM EXCEPT ![<<x, w>>] = Unset]
                /\ IF x \in Workers /\ Progresses(w, remaining, chWM)
                     THEN /\ sup' = [sup EXCEPT ![w] = [closed EXCEPT !.taskWM = t]]
                          /\ ForwardWatermark(w, t, Rest(x, w))
                          /\ mpc' = [mpc EXCEPT ![w] = "top"]
                     ELSE /\ sup' = [sup EXCEPT ![w] = closed]
                          /\ chan' = Rest(x, w)
                          /\ UNCHANGED <<pending, mpc>>
                /\ UNCHANGED fatal
  /\ UNCHANGED <<coordVars, cpc, phase, inTrans, routing, downs, keyVars, srcVars, processed>>

-----------------------------------------------------------------------------
\* Nothing happens after a log.Fatal.
Running == fatal = "none"
Halted == ~Running /\ UNCHANGED vars

Request ==
  Running /\ \E newTasks \in SUBSET Workers, newTable \in Tables : Rescale(newTasks, newTable)

Coordinator ==
  Running /\ \/ StartFastForward \/ WaitAllInboundPeersToConnect \/ NotifyUpstreamTasks
             \/ WaitAllTasksReconfigDone \/ TerminateTasks \/ FinishRescale

ControlPlane(w) ==
  Running /\ \/ HandleTaskAssignment(w) \/ HandleInitLazyReconfig(w)
             \/ HandleStartFastForward(w) \/ SetLazyProtocolPhase(w)
             \/ HandleWaitInboundPeers(w) \/ HandleWaitReconfigDone(w) \/ HandleTerminate(w)

MainLoop(w) ==
  Running /\ \/ UpdateInTransitionFlag(w) \/ ReconfigStart(w) \/ EnterTransition(w)
             \/ ExitTransitionPhase(w) \/ DropRoutingTable(w) \/ Deactivate(w)
             \/ ReleasePeers(w) \/ ReceiveOtherBatch(w)

Receive(x, w) ==
  Running /\ \/ ReceiveBatch(x, w) \/ ReceiveWatermark(x, w)
             \/ ReceiveBarrier(x, w) \/ ReceiveTermination(x, w)

Network ==
  Running /\ \/ \E u \in Upstreams, w \in Workers : ConnectUpstream(u, w)
             \/ \E s, w \in Workers : ConnectPeer(s, w)
             \/ \E x \in Tasks : TimerTimeout(x)

Source(u) == Running /\ ((\E k \in Keys : Emit(u, k)) \/ BroadcastWatermark(u))

Upstream(u) == Running /\ HandleUpdateDownstreamRouting(u)

Next ==
  \/ Request \/ Coordinator
  \/ \E w \in Workers : ControlPlane(w) \/ MainLoop(w)
  \/ \E x \in Tasks, w \in Workers : Receive(x, w)
  \/ \E u \in Upstreams : Source(u) \/ Upstream(u)
  \/ Network
  \/ Halted

Spec == Init /\ [][Next]_vars

\* Every thread and network routine runs.  GetWorkUnit polls the channels round
\* robin, so a channel that has data again and again is read; the sources do
\* not dry up (ReceiveOtherBatch); pending batches time out.
FairSpec ==
  /\ Spec
  /\ WF_vars(Coordinator)
  /\ WF_vars(\E u \in Upstreams : Upstream(u))
  /\ WF_vars(Network)
  /\ \A w \in Workers : WF_vars(ControlPlane(w)) /\ WF_vars(MainLoop(w))
  /\ \A x \in Tasks, w \in Workers : SF_vars(Receive(x, w))

-----------------------------------------------------------------------------
(***************************************************************************)
(* Properties                                                              *)
(***************************************************************************)
Steps == {"idle", "init", "fastForward", "peers", "routing", "done", "stop"}

Suppliers ==
  [expUpstreams : Nat, deployed : BOOLEAN, shuttingDown : BOOLEAN,
   expBarriers : Int, barriers : Nat, expPeers : Int, peers : Int,
   allPeersConnected : BOOLEAN, reconfigTerminated : BOOLEAN,
   taskWM : Unset .. MaxWatermark]

Plans == [tasks : SUBSET Workers, table : Tables, newTasks : SUBSET Workers,
          newTable : Tables, available : SUBSET Workers]

CoordType == /\ step \in Steps /\ waiting \subseteq Tasks /\ plan \in Plans
             /\ rescales \in 0 .. MaxRescales

TaskType ==
  /\ cpc \in [Workers -> {"idle", "prepared", "waitStart"}]
  /\ mpc \in [Workers -> {"off", "top", "notify", "announce", "get", "exit",
                          "dropTable", "deactivate", "release"}]
  /\ phase \in [Workers -> {0, 1}] /\ inTrans \in [Workers -> BOOLEAN]

SendType == /\ routing \in [Tasks -> Tables \cup {NoTable}]
            /\ downs \in [Tasks -> SUBSET Workers]
            /\ pending \in [Tasks -> [Workers -> SUBSET Records]]

NetType == /\ conn \in [Links -> {"closed", "dialing", "open"}]
           /\ chan \in [Links -> Seq(Units)]
           /\ chWM \in [Links -> Unset .. MaxWatermark]

SupType == sup \in [Workers -> Suppliers]

KeyType == keyMap \in [Workers -> SUBSET Keys] /\ mapSent \in [Links -> SUBSET Keys]

SrcType == wm \in [Upstreams -> 0 .. MaxWatermark] /\ emitted \in 0 .. MaxRecords

\* Type invariant of the coordinator, the workers, the channels and the sources.
TypeOK == /\ CoordType /\ TaskType /\ SendType /\ NetType /\ SupType /\ KeyType
          /\ SrcType /\ processed \subseteq Records

\* The records that some collector or channel holds.
InFlight ==
  (UNION {pending[x][d] : x \in Tasks, d \in Workers})
    \cup (UNION {UNION {chan[l][i].recs : i \in DOMAIN chan[l]} : l \in Links})

\* The owner of a key is the worker whose key lookup table has its key map.
Owner == [k \in Keys |->
  IF \E w \in Workers : k \in keyMap[w]
    THEN CHOOSE w \in Workers : k \in keyMap[w]
    ELSE "moving"]

Ownership == INSTANCE KeyOwnership
  WITH Moving <- "moving", owner <- Owner, inFlight <- InFlight, done <- processed

\* Single writer, exactly once, nothing lost: a record is processed only where
\* the key map of its key is at that moment, once, and is in some batch until
\* then (HandleStartFastForward: "the main routine has stopped processing
\* transferred keys and guarantee single-writer").
ImplementsOwnership == Ownership!Spec

\* Every bucket's key map is in exactly one place, a worker's key lookup table
\* or one peer connection: SerializeMigratingKeyMaps keeps "a single copy as
\* the ground truth".
KeyMapSingleCopy ==
  \A k \in Keys :
    \/ /\ \E w \in Workers : \A v \in Workers : k \in keyMap[v] <=> v = w
       /\ \A l \in Links : k \notin mapSent[l]
    \/ /\ \A w \in Workers : k \notin keyMap[w]
       /\ \E l \in Links : \A m \in Links : k \in mapSent[m] <=> m = l

\* No protocol check of the worker, the Supplier or the PeerCollector fails.
\* The deployment-phase check is the exception the code itself names.
NoProtocolError == fatal \in {"none", "task deployment phase not passed"}

\* When a reconfiguration is over, the placement and partition of the
\* coordinator are what the data plane uses: the upstreams route by the same
\* table to the same tasks, each task holds the key maps of its keys, and no
\* peer connection or reconfiguration metadata is left over.
CleanWhenIdle ==
  step = "idle" /\ fatal = "none" =>
    /\ \A u \in Upstreams : routing[u] = plan.table /\ downs[u] = plan.tasks
    /\ \A w \in Workers : keyMap[w] = {k \in Keys : plan.table[k] = w}
    /\ \A s, w \in Workers : conn[<<s, w>>] = "closed" /\ chan[<<s, w>>] = <<>>
    /\ \A w \in plan.tasks :
         /\ sup[w].expBarriers = -1 /\ sup[w].expPeers = -1 /\ sup[w].peers = 0
         /\ ~sup[w].allPeersConnected /\ ~sup[w].reconfigTerminated

\* A task is only stopped when no record is on its way to it.
RemovedTaskDrained ==
  step = "stop" =>
    \A w \in Removed, x \in Tasks :
      /\ pending[x][w] = {}
      /\ \A i \in DOMAIN chan[<<x, w>>] : chan[<<x, w>>][i].type # "batch"

\* A task watermark says that every record with an earlier event time has
\* arrived: when it progresses at w, no record in flight of a key that w owns
\* has such a time.
WatermarkComplete ==
  [][\A w \in Workers : sup'[w].taskWM > sup[w].taskWM =>
       \A r \in InFlight' : r.key \in keyMap'[w] => r.ts > sup'[w].taskWM]_vars

\* A reconfiguration that was started ends (unless a worker gave up).
RescaleTerminates == step # "idle" ~> step = "idle" \/ fatal # "none"

\* Every record that was emitted is processed at last, wherever the
\* reconfigurations sent it on its way.
RecordsProcessed ==
  \A i \in 1 .. MaxRecords :
    emitted >= i ~> (\E r \in processed : r.id = i) \/ fatal # "none"

\* While the control thread waits for a reconfiguration to be noticed, a main
\* loop that reads input does not take itself to be in transition already
\* (updateInTransitionFlag: "If the reconfiguration is just started, notify the
\* control plane").  Does not hold when rescales follow each other closely.
StartNoticed ==
  \A w \in Workers : cpc[w] = "waitStart" /\ phase[w] = 1 /\ mpc[w] = "get" => ~inTrans[w]

\* No worker gives up because a peer connection ends before all upstreams of a
\* new task are connected (preprocessWorkUnit: "shouldn't remove an upstream
\* while TaskDeploymentPhase is not passed").  Does not hold.
DeploymentPassedFirst == fatal # "task deployment phase not passed"

\* The task watermark does not progress before all upstreams are connected
\* (handleWatermark: "The TaskWatermark should not progress until all upstreams
\* are connected").  Does not hold while a job is still connecting.
WatermarkAwaitsUpstreams ==
  [][\A w \in Workers : sup'[w].taskWM > sup[w].taskWM =>
       \A u \in Upstreams : conn[<<u, w>>] # "dialing"]_vars
=============================================================================
