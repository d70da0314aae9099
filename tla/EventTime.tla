----------------------------- MODULE EventTime ------------------------------
(***************************************************************************)
(* What the window operators have in common: records with event times, the *)
(* watermark generator of their source, the progress of the task           *)
(* watermarks, and keys that change hands with their part of the metadata  *)
(* a task has in memory.                                                   *)
(*                                                                         *)
(* LazyReconfig and StopRestart are about how keys change hands and        *)
(* StateService is about how state does; here a key is owned, or on its    *)
(* way, and its state goes with it.  After a stop-and-restart move the     *)
(* source keeps its copy.  A task watermark is at most the last one of the *)
(* source, and WatermarkComplete of LazyReconfig holds.                    *)
(***************************************************************************)
EXTENDS Integers, FiniteSets, FiniteSetsExt, Bags

CONSTANTS Workers, Keys,
          JsonKey,      \* a key after json.Marshal and Unmarshal
          Jobs,         \* operator, its duration and slide, protocol, delay, bounds
          MaxTime,      \* bound: the last event time
          BatchSize,    \* bound: records in a batch
          Moving

Times == 0 .. MaxTime
NoTime == -1 - MaxTime

JobType == [op : {"tumbling", "sliding", "join"}, duration : Nat \ {0}, slide : Nat \ {0},
            protocol : {"lazy", "stop-and-restart"}, returns : BOOLEAN,
            delay : Times, keys : SUBSET Keys, records : Nat, rescales : Nat]

ASSUME ConstantsAssumption ==
  /\ IsFiniteSet(Workers) /\ Moving \notin Workers /\ JsonKey \in [Keys -> Keys]
  /\ MaxTime \in Nat \ {0, 1} /\ BatchSize \in Nat \ {0}
  /\ Jobs \subseteq JobType /\ \A j \in Jobs : j.duration % j.slide = 0

VARIABLES
  job,      \* the operator of this behaviour, and its configuration
  source,   \* PeriodicWatermarkGenerator: CurrentMaxTime, LastGeneratedTime
  pending,  \* records that were emitted and not processed
  wm,       \* TaskWatermark of each task
  owner,    \* the task that owns a key, or Moving
  target,   \* the owners after the reconfiguration
  transit,  \* metadata on its way
  index,    \* active windows or timers of each task
  store,    \* window or simple state, with each worker
  done,     \* history: records processed
  fired,    \* history: windows or timers that fired
  counted,  \* history: records in the results of a window or timer, as a bag
  moves     \* history: reconfigurations, and the owners a key has had

vars == <<job, source, pending, wm, owner, target, transit, index, store, done, fired,
          counted, moves>>

Lazy == job.protocol = "lazy"
Init ==
  /\ job \in Jobs
  /\ source = [max |-> -1, last |-> -1]
  /\ pending = {} /\ transit = {}
  /\ wm = [w \in Workers |-> NoTime]
  /\ owner \in [job.keys -> Workers] /\ target = owner
  /\ index = [w \in Workers |-> EmptyBag]
  /\ store = [w \in Workers |-> [x \in job.keys \X Times |-> {}]]
  /\ done = {} /\ fired = {} /\ counted = EmptyBag
  /\ moves = [count |-> 0, past |-> [k \in job.keys |-> IF job.returns THEN {} ELSE {owner[k]}]]

-----------------------------------------------------------------------------
(***************************************************************************)
(* Source and watermarks.                                                  *)
(***************************************************************************)
\* Emit with updateMaxRecordTimestamp.  A record is late if a watermark said
\* that there would be none before a later time.
Emit(k, ts, input) ==
  LET id == Cardinality(pending) + Cardinality(done) + 1
  IN /\ k \in job.keys /\ id <= job.records /\ (Lazy \/ owner = target)
     /\ pending' = pending \cup {[id |-> id, key |-> k, ts |-> ts, input |-> input,
                                  late |-> ts < source.last]}
     /\ source' = [source EXCEPT !.max = Max({@, ts})]
     /\ UNCHANGED <<job, wm, owner, target, transit, index, store, done, fired, counted, moves>>

GenerateWatermark ==
  LET new == source.max - job.delay
  IN /\ source.max # -1 /\ new # source.last /\ (Lazy \/ owner = target)
     /\ source' = [source EXCEPT !.last = new]
     /\ UNCHANGED <<job, pending, wm, owner, target, transit, index, store, done, fired,
                    counted, moves>>

\* The task watermark progresses to t.
Progressed(w, t) ==
  /\ wm[w] < t /\ t <= source.last /\ (Lazy \/ owner = target)
  /\ \A r \in pending : owner[r.key] = w /\ ~ r.late => r.ts >= t
  /\ wm' = [wm EXCEPT ![w] = t]

\* A batch, from one upstream operator, of keys that are routed to the task.
Take(w, rs) ==
  /\ rs # {} /\ Cardinality(rs) <= BatchSize
  /\ \A r \in rs : owner[r.key] = w
  /\ \E i \in 1 .. 2 : \A r \in rs : r.input = i
  /\ pending' = pending \ rs /\ done' = done \cup rs

\* The state after the records of a batch were added to their slots.
Filled(st, slot) ==
  [x \in DOMAIN st |-> st[x] \cup {r.id : r \in {s \in DOMAIN slot : slot[s] = x}}]

Emptied(st, xs) == [x \in DOMAIN st |-> IF x \in xs THEN {} ELSE st[x]]

-----------------------------------------------------------------------------
(***************************************************************************)
(* Reconfiguration.                                                        *)
(***************************************************************************)
\* New owners.  Stop-and-restart has drained all channels by then.
Repartition(new) ==
  /\ owner = target /\ new # owner /\ moves.count < job.rescales
  /\ Lazy \/ pending = {}
  /\ job.returns \/ \A k \in job.keys : new[k] = owner[k] \/ new[k] \notin moves.past[k]
  /\ target' = new
  /\ moves' = [count |-> moves.count + 1,
               past |-> IF job.returns THEN moves.past
                       ELSE [k \in job.keys |-> moves.past[k] \cup {new[k]}]]
  /\ UNCHANGED <<job, source, pending, wm, owner, transit, index, store, done, fired, counted>>

Leaving(w, dst) == {k \in job.keys : owner[k] = w /\ target[k] = dst /\ dst # w}
Destinations(w) == {target[k] : k \in {j \in job.keys : owner[j] = w}} \ {w}

\* Metadata is a map from windows or timers, decoded from JSON at the other end.
Entry(e) == <<JsonKey[e[1]], e[2]>>
Decoded(f) == [e \in {Entry(x) : x \in DOMAIN f} |-> f[CHOOSE x \in DOMAIN f : Entry(x) = e]]

Message(w, dst, metadata) ==
  [src |-> w, dst |-> dst, keys |-> Leaving(w, dst), entries |-> Decoded(metadata)]

\* The keys of the messages leave w.
Send(w, ms) ==
  /\ ms # {}
  /\ transit' = transit \cup ms
  /\ owner' = [k \in job.keys |-> IF \E m \in ms : k \in m.keys THEN Moving ELSE owner[k]]

\* The keys of m arrive, and their state.
Receive(m) ==
  /\ transit' = transit \ {m}
  /\ owner' = [k \in job.keys |-> IF k \in m.keys THEN m.dst ELSE owner[k]]
  /\ store' = [w \in Workers |-> [x \in DOMAIN store[w] |->
                 CASE x[1] \in m.keys /\ w = m.dst /\ store[m.src][x] # {} -> store[m.src][x]
                   [] x[1] \in m.keys /\ w = m.src /\ Lazy -> {}
                   [] OTHER -> store[w][x]]]
=============================================================================
