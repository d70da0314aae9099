---------------------------- MODULE MigrationProofs ----------------------------
(***************************************************************************)
(* The data of a stop-and-restart rescale, for any number of keys, records *)
(* and moves: a record is in one place at a time and on its way to the     *)
(* owner of its key, the owner has the state of the key and, alone, its    *)
(* index entry, and the moves hand both over.                              *)
(*                                                                         *)
(* The proofs rest on the protocol invariant: buckets move               *)
(* when no record is on its way.                                           *)
(***************************************************************************)
EXTENDS CollectorProofs

\* Bucket ranges say which buckets they stand for; proved in KeyPartitionProofs.
RangesFacts == \A bs \in SUBSET Buckets : FromRanges(ToRanges(bs)) = bs

-----------------------------------------------------------------------------
(* Where a record is.                                                      *)

\* Record r is in a unit on channel s, and no record is in two units of s.
In(r, s) == \E i \in 1 .. Len(s) : r \in Range(s[i].recs)

Apart(s) ==
  \A i, j \in 1 .. Len(s) : \A r \in Records :
    r \in Range(s[i].recs) /\ r \in Range(s[j].recs) => i = j

\* Record r waits at u, or on the channel, to be processed by w.
Waits(r, u, w) == In(r, chan[<<u, w>>]) \/ r \in Range(sender[u].batches[w])

Clean(u, w) ==
  /\ Apart(chan[<<u, w>>])
  /\ \A r \in Records : ~ (In(r, chan[<<u, w>>]) /\ r \in Range(sender[u].batches[w]))

\* A record is in one place, it was not processed, and goes to the owner of its key.
RecordInv ==
  \A u \in Upstreams, w \in Workers :
    /\ Clean(u, w)
    /\ \A r \in Records : Waits(r, u, w) =>
         /\ r.id <= emitted /\ r \notin done /\ plan.table[BucketOf[r.key]] = w
         /\ \A v \in Upstreams : v # u => ~ Waits(r, v, w)

LEMMA EmptyIn == /\ \A r : ~ In(r, <<>>)
                 /\ Apart(<<>>) /\ Range(<<>>) = {}
  BY DEF In, Apart, Range

LEMMA RangeGrows ==
  ASSUME NEW S, NEW s \in Seq(S), NEW x \in S
  PROVE  Range(Append(s, x)) = Range(s) \cup {x} /\ Range(<<x>>) = {x}
<1>1. /\ DOMAIN s = 1 .. Len(s) /\ Len(s) \in Nat /\ DOMAIN Append(s, x) = 1 .. Len(s) + 1
      /\ \A i \in 1 .. Len(s) : Append(s, x)[i] = s[i]
      /\ Append(s, x)[Len(s) + 1] = x
  OBVIOUS
<1>2. Range(Append(s, x)) = Range(s) \cup {x}
  <2>1. \A i \in 1 .. Len(s) + 1 : i \in 1 .. Len(s) \/ i = Len(s) + 1
    BY <1>1
  <2>2. Len(s) + 1 \in 1 .. Len(s) + 1 /\ \A i \in 1 .. Len(s) : i \in 1 .. Len(s) + 1
    BY <1>1
  <2> QED BY <1>1, <2>1, <2>2, Zenon DEF Range
<1>3. Range(<<x>>) = {x}
  BY DEF Range
<1> QED BY <1>2, <1>3, Zenon

\* A unit more, and a unit less, on a channel.
LEMMA InGrows ==
  ASSUME NEW s \in Seq(Units), NEW x \in Units
  PROVE  /\ \A r : In(r, Append(s, x)) <=> In(r, s) \/ r \in Range(x.recs)
         /\ Apart(s) /\ (\A r \in Records : ~ (In(r, s) /\ r \in Range(x.recs)))
              => Apart(Append(s, x))
<1> DEFINE a == Append(s, x)
<1>1. /\ Len(a) = Len(s) + 1 /\ Len(s) \in Nat /\ a[Len(s) + 1] = x
      /\ \A i \in 1 .. Len(s) : a[i] = s[i]
  OBVIOUS
<1> HIDE DEF a
<1>2. /\ \A i \in 1 .. Len(a) : i \in 1 .. Len(s) \/ i = Len(s) + 1
      /\ Len(s) + 1 \in 1 .. Len(a) /\ \A i \in 1 .. Len(s) : i \in 1 .. Len(a)
  BY <1>1
<1>3. \A r : In(r, a) <=> In(r, s) \/ r \in Range(x.recs)
  BY <1>1, <1>2, Zenon DEF In
<1>4. ASSUME Apart(s), \A r \in Records : ~ (In(r, s) /\ r \in Range(x.recs))
      PROVE  Apart(a)
  <2>1. SUFFICES ASSUME NEW i \in 1 .. Len(a), NEW j \in 1 .. Len(a), NEW r \in Records,
                        r \in Range(a[i].recs), r \in Range(a[j].recs)
                 PROVE  i = j
    BY Zenon DEF Apart
  <2>2. CASE i \in 1 .. Len(s) /\ j \in 1 .. Len(s)
    BY <1>1, <1>4, <2>1, <2>2, Zenon DEF Apart
  <2>3. CASE i \in 1 .. Len(s) /\ j = Len(s) + 1
    BY <1>1, <1>4, <2>1, <2>3, Zenon DEF In
  <2>4. CASE i = Len(s) + 1 /\ j \in 1 .. Len(s)
    BY <1>1, <1>4, <2>1, <2>4, Zenon DEF In
  <2> QED BY <1>2, <2>2, <2>3, <2>4, Zenon
<1> QED BY <1>3, <1>4, Zenon DEF a

LEMMA InShrinks ==
  ASSUME NEW s \in Seq(Units), s # <<>>, Apart(s)
  PROVE  /\ \A r \in Records : In(r, Tail(s)) <=> In(r, s) /\ r \notin Range(Head(s).recs)
         /\ \A r \in Range(Head(s).recs) : In(r, s)
         /\ Apart(Tail(s))
<1> DEFINE a == Tail(s)
<1>1. /\ a \in Seq(Units) /\ Len(s) \in Nat /\ Len(s) > 0
      /\ Head(s) = s[1] /\ Len(a) = Len(s) - 1
      /\ \A i \in 1 .. Len(s) - 1 : a[i] = s[i + 1]
  BY TailFacts, Zenon
<1> HIDE DEF a
<1>2. /\ 1 \in 1 .. Len(s) /\ \A i \in 1 .. Len(a) : i + 1 \in 1 .. Len(s) /\ i + 1 # 1 /\ a[i] = s[i + 1]
      /\ \A i \in 1 .. Len(s) : i # 1 => i - 1 \in 1 .. Len(a) /\ (i - 1) + 1 = i
  BY <1>1
<1>3. ASSUME NEW r \in Records
      PROVE  In(r, a) <=> In(r, s) /\ r \notin Range(Head(s).recs)
  <2>1. ASSUME In(r, a)
        PROVE  In(r, s) /\ r \notin Range(Head(s).recs)
    <3>1. PICK i \in 1 .. Len(a) : r \in Range(a[i].recs)
      BY <2>1, Zenon DEF In
    <3>2. i + 1 \in 1 .. Len(s) /\ i + 1 # 1 /\ r \in Range(s[i + 1].recs)
      BY <1>2, <3>1, Zenon
    <3> QED BY <1>1, <1>2, <3>2, Zenon DEF In, Apart
  <2>2. ASSUME In(r, s), r \notin Range(Head(s).recs)
        PROVE  In(r, a)
    <3>1. PICK i \in 1 .. Len(s) : r \in Range(s[i].recs)
      BY <2>2, Zenon DEF In
    <3>2. i - 1 \in 1 .. Len(a) /\ a[i - 1] = s[i]
      BY <1>1, <1>2, <2>2, <3>1, Zenon
    <3> QED BY <3>1, <3>2, Zenon DEF In
  <2> QED BY <2>1, <2>2, Zenon
<1>4. \A r \in Range(Head(s).recs) : In(r, s)
  BY <1>1, <1>2, Zenon DEF In
<1>5. Apart(a)
  <2>1. SUFFICES ASSUME NEW i \in 1 .. Len(a), NEW j \in 1 .. Len(a), NEW r \in Records,
                        r \in Range(a[i].recs), r \in Range(a[j].recs)
                 PROVE  i = j
    BY Zenon DEF Apart
  <2>2. i + 1 = j + 1
    BY <1>2, <2>1, Zenon DEF Apart
  <2> QED BY <2>2
<1> QED BY <1>3, <1>4, <1>5, Zenon DEF a

\* The records in flight are those that wait somewhere.
Traced ==
  \A r : r \in InFlight <=> r \in Records /\ \E u \in Upstreams, w \in Workers : Waits(r, u, w)

LEMMA InFlightTraced == TypeInv => Traced
<1> SUFFICES ASSUME TypeInv PROVE Traced
  BY Zenon
<1>1. ASSUME NEW u \in Upstreams, NEW w \in Workers
      PROVE  /\ Range(sender[u].batches[w]) \subseteq Records
             /\ \A r : In(r, chan[<<u, w>>]) => r \in Records
             /\ \A r : In(r, chan[<<u, w>>]) <=>
                         r \in UNION {Range(chan[<<u, w>>][i].recs) : i \in DOMAIN chan[<<u, w>>]}
  <2>1. /\ sender[u].batches[w] \in Seq(Records) /\ chan[<<u, w>>] \in Seq(Units)
    BY DEF TypeInv, Senders, Links
  <2>2. \A s \in Seq(Records) : Range(s) \subseteq Records
    BY DEF Range
  <2>3. \A i \in 1 .. Len(chan[<<u, w>>]) : chan[<<u, w>>][i].recs \in Seq(Records)
    BY <2>1 DEF Units
  <2>4. DOMAIN chan[<<u, w>>] = 1 .. Len(chan[<<u, w>>])
    BY <2>1
  <2> QED BY <2>1, <2>2, <2>3, <2>4, Zenon DEF In
<1>2. ASSUME NEW r, r \in InFlight
      PROVE  r \in Records /\ \E u \in Upstreams, w \in Workers : Waits(r, u, w)
  <2>1. CASE r \in UNION {Range(sender[u].batches[w]) : u \in Upstreams, w \in Workers}
    <3>1. PICK u \in Upstreams, w \in Workers : r \in Range(sender[u].batches[w])
      BY <2>1
    <3>2. Waits(r, u, w)
      BY <3>1, Zenon DEF Waits
    <3> QED BY <1>1, <3>1, <3>2, Zenon
  <2>2. CASE r \in UNION {UNION {Range(chan[l][i].recs) : i \in DOMAIN chan[l]} : l \in Links}
    <3>1. PICK l \in Links : r \in UNION {Range(chan[l][i].recs) : i \in DOMAIN chan[l]}
      BY <2>2, Zenon
    <3>2. PICK u \in Upstreams, w \in Workers : l = <<u, w>>
      BY DEF Links
    <3>3. Waits(r, u, w) /\ r \in Records
      BY <1>1, <3>1, <3>2 DEF Waits
    <3> QED BY <3>3, Zenon
  <2> QED BY <1>2, <2>1, <2>2 DEF InFlight
<1>3. ASSUME NEW r, NEW u \in Upstreams, NEW w \in Workers, Waits(r, u, w)
      PROVE  r \in InFlight
  <2>1. CASE r \in Range(sender[u].batches[w])
    BY <2>1 DEF InFlight
  <2>2. CASE In(r, chan[<<u, w>>])
    <3>1. <<u, w>> \in Links
      BY Zenon DEF Links
    <3>2. r \in UNION {Range(chan[<<u, w>>][i].recs) : i \in DOMAIN chan[<<u, w>>]}
      BY <1>1, <2>2, Zenon
    <3>3. r \in UNION {UNION {Range(chan[l][i].recs) : i \in DOMAIN chan[l]} : l \in Links}
      BY <3>1, <3>2
    <3> QED BY <3>3 DEF InFlight
  <2> QED BY <1>3, <2>1, <2>2, Zenon DEF Waits
<1> QED BY <1>2, <1>3, Zenon DEF Traced

LEMMA InFlightTracedNext == TypeInv' => Traced'
  BY InFlightTraced, PTL

-----------------------------------------------------------------------------
(* Steps that process and emit nothing leave every record where it waits,  *)
(* but for the way from a pending batch to its channel.                    *)

Kept ==
  /\ done' = done /\ emitted' = emitted
  /\ \A u \in Upstreams, w \in Workers :
       Clean(u, w)' /\ \A r \in Records : Waits(r, u, w)' <=> Waits(r, u, w)

LEMMA KeptInv ==
  ASSUME RecordInv, Kept, plan'.table = plan.table
  PROVE  RecordInv'
<1>1. ASSUME NEW u \in Upstreams, NEW w \in Workers, NEW r \in Records, Waits(r, u, w)'
      PROVE  /\ r.id <= emitted' /\ r \notin done' /\ plan'.table[BucketOf[r.key]] = w
             /\ \A v \in Upstreams : v # u => ~ Waits(r, v, w)'
  BY <1>1 DEF RecordInv, Kept
<1> QED BY <1>1, Zenon DEF RecordInv, Kept

LEMMA KeptInFlight ==
  ASSUME TypeInv, TypeInv', Kept
  PROVE  InFlight' = InFlight
<1>1. Traced /\ Traced'
  BY InFlightTraced, InFlightTracedNext, Zenon
<1>2. ASSUME NEW r
      PROVE  r \in InFlight' <=> r \in InFlight
  BY <1>1, Zenon DEF Traced, Kept
<1> QED BY <1>2, Zenon

\* Nothing is written to a channel or a pending batch.
LEMMA UntouchedKept ==
  ASSUME RecordInv, done' = done, emitted' = emitted, chan' = chan,
         \A u \in Upstreams, w \in Workers : sender'[u].batches[w] = sender[u].batches[w]
  PROVE  Kept
  BY DEF Kept, RecordInv, Clean, Waits

\* The collector of x hands its pending batches, and a unit without records, to its channels.
Passes(x) ==
  /\ \A u \in Upstreams, w \in Workers :
       u # x => chan'[<<u, w>>] = chan[<<u, w>>] /\ sender'[u].batches[w] = sender[u].batches[w]
  /\ \A w \in Workers :
       /\ sender'[x].batches[w] = <<>>
       /\ \/ chan'[<<x, w>>] = Flush(x)[<<x, w>>]
          \/ \E c \in Units : c.recs = <<>> /\ chan'[<<x, w>>] = Append(Flush(x)[<<x, w>>], c)

LEMMA PassesKept ==
  ASSUME TypeInv, RecordInv, done' = done, emitted' = emitted, NEW x \in Upstreams, Passes(x)
  PROVE  Kept
<1>1. SUFFICES ASSUME NEW u \in Upstreams, NEW w \in Workers
               PROVE  Clean(u, w)' /\ \A r \in Records : Waits(r, u, w)' <=> Waits(r, u, w)
  BY Zenon DEF Kept
<1>2. Clean(u, w)
  BY Zenon DEF RecordInv
<1>3. CASE u # x
  BY <1>2, <1>3, Zenon DEF Passes, Clean, Waits
<1>4. CASE u = x
  <2> DEFINE s == chan[<<u, w>>]
             b == sender[u].batches[w]
             f == Flush(u)[<<u, w>>]
  <2>1. s \in Seq(Units) /\ b \in Seq(Records) /\ <<u, w>> \in Links /\ Flush(u) \in [Links -> Seq(Units)]
    BY FlushFacts, Zenon DEF TypeInv, Senders, Links
  <2>2. f = IF b # <<>> THEN Append(s, Batch(b)) ELSE s
    BY <2>1, Zenon DEF Flush
  <2>3. Apart(s) /\ \A r \in Records : ~ (In(r, s) /\ r \in Range(b))
    BY <1>2, Zenon DEF Clean
  <2>4. f \in Seq(Units)
    BY <2>1, Zenon
  <2> HIDE DEF s, b, f
  <2>5. Apart(f) /\ \A r \in Records : In(r, f) <=> In(r, s) \/ r \in Range(b)
    <3>1. CASE b = <<>>
      BY <2>2, <2>3, <3>1, EmptyIn, Zenon
    <3>2. CASE b # <<>>
      <4>1. Batch(b) \in Units /\ Batch(b).recs = b
        BY <2>1, BatchUnits, Zenon
      <4> QED BY <2>1, <2>2, <2>3, <3>2, <4>1, InGrows, Zenon
    <3> QED BY <3>1, <3>2, Zenon
  <2>6. Apart(chan'[<<u, w>>]) /\ \A r \in Records : In(r, chan'[<<u, w>>]) <=> In(r, f)
    <3>1. CASE chan'[<<u, w>>] = f
      BY <2>5, <3>1, Zenon
    <3>2. ASSUME NEW c \in Units, c.recs = <<>>, chan'[<<u, w>>] = Append(f, c)
          PROVE  Apart(chan'[<<u, w>>]) /\ \A r \in Records : In(r, chan'[<<u, w>>]) <=> In(r, f)
      BY <2>4, <2>5, <3>2, InGrows, EmptyIn, SMTT(20)
    <3> QED BY <1>4, <3>1, <3>2, Zenon DEF Passes, f
  <2>7. Range(sender'[u].batches[w]) = {}
    BY <1>4, EmptyIn, ZenonT(30) DEF Passes
  <2> QED BY <2>5, <2>6, <2>7, Zenon DEF Clean, Waits, s, b
<1> QED BY <1>3, <1>4, Zenon

LEMMA PushPasses ==
  ASSUME TypeInv, NEW x \in Upstreams, NEW ws, NEW c \in Units, c.recs = <<>>,
         chan' = Push(Flush(x), x, ws, c),
         \A w \in Workers : sender'[x].batches[w] = <<>>,
         \A u \in Upstreams : u # x => sender'[u] = sender[u]
  PROVE  Passes(x)
<1> DEFINE f == Flush(x)
<1>1. /\ f \in [Links -> Seq(Units)]
      /\ \A u \in Upstreams, w \in Workers : u # x => f[<<u, w>>] = chan[<<u, w>>]
  BY FlushFacts, Zenon
<1>2. chan' = Push(f, x, ws, c)
  BY Zenon
<1> HIDE DEF f
<1>3. /\ \A v \in Upstreams, w \in Workers :
           v # x \/ w \notin ws => Push(f, x, ws, c)[<<v, w>>] = f[<<v, w>>]
      /\ \A w \in Workers :
           w \in ws => Push(f, x, ws, c)[<<x, w>>] = Append(f[<<x, w>>], c)
  BY Zenon DEF Push, Links
<1> QED BY <1>1, <1>2, <1>3, Zenon DEF Passes, f

\* A unit without records is taken from a channel.
LEMMA TakesKept ==
  ASSUME TypeInv, RecordInv, done' = done, emitted' = emitted, sender' = sender,
         NEW x \in Upstreams, NEW z \in Workers, Takes(x, z), Head(chan[<<x, z>>]).type # "batch"
  PROVE  Kept
<1>1. SUFFICES ASSUME NEW u \in Upstreams, NEW w \in Workers
               PROVE  Clean(u, w)' /\ \A r \in Records : Waits(r, u, w)' <=> Waits(r, u, w)
  BY Zenon DEF Kept
<1>2. Clean(u, w)
  BY Zenon DEF RecordInv
<1>3. CASE u # x \/ w # z
  BY <1>2, <1>3, Zenon DEF Takes, Clean, Waits
<1>4. CASE u = x /\ w = z
  <2> DEFINE s == chan[<<x, z>>]
  <2>1. s \in Seq(Units) /\ s # <<>> /\ Apart(s) /\ chan'[<<x, z>>] = Tail(s) /\ Head(s).type # "batch"
    BY <1>2, <1>4, Zenon DEF Takes, Clean
  <2> HIDE DEF s
  <2>2. Head(s) \in Units
    BY <2>1
  <2>3. Head(s).recs = <<>>
    BY <2>1, <2>2, Zenon DEF Units
  <2>4. Range(Head(s).recs) = {}
    BY <2>3, EmptyIn, Zenon
  <2>5. Apart(Tail(s)) /\ \A r \in Records : In(r, Tail(s)) <=> In(r, s)
    BY <2>1, <2>4, InShrinks, Zenon
  <2> QED BY <1>2, <1>4, <2>1, <2>5, Zenon DEF Clean, Waits, s
<1> QED BY <1>3, <1>4, Zenon

\* Nor does the state of any key change, or its place.
Frame ==
  /\ UNCHANGED <<store, index, initMeta, done, live, returned, history, assigned>>
  /\ plan'.table = plan.table
  /\ \/ step' = step /\ todo' = todo
     \/ (step = "migrate" => todo = {}) /\ step' # "migrate"

Idles == Frame /\ Kept

LEMMA SameIdles ==
  ASSUME ProtocolInv, RecordInv, UNCHANGED vars
  PROVE  Idles
<1>1. /\ Frame /\ done' = done /\ emitted' = emitted /\ chan' = chan
      /\ \A u \in Upstreams, w \in Workers : sender'[u].batches[w] = sender[u].batches[w]
  BY Zenon DEF vars, coordVars, netVars, dataVars, pastVars, Frame
<1> QED BY <1>1, UntouchedKept, Zenon DEF Idles

LEMMA CoordinatorIdles ==
  ASSUME PlanFacts, ProtocolInv, RecordInv, CoordinatorStep, ~ ReconfigureStatefulOp
  PROVE  Idles
<1>1. /\ done' = done /\ emitted' = emitted /\ chan' = chan
      /\ \A u \in Upstreams, w \in Workers : sender'[u].batches[w] = sender[u].batches[w]
      /\ UNCHANGED <<store, index, initMeta, live, returned, history, assigned>>
  <2>1. ASSUME NEW n \in 1 .. Len(Pool), Rescale(n)
        PROVE  UNCHANGED <<sender, chan, done, emitted, store, index, initMeta, live, returned,
                           history, assigned>>
    BY <2>1, Zenon DEF Rescale, pastVars, netVars, dataVars
  <2>2. ASSUME NEW w \in Workers, WaitDataDrain(w)
        PROVE  UNCHANGED <<sender, chan, done, emitted, store, index, initMeta, live, returned,
                           history, assigned>>
    BY <2>2, Zenon DEF WaitDataDrain, pastVars, netVars, dataVars
  <2>3. UNCHANGED <<sender, chan, done, emitted, store, index, initMeta, live, returned,
                    history, assigned>>
    BY <2>1, <2>2, Zenon DEF CoordinatorStep, StartJobDone, DrainInflightData, RescaleTasks,
       NotifyUpstreamTasks, ResumeUpstreams, RescaleDone, pastVars, netVars, dataVars
  <2> QED BY <2>3, Zenon
<1>2. /\ plan'.table = plan.table
      /\ (step = "migrate" => todo = {}) /\ step' # "migrate"
  <2>1. plan = [tasks |-> plan.tasks, free |-> plan.free, ups |-> plan.ups, table |-> plan.table]
    BY Zenon DEF PlanFacts
  <2>2. ASSUME NEW n \in 1 .. Len(Pool), Rescale(n)
        PROVE  /\ plan'.table = plan.table
               /\ (step = "migrate" => todo = {}) /\ step' # "migrate"
    BY <2>1, <2>2, Zenon DEF Rescale, Advance
  <2>3. ASSUME NEW w \in Workers, WaitDataDrain(w)
        PROVE  /\ plan'.table = plan.table
               /\ (step = "migrate" => todo = {}) /\ step' # "migrate"
    BY <2>3, Zenon DEF WaitDataDrain
  <2>4. NotifyUpstreamTasks => /\ plan'.table = plan.table
                               /\ (step = "migrate" => todo = {}) /\ step' # "migrate"
    BY <2>1, Zenon DEF NotifyUpstreamTasks, Advance
  <2> QED BY <2>2, <2>3, <2>4, Zenon DEF CoordinatorStep, StartJobDone, DrainInflightData, RescaleTasks,
             ResumeUpstreams, RescaleDone, Advance
<1> QED BY <1>1, <1>2, UntouchedKept, Zenon DEF Idles, Frame

LEMMA CollectorBatches ==
  ASSUME PlanFacts, ProtocolInv, NEW x \in Upstreams, StartCollector(x),
         \A w \in Workers : ~ On(x, w)
  PROVE  \A u \in Upstreams, w \in Workers : sender'[u].batches[w] = sender[u].batches[w]
<1>1. TypeInv /\ \A w \in Workers : sender[x].batches[w] = <<>>
  BY Zenon DEF ProtocolInv, LinkInv
<1> DEFINE s == [Idle EXCEPT !.downs = Tasks, !.table = Deserialize(Serialize(plan.table))]
<1>2. /\ plan.table \in [Buckets -> Workers] /\ Deserialize(Serialize(plan.table)) = plan.table
      /\ Tasks \in SUBSET Workers
  BY Zenon DEF PlanFacts
<1>3. Fresh([Idle EXCEPT !.downs = Tasks, !.table = plan.table], Tasks, plan.table)
  BY <1>2, IdleType, Zenon
<1>4. Fresh(s, Tasks, plan.table)
  BY <1>2, <1>3, Zenon
<1>5. sender' = [sender EXCEPT ![x] = s]
  BY Zenon DEF StartCollector
<1> HIDE DEF s
<1>6. sender'[x] = s /\ \A v \in Upstreams : v # x => sender'[v] = sender[v]
  BY <1>1, <1>4, <1>5, SenderUpdate, ZenonT(30) DEF Fresh
<1> QED BY <1>1, <1>4, <1>6, Zenon DEF Fresh

LEMMA ControlIdles ==
  ASSUME PlanFacts, ProtocolInv, RecordInv,
         \/ \E x \in Upstreams : HandleTaskAssignment(x)
         \/ \E w \in Workers : HandleTerminate(w)
  PROVE  Idles
<1>1. ASSUME NEW x \in Upstreams, HandleTaskAssignment(x)
      PROVE  Idles
  <2>1. x \notin Workers /\ TodoInv
    BY ConstantsAssumption, Zenon DEF ProtocolInv
  <2>2. /\ step = "deploy" /\ step' = step /\ x \in todo /\ StartCollector(x)
        /\ UNCHANGED <<plan, chan, assigned, emitted, done, live, history, returned, store, index, initMeta>>
    BY <1>1, <2>1, Zenon DEF HandleTaskAssignment, pastVars, PlanFacts, Changing
  <2>3. \A w \in Workers : ~ On(x, w)
    <3>1. x \in plan.ups /\ SenderInv(x)
      BY <2>1, <2>2, Zenon DEF ProtocolInv, TodoInv, PlanFacts
    <3> QED BY <2>2, <3>1, Zenon DEF SenderInv, Pending, On
  <2>4. \A u \in Upstreams, w \in Workers : sender'[u].batches[w] = sender[u].batches[w]
    BY <2>2, <2>3, CollectorBatches, Zenon
  <2> QED BY <2>2, <2>4, UntouchedKept, Zenon DEF Idles, Frame
<1>2. ASSUME NEW x \in Workers, HandleTerminate(x)
      PROVE  Idles
  BY <1>2, UntouchedKept, Zenon DEF HandleTerminate, pastVars, netVars, dataVars, Idles, Frame
<1> QED BY <1>1, <1>2, Zenon

LEMMA UpstreamIdles ==
  ASSUME PlanFacts, ProtocolInv, RecordInv, NEW x \in Upstreams,
         \/ FlushAllPendingBatches(x) \/ PauseEmit(x) \/ UpdateRouting(x)
         \/ ResumeEmit(x) \/ RescaleUpstream(x)
  PROVE  Idles
<1>1. TypeInv /\ sender \in [Upstreams -> Senders]
  BY Zenon DEF ProtocolInv, TypeInv
<1>2. \A u \in Units : u.type # "batch" => u.recs = <<>>
  BY Zenon DEF Units
<1>3. /\ DrainBarrier \in Units /\ DrainBarrier.recs = <<>>
      /\ Termination \in Units /\ Termination.recs = <<>>
  BY ControlUnits, Zenon DEF DrainBarrier, Termination
<1>4. /\ done' = done /\ emitted' = emitted /\ plan'.table = plan.table
      /\ UNCHANGED <<store, index, initMeta, live, returned, history, assigned>>
      /\ (step' = step /\ todo' = todo) \/ (step # "migrate" /\ step' # "migrate")
  <2>1. plan = [tasks |-> plan.tasks, free |-> plan.free, ups |-> plan.ups, table |-> plan.table]
    BY Zenon DEF PlanFacts
  <2>2. RescaleUpstream(x) => plan'.table = plan.table
    BY <2>1, Zenon DEF RescaleUpstream
  <2> QED BY <2>2, ZenonT(30) DEF FlushAllPendingBatches, PauseEmit, UpdateRouting, ResumeEmit, RescaleUpstream,
             coordVars, dataVars, pastVars
<1>5. CASE FlushAllPendingBatches(x)
  <2>1. /\ sender' = [sender EXCEPT ![x].batches = Idle.batches] /\ chan' = Flush(x)
    BY <1>5, Zenon DEF FlushAllPendingBatches
  <2>2. /\ \A w \in Workers : sender'[x].batches[w] = <<>>
        /\ \A u \in Upstreams : u # x => sender'[u] = sender[u]
    BY <1>1, <2>1, EmptyBatches, Zenon DEF Senders
  <2>3. Passes(x)
    BY <1>1, <2>1, <2>2, FlushFacts, Zenon DEF Passes
  <2> QED BY <1>1, <1>4, <2>3, PassesKept, Zenon DEF Idles, Frame
<1>6. ASSUME NEW ws, NEW c \in Units, c.recs = <<>>, chan' = Push(Flush(x), x, ws, c),
             sender'[x].batches = Idle.batches,
             \A u \in Upstreams : u # x => sender'[u] = sender[u]
      PROVE  Idles
  <2>1. \A w \in Workers : sender'[x].batches[w] = <<>>
    BY <1>6, EmptyBatches, Zenon
  <2>2. Passes(x)
    BY <1>1, <1>6, <2>1, PushPasses, Zenon
  <2> QED BY <1>1, <1>4, <2>2, PassesKept, Zenon DEF Idles, Frame
<1>7. CASE PauseEmit(x)
  <2>1. /\ sender' = [sender EXCEPT ![x].paused = TRUE, ![x].batches = Idle.batches]
        /\ chan' = Push(Flush(x), x, sender[x].downs, DrainBarrier)
    BY <1>7, Zenon DEF PauseEmit, Paused
  <2>2. sender'[x].batches = Idle.batches /\ \A u \in Upstreams : u # x => sender'[u] = sender[u]
    BY <1>1, <2>1, Zenon DEF Senders
  <2> QED BY <1>3, <1>6, <2>1, <2>2, ZenonT(30)
<1>8. CASE UpdateRouting(x)
  <2>1. /\ sender' = [sender EXCEPT ![x].downs = (@ \cup change.added) \ change.removed,
                                    ![x].table = Deserialize(Serialize(plan.table)),
                                    ![x].batches = Idle.batches]
        /\ chan' = Push(Flush(x), x, change.removed, Termination)
    BY <1>8, Zenon DEF UpdateRouting
  <2>2. sender'[x].batches = Idle.batches /\ \A u \in Upstreams : u # x => sender'[u] = sender[u]
    BY <1>1, <2>1, Zenon DEF Senders
  <2> QED BY <1>3, <1>6, <2>1, <2>2, Zenon
<1>9. CASE ResumeEmit(x)
  <2>1. sender' = [sender EXCEPT ![x].paused = FALSE] /\ chan' = chan
    BY <1>9, Zenon DEF ResumeEmit, netVars
  <2>2. \A u \in Upstreams, w \in Workers : sender'[u].batches[w] = sender[u].batches[w]
    BY <1>1, <2>1, Zenon DEF Senders
  <2> QED BY <1>4, <2>1, <2>2, UntouchedKept, Zenon DEF Idles, Frame
<1>10. CASE RescaleUpstream(x)
  <2>1. CASE x \notin plan.ups /\ StartCollector(x) /\ UNCHANGED chan
    <3>1. \A w \in Workers : ~ On(x, w)
      BY <2>1, Zenon DEF On
    <3>2. \A u \in Upstreams, w \in Workers : sender'[u].batches[w] = sender[u].batches[w]
      BY <2>1, <3>1, CollectorBatches, Zenon
    <3> QED BY <1>4, <2>1, <3>2, UntouchedKept, Zenon DEF Idles, Frame
  <2>2. CASE /\ chan' = Push(Flush(x), x, sender[x].downs, Termination)
             /\ sender' = [sender EXCEPT ![x].paused = TRUE, ![x].batches = Idle.batches]
    <3>1. sender'[x].batches = Idle.batches /\ \A u \in Upstreams : u # x => sender'[u] = sender[u]
      BY <1>1, <2>2, Zenon DEF Senders
    <3> QED BY <1>3, <1>6, <2>2, <3>1, ZenonT(30)
  <2> QED BY <1>10, <2>1, <2>2, ZenonT(30) DEF RescaleUpstream
<1> QED BY <1>5, <1>7, <1>8, <1>9, <1>10, Zenon

LEMMA ChannelIdles ==
  ASSUME PlanFacts, ProtocolInv, RecordInv, NEW x \in Upstreams, NEW z \in Workers,
         InitNewUpstream(x, z) \/ HandleDrainBarrier(x, z) \/ RemoveUpstream(x, z)
  PROVE  Idles
<1>1. TypeInv
  BY Zenon DEF ProtocolInv
<1>2. /\ done' = done /\ emitted' = emitted /\ plan' = plan /\ sender' = sender
      /\ UNCHANGED <<store, index, initMeta, live, returned, history, assigned, step, todo>>
  BY Zenon DEF InitNewUpstream, HandleDrainBarrier, RemoveUpstream, coordVars, dataVars, pastVars
<1>3. CASE InitNewUpstream(x, z)
  BY <1>2, <1>3, UntouchedKept, Zenon DEF Idles, Frame, InitNewUpstream
<1>4. CASE HandleDrainBarrier(x, z)
  <2>1. Takes(x, z) /\ Head(chan[<<x, z>>]).type = "barrier"
    BY <1>1, <1>4, ConsumedTakes, ZenonT(30) DEF HandleDrainBarrier
  <2> QED BY <1>1, <1>2, <2>1, TakesKept, Zenon DEF Idles, Frame
<1>5. CASE RemoveUpstream(x, z)
  <2>1. Takes(x, z) /\ Head(chan[<<x, z>>]).type = "termination"
    BY <1>1, <1>5, ConsumedTakes, Zenon DEF RemoveUpstream
  <2> QED BY <1>1, <1>2, <2>1, TakesKept, Zenon DEF Idles, Frame
<1> QED BY <1>3, <1>4, <1>5, Zenon

-----------------------------------------------------------------------------
(* Emission: one record more waits, and it is a new one.                   *)

Enters(q, x, z) ==
  /\ q \in Records /\ q.id = emitted + 1 /\ emitted' = emitted + 1 /\ done' = done
  /\ plan.table[BucketOf[q.key]] = z /\ plan' = plan
  /\ \A u \in Upstreams, w \in Workers :
       /\ Clean(u, w)'
       /\ \A r \in Records : Waits(r, u, w)' <=> Waits(r, u, w) \/ (r = q /\ u = x /\ w = z)

\* No record is twice on channel s with pending batch b; and q is on t or c, with
\* what is on s or b.
Distinct(s, b) == Apart(s) /\ \A r \in Records : ~ (In(r, s) /\ r \in Range(b))

Joins(q, s, b, t, c) ==
  \A r \in Records : In(r, t) \/ r \in Range(c) <=> In(r, s) \/ r \in Range(b) \/ r = q

\* A new record goes to the pending batch; if that is full, it goes to the channel first.
LEMMA EmitPlace ==
  ASSUME NEW s \in Seq(Units), NEW b \in Seq(Records), NEW q \in Records,
         Distinct(s, b), ~ In(q, s), q \notin Range(b)
  PROVE  /\ Distinct(s, Append(b, q)) /\ Joins(q, s, b, s, Append(b, q))
         /\ Distinct(Append(s, Batch(b)), <<q>>)
         /\ Joins(q, s, b, Append(s, Batch(b)), <<q>>)
<1>1. Range(Append(b, q)) = Range(b) \cup {q} /\ Range(<<q>>) = {q}
  BY RangeGrows, Zenon
<1>2. Batch(b) \in Units /\ Batch(b).recs = b
  BY BatchUnits, Zenon
<1>3. /\ \A r : In(r, Append(s, Batch(b))) <=> In(r, s) \/ r \in Range(b)
      /\ Apart(Append(s, Batch(b)))
  BY <1>2, InGrows, Zenon DEF Distinct
<1>4. Distinct(s, Append(b, q)) /\ Joins(q, s, b, s, Append(b, q))
  BY <1>1, Zenon DEF Distinct, Joins
<1>5. Distinct(Append(s, Batch(b)), <<q>>) /\ Joins(q, s, b, Append(s, Batch(b)), <<q>>)
  BY <1>1, <1>3, Zenon DEF Distinct, Joins
<1> QED BY <1>4, <1>5, Zenon

LEMMA EmitEnters ==
  ASSUME PlanFacts, ProtocolInv, RecordInv,
         NEW x \in Upstreams, NEW k \in Keys, NEW kind \in Kinds, Emit(x, k, kind)
  PROVE  \E q \in Records, z \in Workers : Enters(q, x, z)
<1>1. TypeInv
  BY Zenon DEF ProtocolInv
<1>2. /\ sender[x].table = plan.table /\ plan.table \in [Buckets -> Tasks] /\ Tasks \subseteq Workers
  BY Emitter, ZenonT(30) DEF Emit, PlanFacts
<1>3. PICK z \in Workers : z = sender[x].table[BucketOf[k]] /\ z = plan.table[BucketOf[k]]
  BY <1>2, ConstantsAssumption, Zenon
<1>4. /\ plan' = plan /\ done' = done
      /\ emitted' = emitted + 1 /\ emitted < job.records
  BY Zenon DEF Emit, coordVars
<1>5. emitted \in Nat /\ emitted + 1 \in 1 .. MaxRecords
  <2>1. job.records \in 0 .. MaxRecords /\ MaxRecords \in Nat
    BY ConstantsAssumption, Zenon DEF PlanFacts, JobType
  <2> QED BY <1>1, <1>4, <2>1 DEF TypeInv
<1>6. PICK r \in Records : r = [id |-> emitted + 1, key |-> k, kind |-> kind]
  BY <1>5, ZenonT(30) DEF Records
<1> DEFINE full == Len(sender[x].batches[z]) = BatchSize
           mine == IF full THEN <<r>> ELSE Append(sender[x].batches[z], r)
<1>7. /\ sender \in [Upstreams -> Senders] /\ sender[x].batches \in [Workers -> Seq(Records)]
      /\ chan \in [Links -> Seq(Units)] /\ <<x, z>> \in Links
      /\ \A u \in Upstreams, w \in Workers : <<u, w>> \in Links
  BY <1>1, <1>3, Zenon DEF TypeInv, Senders, Links
<1>8. /\ sender'[x].batches = [sender[x].batches EXCEPT ![z] = mine]
      /\ \A u \in Upstreams : u # x => sender'[u].batches = sender[u].batches
      /\ chan' = IF full THEN [chan EXCEPT ![<<x, z>>] = Append(@, Batch(sender[x].batches[z]))]
                         ELSE chan
  BY <1>3, <1>6, <1>7, ZenonT(30) DEF Emit, Senders
<1>9. \A u \in Upstreams, w \in Workers :
        /\ sender'[x].batches[z] = mine
        /\ u # x \/ w # z => sender'[u].batches[w] = sender[u].batches[w]
  BY <1>3, <1>7, <1>8, ZenonT(30)
<1>10. ASSUME NEW u \in Upstreams, NEW w \in Workers, u # x \/ w # z
       PROVE  chan'[<<u, w>>] = chan[<<u, w>>]
  <2>1. <<u, w>> # <<x, z>> /\ <<u, w>> \in Links
    BY <1>7, <1>10, Zenon
  <2> QED BY <1>7, <1>8, <2>1, Zenon
<1>11. chan'[<<x, z>>] = IF full THEN Append(chan[<<x, z>>], Batch(sender[x].batches[z]))
                                 ELSE chan[<<x, z>>]
  BY <1>7, <1>8, Zenon
<1> HIDE DEF full
<1>12. /\ Clean(x, z) /\ r.id = emitted + 1 /\ r.key = k
       /\ \A u \in Upstreams, w \in Workers : ~ Waits(r, u, w)
  BY <1>3, <1>5, <1>6, SMTT(20) DEF RecordInv
<1>13. /\ Clean(x, z)' /\ \A q \in Records : Waits(q, x, z)' <=> Waits(q, x, z) \/ q = r
  <2> DEFINE s == chan[<<x, z>>]
             b == sender[x].batches[z]
             t == chan'[<<x, z>>]
             c == sender'[x].batches[z]
  <2>1. /\ s \in Seq(Units) /\ b \in Seq(Records)
        /\ Distinct(s, b) /\ ~ In(r, s) /\ r \notin Range(b)
    BY <1>3, <1>7, <1>12, ZenonT(30) DEF Clean, Waits, Distinct
  <2>2. \/ t = s /\ c = Append(b, r)
        \/ t = Append(s, Batch(b)) /\ c = <<r>>
    BY <1>9, <1>11, Zenon
  <2> HIDE DEF s, b, t, c
  <2>3. /\ Distinct(s, Append(b, r)) /\ Joins(r, s, b, s, Append(b, r))
        /\ Distinct(Append(s, Batch(b)), <<r>>)
        /\ Joins(r, s, b, Append(s, Batch(b)), <<r>>)
    BY <2>1, EmitPlace, Zenon
  <2>4. Distinct(t, c) /\ Joins(r, s, b, t, c)
    BY <2>2, <2>3, Zenon
  <2> QED BY <2>4, Zenon DEF Distinct, Joins, Clean, Waits, s, b, t, c
<1>14. ASSUME NEW u \in Upstreams, NEW w \in Workers, u # x \/ w # z
       PROVE  Clean(u, w)' /\ \A q \in Records : Waits(q, u, w)' <=> Waits(q, u, w)
  <2>1. Clean(u, w)
    BY Zenon DEF RecordInv
  <2> QED BY <1>9, <1>10, <1>14, <2>1, Zenon DEF Clean, Waits
<1>15. Enters(r, x, z)
  BY <1>3, <1>4, <1>12, <1>13, <1>14, Zenon DEF Enters
<1> QED BY <1>15, Zenon

LEMMA EntersInv ==
  ASSUME TypeInv, TypeInv', RecordInv, \A d \in done : d.id <= emitted,
         NEW x \in Upstreams, NEW z \in Workers, NEW q \in Records, Enters(q, x, z)
  PROVE  RecordInv' /\ q \notin InFlight \cup done /\ InFlight' = InFlight \cup {q}
<1>1. emitted \in Nat /\ q.id = emitted + 1 /\ Traced /\ Traced'
  BY InFlightTraced, InFlightTracedNext DEF TypeInv, Enters
<1>2. q \notin done /\ \A u \in Upstreams, w \in Workers : ~ Waits(q, u, w)
  BY <1>1 DEF RecordInv
<1>3. \A r \in Records : r.id \in Nat
  BY DEF Records
<1>4. ASSUME NEW u \in Upstreams, NEW w \in Workers, NEW r \in Records, Waits(r, u, w)'
      PROVE  /\ r.id <= emitted' /\ r \notin done' /\ plan'.table[BucketOf[r.key]] = w
             /\ \A v \in Upstreams : v # u => ~ Waits(r, v, w)'
  <2>1. CASE r = q
    BY <1>1, <1>2, <1>4, <2>1, SMTT(20) DEF Enters
  <2>2. CASE r # q
    <3>1. Waits(r, u, w)
      BY <1>4, <2>2, Zenon DEF Enters
    <3>2. /\ r.id <= emitted /\ r \notin done /\ plan.table[BucketOf[r.key]] = w
          /\ \A v \in Upstreams : v # u => ~ Waits(r, v, w)
      BY <3>1, Zenon DEF RecordInv
    <3> QED BY <1>1, <1>3, <2>2, <3>2, SMTT(20) DEF Enters
  <2> QED BY <2>1, <2>2, Zenon
<1>5. RecordInv'
  BY <1>4, Zenon DEF RecordInv, Enters
<1>6. q \notin InFlight
  BY <1>1, <1>2, Zenon DEF Traced
<1>7. ASSUME NEW r
      PROVE  r \in InFlight' <=> r \in InFlight \/ r = q
  BY <1>1, ZenonT(30) DEF Traced, Enters
<1> QED BY <1>2, <1>5, <1>6, <1>7, Zenon

-----------------------------------------------------------------------------
(* Processing: the records of the first unit wait no more.                 *)

Leaves(R, x, z) ==
  /\ R \subseteq Records /\ emitted' = emitted /\ done' = done \cup R /\ plan' = plan
  /\ \A r \in R : Waits(r, x, z) /\ plan.table[BucketOf[r.key]] = z
  /\ \A u \in Upstreams, w \in Workers :
       /\ Clean(u, w)'
       /\ \A r \in Records : Waits(r, u, w)' <=> Waits(r, u, w) /\ r \notin R

LEMMA ProcessLeaves ==
  ASSUME PlanFacts, ProtocolInv, RecordInv, NEW x \in Upstreams, NEW z \in Workers, ProcessBatch(x, z)
  PROVE  Leaves(Range(Head(chan[<<x, z>>]).recs), x, z)
<1> DEFINE s == chan[<<x, z>>]
           R == Range(Head(s).recs)
<1>1. TypeInv
  BY Zenon DEF ProtocolInv
<1>2. plan' = plan /\ sender' = sender /\ emitted' = emitted /\ done' = done \cup R
  BY Zenon DEF ProcessBatch, coordVars
<1>3. Takes(x, z)
  BY <1>1, ConsumedTakes, Zenon DEF ProcessBatch
<1>4. s \in Seq(Units) /\ s # <<>> /\ chan'[<<x, z>>] = Tail(s) /\ Clean(x, z)
  BY <1>3, Zenon DEF Takes, RecordInv
<1>5. Apart(s) /\ Head(s) \in Units
  BY <1>4 DEF Clean
<1>6. Head(s).recs \in Seq(Records)
  BY <1>5, Zenon DEF Units
<1>7. R \subseteq Records
  BY <1>6 DEF Range
<1>8. /\ \A r \in Records : In(r, Tail(s)) <=> In(r, s) /\ r \notin R
      /\ \A r \in R : In(r, s)
      /\ Apart(Tail(s))
  BY <1>4, <1>5, InShrinks, Zenon
<1> HIDE DEF R, s
<1>9. \A r \in R : Waits(r, x, z)
  BY <1>8, Zenon DEF Waits, s
<1>10. \A r \in R : /\ plan.table[BucketOf[r.key]] = z
                    /\ \A u \in Upstreams : u # x => ~ Waits(r, u, z)
                    /\ \A u \in Upstreams, w \in Workers : w # z => ~ Waits(r, u, w)
  BY <1>7, <1>9, Zenon DEF RecordInv
<1>11. ASSUME NEW u \in Upstreams, NEW w \in Workers
       PROVE  /\ Clean(u, w)'
              /\ \A r \in Records : Waits(r, u, w)' <=> Waits(r, u, w) /\ r \notin R
  <2>1. Clean(u, w)
    BY Zenon DEF RecordInv
  <2>2. CASE u = x /\ w = z
    <3>1. \A r \in R : r \notin Range(sender[x].batches[z])
      BY <1>4, <1>7, <1>8, Zenon DEF Clean, s
    <3> QED BY <1>2, <1>4, <1>7, <1>8, <2>1, <2>2, <3>1, Zenon DEF Clean, Waits, s
  <2>3. CASE u # x \/ w # z
    <3>1. Clean(u, w)' /\ \A r \in Records : Waits(r, u, w)' <=> Waits(r, u, w)
      BY <1>2, <1>3, <2>1, <2>3, ZenonT(30) DEF Clean, Waits, Takes
    <3> QED BY <1>7, <1>10, <2>3, <3>1, Zenon
  <2> QED BY <2>2, <2>3, Zenon
<1>12. Leaves(R, x, z)
  BY <1>2, <1>7, <1>9, <1>10, <1>11, Zenon DEF Leaves
<1> QED BY <1>12, Zenon DEF R, s

LEMMA LeavesInv ==
  ASSUME TypeInv, TypeInv', RecordInv, NEW R, NEW x \in Upstreams, NEW z \in Workers, Leaves(R, x, z)
  PROVE  RecordInv' /\ R \subseteq InFlight /\ InFlight' = InFlight \ R
<1>1. Traced /\ Traced'
  BY InFlightTraced, InFlightTracedNext, Zenon
<1>2. ASSUME NEW u \in Upstreams, NEW w \in Workers, NEW r \in Records, Waits(r, u, w)'
      PROVE  /\ r.id <= emitted' /\ r \notin done' /\ plan'.table[BucketOf[r.key]] = w
             /\ \A v \in Upstreams : v # u => ~ Waits(r, v, w)'
  <2>1. Waits(r, u, w) /\ r \notin R
    BY <1>2, Zenon DEF Leaves
  <2>2. /\ r.id <= emitted /\ r \notin done /\ plan.table[BucketOf[r.key]] = w
        /\ \A v \in Upstreams : v # u => ~ Waits(r, v, w)
    BY <2>1, Zenon DEF RecordInv
  <2> QED BY <2>1, <2>2, Zenon DEF Leaves
<1>3. RecordInv'
  BY <1>2, Zenon DEF RecordInv, Leaves
<1>4. R \subseteq InFlight
  BY <1>1, Zenon DEF Traced, Leaves
<1>5. ASSUME NEW r
      PROVE  r \in InFlight' <=> r \in InFlight /\ r \notin R
  BY <1>1, Zenon DEF Traced, Leaves
<1> QED BY <1>3, <1>4, <1>5, Zenon

\* Buckets move when no record waits.
LEMMA ReconfigureKept ==
  ASSUME PlanFacts, ProtocolInv, RecordInv, ReconfigureStatefulOp
  PROVE  Kept /\ RecordInv'
<1>1. /\ step = "drain" /\ todo = {}
      /\ chan' = chan /\ sender' = sender /\ done' = done /\ emitted' = emitted
  BY Zenon DEF ReconfigureStatefulOp, netVars, pastVars
<1>2. Kept
  BY <1>1, UntouchedKept, Zenon
<1>3. ASSUME NEW u \in Upstreams, NEW w \in Workers, NEW r \in Records
      PROVE  ~ Waits(r, u, w)
  <2>1. chan[<<u, w>>] = <<>>
    BY <1>1, DrainedChannels, Zenon
  <2>2. sender[u].batches[w] = <<>>
    <3>1. SenderInv(u) /\ LinkInv(u, w)
      BY Zenon DEF ProtocolInv
    <3> QED BY <1>1, <3>1, Zenon DEF SenderInv, LinkInv, On
  <2> QED BY <2>1, <2>2, EmptyIn, Zenon DEF Waits
<1> QED BY <1>2, <1>3, Zenon DEF Kept, RecordInv

-----------------------------------------------------------------------------
(* Where the state of a key and its index entry are.                       *)

BucketsOf(m) == FromRanges(m.ranges)

\* Key k is one of a move that is not over.
Carries(m, k) == step = "migrate" /\ BucketOf[k] \in BucketsOf(m)
Carried(k) == \E m \in todo : Carries(m, k)

Untouched(k) == \A r \in done : r.key # k
Cleared(k) == \E r \in done : r.key = k /\ r.kind = "clear"
Exempt(k) == BucketOf[k] \in returned /\ Cleared(k)

\* Worker w has the state of k; it alone has, or waits for, the entry of k.
Valued(k, w) == store[w][k] = live[k] \/ Exempt(k)
Holds(w, k) == k \in index[w] \/ (w \notin assigned /\ k \in initMeta[w])
Indexed(k, w) == \A v \in Workers : Holds(v, k) <=> live[k] # {} /\ v = w

\* A worker has a copy only of keys that have records and that it owned once.  The
\* state is at the source until it is copied, the entry until it is taken.  The
\* destination has no copy unless the bucket returns to it.
PastInv(k) ==
  /\ live[k] = {} => Cleared(k) \/ Untouched(k)
  /\ \A w \in Workers : store[w][k] # {} => w \in history[BucketOf[k]] /\ ~ Untouched(k)
  /\ \A w \in Workers : w \notin assigned => k \notin index[w]

MovingInv(m, k) ==
  /\ Valued(k, m.src) /\ Indexed(k, IF m.taken THEN m.dst ELSE m.src)
  /\ BucketOf[k] \in returned \/ store[m.dst][k] = {}

HomeInv(k) ==
  /\ ~ Carried(k) => Valued(k, plan.table[BucketOf[k]]) /\ Indexed(k, plan.table[BucketOf[k]])
  /\ \A m \in todo : Carries(m, k) => MovingInv(m, k)

\* The moves are those of buckets that change hands, each of them in one move.
MoveInv ==
  step = "migrate" =>
    /\ \A m \in todo : /\ m.src \in assigned /\ m.src # m.dst
                       /\ \A b \in Buckets : b \in BucketsOf(m) => plan.table[b] = m.dst
    /\ \A m, n \in todo : \A b \in Buckets : b \in BucketsOf(m) /\ b \in BucketsOf(n) => m = n

StateTypes ==
  /\ store \in [Workers -> [Keys -> SUBSET (1 .. emitted)]]
  /\ live \in [Keys -> SUBSET (1 .. emitted)]
  /\ index \in [Workers -> SUBSET Keys] /\ initMeta \in [Workers -> SUBSET Keys]
  /\ done \subseteq Records /\ \A r \in done : r.id <= emitted
  /\ history \in [Buckets -> SUBSET Workers]
  /\ \A b \in Buckets : plan.table[b] \in history[b]

StateInv ==
  /\ StateTypes /\ MoveInv
  /\ \A k \in Keys : PastInv(k) /\ HomeInv(k)

\* What a batch does to the value of a key.
LEMMA ValueFacts ==
  ASSUME NEW recs \in Seq(Records), NEW k, NEW v, NEW u
  PROVE  /\ (\A i \in DOMAIN recs : recs[i].key # k) => Value(v, recs, k) = v
         /\ (\E i \in DOMAIN recs : recs[i].key = k) =>
              /\ Value(v, recs, k) = {} <=> Value(u, recs, k) = {}
              /\ Value(v, recs, k) = {} =>
                   \E i \in DOMAIN recs : recs[i].key = k /\ recs[i].kind = "clear"
         /\ \A x \in Value(v, recs, k) : x \in v \/ \E i \in DOMAIN recs : x = recs[i].id
<1> DEFINE mine == {i \in DOMAIN recs : recs[i].key = k}
           clears == {i \in mine : recs[i].kind = "clear"}
           kept == {i \in mine : \A c \in clears : i > c}
           ids == {recs[i].id : i \in kept}
<1>1. \A y : Value(y, recs, k) = (IF clears = {} THEN y ELSE {}) \cup ids
  BY Zenon DEF Value
<1>2. (\A i \in DOMAIN recs : recs[i].key # k) => clears = {} /\ ids = {}
  BY Zenon
<1>3. (\E i \in DOMAIN recs : recs[i].key = k) /\ clears = {} => ids # {}
  BY Zenon
<1>4. clears # {} => \E i \in DOMAIN recs : recs[i].key = k /\ recs[i].kind = "clear"
  BY Zenon
<1>5. \A x \in ids : \E i \in DOMAIN recs : x = recs[i].id
  BY Zenon
<1> HIDE DEF ids, clears
<1>6. Value(v, recs, k) = (IF clears = {} THEN v ELSE {}) \cup ids
  BY <1>1, Zenon
<1>7. Value(u, recs, k) = (IF clears = {} THEN u ELSE {}) \cup ids
  BY <1>1, Zenon
<1> QED BY <1>2, <1>3, <1>4, <1>5, <1>6, <1>7, Zenon

LEMMA FrameInv ==
  ASSUME TypeInv, StateInv, Frame, emitted' \in Nat, emitted' >= emitted
  PROVE  StateInv'
<1>1. UNCHANGED <<store, index, initMeta, done, live, returned, history, assigned>>
      /\ plan'.table = plan.table
  BY Zenon DEF Frame
<1>2. StateTypes'
  <2>1. emitted \in Nat /\ 1 .. emitted \subseteq 1 .. emitted'
    BY DEF TypeInv
  <2>2. StateTypes
    BY Zenon DEF StateInv
  <2>3. store' \in [Workers -> [Keys -> SUBSET (1 .. emitted')]]
    BY <1>1, <2>1, <2>2 DEF StateTypes
  <2>4. live' \in [Keys -> SUBSET (1 .. emitted')]
    BY <1>1, <2>1, <2>2, Zenon DEF StateTypes
  <2>5. \A r \in done' : r.id <= emitted'
    <3>1. \A r \in Records : r.id \in Nat
      BY DEF Records
    <3> QED BY <1>1, <2>1, <2>2, <3>1, SMTT(20) DEF StateTypes
  <2> QED BY <1>1, <2>2, <2>3, <2>4, <2>5, Zenon DEF StateTypes
<1>3. MoveInv'
  BY <1>1, Zenon DEF StateInv, MoveInv, Frame, BucketsOf
<1>4. ASSUME NEW k \in Keys
      PROVE  PastInv(k)' /\ HomeInv(k)'
  <2>1. PastInv(k) /\ HomeInv(k)
    BY Zenon DEF StateInv
  <2>2. /\ Untouched(k)' = Untouched(k) /\ Cleared(k)' = Cleared(k) /\ Exempt(k)' = Exempt(k)
        /\ \A w : Valued(k, w)' = Valued(k, w) /\ Indexed(k, w)' = Indexed(k, w)
    BY <1>1, Zenon DEF Untouched, Cleared, Exempt, Valued, Indexed, Holds
  <2>3. PastInv(k)'
    BY <1>1, <2>1, <2>2, Zenon DEF PastInv
  <2>4. HomeInv(k)'
    <3>1. CASE step' = step /\ todo' = todo
      BY <1>1, <2>1, <2>2, <3>1, Zenon DEF HomeInv, MovingInv, Carried, Carries, BucketsOf
    <3>2. CASE (step = "migrate" => todo = {}) /\ step' # "migrate"
      BY <1>1, <2>1, <2>2, <3>2, Zenon DEF HomeInv, Carried, Carries
    <3> QED BY <3>1, <3>2, Zenon DEF Frame
  <2> QED BY <2>3, <2>4, Zenon
<1> QED BY <1>2, <1>3, <1>4, Zenon DEF StateInv

\* While buckets move nothing is on a channel to be processed.
LEMMA NotMoving ==
  ASSUME ProtocolInv, NEW x \in Upstreams, NEW z \in Workers,
         Takes(x, z), Head(chan[<<x, z>>]).type = "batch"
  PROVE  step # "migrate"
<1> SUFFICES ASSUME step = "migrate" PROVE FALSE
  BY Zenon
<1>1. SenderInv(x) /\ LinkInv(x, z) /\ Still(x) /\ chan[<<x, z>>] # <<>>
  BY Zenon DEF ProtocolInv, StillInv, Takes
<1> QED BY <1>1, Zenon DEF LinkInv, SenderInv, Still, On

LEMMA ProcessState ==
  ASSUME PlanFacts, ProtocolInv, RecordInv, StateInv,
         NEW x \in Upstreams, NEW z \in Workers, ProcessBatch(x, z)
  PROVE  StateInv'
<1>1. TypeInv /\ OpenInv /\ StateTypes
  BY Zenon DEF ProtocolInv, StateInv
<1>2. Takes(x, z) /\ Head(chan[<<x, z>>]).type = "batch" /\ conn[<<x, z>>] = "open"
  BY <1>1, ConsumedTakes, Zenon DEF ProcessBatch
<1>3. PICK recs \in Seq(Records) : recs = Head(chan[<<x, z>>]).recs
  <2>1. Head(chan[<<x, z>>]) \in Units
    BY <1>2, SMTT(20) DEF Takes
  <2> QED BY <2>1, Zenon DEF Units
<1> DEFINE new == [k \in Keys |-> Value(store[z][k], recs, k)]
           keys == {recs[i].key : i \in DOMAIN recs}
<1>4. /\ step # "migrate" /\ step' # "migrate" /\ z \in assigned
      /\ UNCHANGED <<initMeta, returned, history, assigned, plan, emitted, step>>
  BY <1>1, <1>2, NotMoving, Zenon DEF ProcessBatch, coordVars, OpenInv
<1>5. /\ store' = [store EXCEPT ![z] = new]
      /\ index' = [index EXCEPT ![z] = (@ \ keys) \cup {k \in keys : new[k] # {}}]
      /\ done' = done \cup Range(recs)
      /\ live' = [k \in Keys |-> Value(live[k], recs, k)]
  BY <1>3, Zenon DEF ProcessBatch
<1>6. Leaves(Range(recs), x, z)
  BY <1>3, ProcessLeaves, Zenon
<1>7. \A i \in DOMAIN recs : /\ recs[i] \in Records /\ recs[i] \in Range(recs)
                             /\ recs[i].key \in Keys /\ recs[i].id \in Nat /\ recs[i].id > 0
                             /\ recs[i].id <= emitted
                             /\ plan.table[BucketOf[recs[i].key]] = z
  <2>1. \A i \in DOMAIN recs : recs[i] \in Records /\ recs[i] \in Range(recs)
    BY DEF Range
  <2>2. \A r \in Range(recs) : r.id <= emitted /\ plan.table[BucketOf[r.key]] = z
    BY <1>6, Zenon DEF Leaves, RecordInv
  <2> QED BY <2>1, <2>2 DEF Records
<1>8. ASSUME NEW v \in SUBSET (1 .. emitted), NEW k \in Keys
      PROVE  Value(v, recs, k) \in SUBSET (1 .. emitted)
  <2>1. \A e \in Value(v, recs, k) : e \in v \/ \E i \in DOMAIN recs : e = recs[i].id
    BY ValueFacts, Zenon
  <2>2. emitted \in Nat
    BY <1>1 DEF TypeInv
  <2>3. \A i \in DOMAIN recs : recs[i].id \in 1 .. emitted
    BY <1>7, <2>2
  <2>4. ASSUME NEW e \in Value(v, recs, k)
        PROVE  e \in 1 .. emitted
    BY <2>1, <2>3, ZenonT(30)
  <2> QED BY <2>4, Zenon
<1>9. \A r \in Range(recs) : \E i \in DOMAIN recs : r = recs[i]
  BY Zenon DEF Range
<1>10. StateTypes'
  <2>1. new \in [Keys -> SUBSET (1 .. emitted)]
    BY <1>1, <1>8 DEF StateTypes
  <2> HIDE DEF new
  <2>2. store' \in [Workers -> [Keys -> SUBSET (1 .. emitted')]]
    BY <1>1, <1>4, <1>5, <2>1, Zenon DEF StateTypes
  <2>3. live' \in [Keys -> SUBSET (1 .. emitted')]
    BY <1>1, <1>4, <1>5, <1>8, Zenon DEF StateTypes
  <2>4. keys \subseteq Keys
    BY <1>7, Zenon
  <2>5. index' \in [Workers -> SUBSET Keys]
    <3> HIDE DEF keys
    <3> QED BY <1>1, <1>5, <2>4, Zenon DEF StateTypes
  <2>6. done' \subseteq Records /\ \A r \in done' : r.id <= emitted'
    BY <1>1, <1>4, <1>5, <1>7, <1>9, Zenon DEF StateTypes
  <2> QED BY <1>1, <1>4, <2>2, <2>3, <2>5, <2>6, Zenon DEF StateTypes
<1>11. MoveInv'
  BY <1>4, Zenon DEF MoveInv
<1>12. ASSUME NEW k \in Keys
       PROVE  PastInv(k)' /\ HomeInv(k)'
  <2>1. PICK o \in Workers : o = plan.table[BucketOf[k]]
    BY ConstantsAssumption, Zenon DEF PlanFacts
  <2>2. PastInv(k) /\ Valued(k, o) /\ Indexed(k, o) /\ o \in history[BucketOf[k]]
    BY <1>1, <1>4, <2>1, ConstantsAssumption, Zenon DEF StateInv, HomeInv, Carried, Carries, StateTypes
  <2>3. ~ Carried(k)' /\ \A m : ~ Carries(m, k)'
    BY <1>4, Zenon DEF Carried, Carries
  <2>4. /\ live'[k] = Value(live[k], recs, k)
        /\ store'[z][k] = Value(store[z][k], recs, k)
        /\ \A w \in Workers : w # z => store'[w] = store[w] /\ index'[w] = index[w]
        /\ k \in index'[z] <=> (k \in index[z] /\ k \notin keys) \/ (k \in keys /\ store'[z][k] # {})
    BY <1>1, <1>5, Zenon DEF StateTypes
  <2>5. \A w \in Workers : Holds(w, k)' <=> k \in index'[w] \/ (w \notin assigned /\ k \in initMeta[w])
    BY <1>4, Zenon DEF Holds
  <2>6. CASE k \notin keys
    <3>1. /\ live'[k] = live[k] /\ store'[z][k] = store[z][k]
          /\ \A w \in Workers : k \in index'[w] <=> k \in index[w]
      BY <2>4, <2>6, ValueFacts, SMTT(20)
    <3>2. Untouched(k)' = Untouched(k) /\ Cleared(k)' = Cleared(k)
      BY <1>5, <1>9, <2>6, Zenon DEF Untouched, Cleared
    <3>3. \A w \in Workers : store'[w][k] = store[w][k]
      BY <2>4, <3>1, Zenon
    <3>4. PastInv(k)'
      BY <1>4, <2>2, <3>1, <3>2, <3>3, Zenon DEF PastInv
    <3>5. Valued(k, o)' /\ Indexed(k, o)'
      BY <1>4, <2>2, <2>5, <3>1, <3>2, <3>3, Zenon DEF Valued, Indexed, Exempt, Holds
    <3> QED BY <1>4, <2>1, <2>3, <3>4, <3>5, Zenon DEF HomeInv
  <2>7. CASE k \in keys
    <3>1. PICK i \in DOMAIN recs : recs[i].key = k
      BY <2>7, Zenon
    <3>2. o = z
      BY <1>7, <2>1, <3>1, Zenon
    <3>3. /\ live'[k] = {} <=> store'[z][k] = {}
          /\ live'[k] = {} => \E j \in DOMAIN recs : recs[j].key = k /\ recs[j].kind = "clear"
      BY <2>4, <3>1, ValueFacts, SMTT(20)
    <3>4. ~ Untouched(k)' /\ (live'[k] = {} => Cleared(k)') /\ (Cleared(k) => Cleared(k)')
      BY <1>5, <1>7, <3>1, <3>3, Zenon DEF Untouched, Cleared
    <3>5. PastInv(k)'
      BY <1>4, <2>2, <2>4, <3>2, <3>4, ZenonT(30) DEF PastInv
    <3>6. Valued(k, o)'
      BY <1>4, <2>2, <2>4, <3>2, <3>4, Zenon DEF Valued, Exempt
    <3>7. Indexed(k, o)'
      BY <1>4, <2>2, <2>4, <2>5, <2>7, <3>2, <3>3, ZenonT(30) DEF Indexed, Holds
    <3> QED BY <1>4, <2>1, <2>3, <3>5, <3>6, <3>7, Zenon DEF HomeInv
  <2> QED BY <2>6, <2>7, Zenon
<1> QED BY <1>10, <1>11, <1>12, Zenon DEF StateInv

\* The buckets of the moves from one table to another: those that change hands.
Split(ms, old, new) ==
  /\ \A m \in ms : /\ m.src # m.dst /\ m.taken = FALSE
                   /\ \E b \in Buckets : m.src = old[b]
                   /\ \A b \in Buckets : b \in BucketsOf(m) <=> old[b] = m.src /\ new[b] = m.dst
  /\ \A b \in Buckets : old[b] # new[b] => \E m \in ms : b \in BucketsOf(m)
  /\ \A m, n \in ms : m.src = n.src /\ m.dst = n.dst => m = n

LEMMA MoveBuckets ==
  ASSUME RangesFacts, NEW old \in [Buckets -> Workers], NEW new \in [Buckets -> Workers]
  PROVE  Split(Moves(old, new), old, new)
<1> DEFINE Between(s, d) == {b \in Buckets : old[b] = s /\ new[b] = d}
           Move(s, d) == [src |-> s, dst |-> d, ranges |-> ToRanges(Between(s, d)), taken |-> FALSE]
<1>1. ASSUME NEW m \in Moves(old, new)
      PROVE  \E b \in Buckets : old[b] # new[b] /\ m = Move(old[b], new[b])
  <2>1. PICK c \in OwnerChanges(old, new) :
          m = [src |-> c.src, dst |-> c.dst, ranges |-> c.ranges, taken |-> FALSE]
    BY Zenon DEF Moves
  <2>2. PICK p \in {<<old[b], new[b]>> : b \in {d \in Buckets : old[d] # new[d]}} :
          c = [src |-> p[1], dst |-> p[2],
               ranges |-> ToRanges({b \in Buckets : old[b] = p[1] /\ new[b] = p[2]})]
    BY Zenon DEF OwnerChanges
  <2>3. PICK b \in Buckets : old[b] # new[b] /\ p = <<old[b], new[b]>>
    BY <2>2, Zenon
  <2>4. p[1] = old[b] /\ p[2] = new[b]
    BY <2>3, Zenon
  <2>5. c.src = old[b] /\ c.dst = new[b] /\ c.ranges = ToRanges(Between(old[b], new[b]))
    BY <2>2, <2>4, Zenon
  <2> HIDE DEF Between
  <2> QED BY <2>1, <2>3, <2>5, Zenon
<1>2. ASSUME NEW b \in Buckets, old[b] # new[b]
      PROVE  Move(old[b], new[b]) \in Moves(old, new)
  <2> DEFINE c == [src |-> old[b], dst |-> new[b], ranges |-> ToRanges(Between(old[b], new[b]))]
             p == <<old[b], new[b]>>
  <2>1. p \in {<<old[e], new[e]>> : e \in {d \in Buckets : old[d] # new[d]}}
    BY <1>2, Zenon
  <2>2. p[1] = old[b] /\ p[2] = new[b]
    BY Zenon
  <2>3. c = [src |-> p[1], dst |-> p[2],
             ranges |-> ToRanges({e \in Buckets : old[e] = p[1] /\ new[e] = p[2]})]
    BY <2>2, Zenon
  <2> HIDE DEF p
  <2>4. c \in OwnerChanges(old, new)
    BY <2>1, <2>3, ZenonT(30) DEF OwnerChanges
  <2>5. c.src = old[b] /\ c.dst = new[b] /\ c.ranges = ToRanges(Between(old[b], new[b]))
    BY Zenon
  <2> HIDE DEF c, Between
  <2>6. Move(old[b], new[b]) = [src |-> c.src, dst |-> c.dst, ranges |-> c.ranges, taken |-> FALSE]
    BY <2>5, Zenon
  <2> QED BY <2>4, <2>6, Zenon DEF Moves
<1>3. ASSUME NEW s, NEW d
      PROVE  /\ Move(s, d).src = s /\ Move(s, d).dst = d /\ Move(s, d).taken = FALSE
             /\ BucketsOf(Move(s, d)) = Between(s, d)
  <2>1. Move(s, d).ranges = ToRanges(Between(s, d)) /\ Between(s, d) \in SUBSET Buckets
    BY Zenon
  <2>2. BucketsOf(Move(s, d)) = Between(s, d)
    BY <2>1, Zenon DEF RangesFacts, BucketsOf
  <2> QED BY <2>2, Zenon
<1>4. \A s, d : \A b \in Buckets : b \in Between(s, d) <=> old[b] = s /\ new[b] = d
  BY Zenon
<1> HIDE DEF Move, Between
<1>5. ASSUME NEW m \in Moves(old, new)
      PROVE  /\ m = Move(m.src, m.dst) /\ m.src # m.dst /\ m.taken = FALSE
             /\ \E b \in Buckets : m.src = old[b]
             /\ \A b \in Buckets : b \in BucketsOf(m) <=> old[b] = m.src /\ new[b] = m.dst
  <2>1. PICK c \in Buckets : old[c] # new[c] /\ m = Move(old[c], new[c])
    BY <1>1, Zenon
  <2>2. m.src = old[c] /\ m.dst = new[c] /\ m.taken = FALSE /\ BucketsOf(m) = Between(old[c], new[c])
    <3> DEFINE v == Move(old[c], new[c])
    <3>1. /\ v.src = old[c] /\ v.dst = new[c] /\ v.taken = FALSE
          /\ BucketsOf(v) = Between(old[c], new[c])
      BY <1>3, ZenonT(30)
    <3>2. m = v
      BY <2>1, Zenon
    <3> HIDE DEF v
    <3> QED BY <3>1, <3>2, Zenon
  <2> QED BY <1>4, <2>1, <2>2
<1>6. ASSUME NEW b \in Buckets, old[b] # new[b]
      PROVE  \E m \in Moves(old, new) : b \in BucketsOf(m)
  <2>1. Move(old[b], new[b]) \in Moves(old, new)
    BY <1>2, <1>6, Zenon
  <2>2. BucketsOf(Move(old[b], new[b])) = Between(old[b], new[b])
    BY <1>3, ZenonT(30)
  <2>3. b \in Between(old[b], new[b])
    BY <1>4, Zenon
  <2> QED BY <2>1, <2>2, <2>3, Zenon
<1>7. ASSUME NEW m \in Moves(old, new), NEW n \in Moves(old, new), m.src = n.src, m.dst = n.dst
      PROVE  m = n
  BY <1>5, <1>7, ZenonT(30)
<1>8. \A m, n \in Moves(old, new) : m.src = n.src /\ m.dst = n.dst => m = n
  BY <1>7, Zenon
<1> QED BY <1>5, <1>6, <1>8, Zenon DEF Split

LEMMA ReconfigureState ==
  ASSUME RangesFacts, PlanFacts, PlanFacts', ProtocolInv, StateInv, ReconfigureStatefulOp
  PROVE  StateInv' /\ \A m \in todo' : m.taken = FALSE
<1>1. PICK old \in [Buckets -> Workers], new \in [Buckets -> Workers] :
        old = plan.table /\ new = plan'.table
  BY Zenon DEF PlanFacts
<1>2. /\ step = "drain" /\ step' = "migrate" /\ todo' = Moves(old, new)
      /\ history' = [b \in Buckets |-> history[b] \cup {new[b]}]
      /\ returned' = returned \cup {b \in {c \in Buckets : new[c] # old[c]} : new[b] \in history[b]}
      /\ UNCHANGED <<store, index, initMeta, done, live, assigned, emitted>>
  <2>1. step = "drain" /\ ~ Refuses(job.policy, change.updated, plan.table)
    BY Zenon DEF ReconfigureStatefulOp, PlanFacts
  <2>2. plan'.table = RePartition(job.policy, change.updated, plan.table)
    BY <2>1, Zenon DEF ReconfigureStatefulOp, PlanFacts
  <2> QED BY <1>1, <2>1, <2>2, Zenon DEF ReconfigureStatefulOp, dataVars, pastVars
<1>3. /\ StateTypes /\ \A b \in Buckets : old[b] \in history[b]
      /\ \A b \in Buckets : old[b] \in assigned
  <2>1. plan.table \in [Buckets -> Tasks] /\ Tasks \subseteq assigned
    BY <1>2, Zenon DEF PlanFacts, Owners, Tasks, ProtocolInv, TaskInv
  <2> QED BY <1>1, <2>1, Zenon DEF StateInv, StateTypes
<1>4. /\ \A m \in todo' :
           /\ m.src # m.dst /\ m.taken = FALSE
           /\ \E b \in Buckets : m.src = old[b]
           /\ \A b \in Buckets : b \in BucketsOf(m) <=> old[b] = m.src /\ new[b] = m.dst
      /\ \A b \in Buckets : old[b] # new[b] => \E m \in todo' : b \in BucketsOf(m)
      /\ \A m, n \in todo' : m.src = n.src /\ m.dst = n.dst => m = n
  <2>1. Split(Moves(old, new), old, new)
    BY MoveBuckets, Zenon
  <2> QED BY <1>2, <2>1, Zenon DEF Split
<1>5. StateTypes'
  <2>1. history' \in [Buckets -> SUBSET Workers] /\ \A b \in Buckets : new[b] \in history'[b]
    BY <1>2, <1>1, <1>3, Zenon DEF StateTypes
  <2> QED BY <1>2, <1>1, <1>3, <2>1, Zenon DEF StateTypes
<1>6. MoveInv'
  <2>1. \A m \in todo' : m.src \in assigned' /\ m.src # m.dst
                         /\ \A b \in Buckets : b \in BucketsOf(m) => new[b] = m.dst
    BY <1>2, <1>3, <1>4, Zenon
  <2>2. \A m, n \in todo' : \A b \in Buckets : b \in BucketsOf(m) /\ b \in BucketsOf(n) => m = n
    BY <1>4
  <2> QED BY <1>1, <2>1, <2>2, Zenon DEF MoveInv, BucketsOf
<1>7. ASSUME NEW k \in Keys
      PROVE  PastInv(k)' /\ HomeInv(k)'
  <2>1. PICK b \in Buckets : b = BucketOf[k]
    BY ConstantsAssumption, Zenon
  <2>2. PastInv(k) /\ HomeInv(k)
    BY Zenon DEF StateInv
  <2>3. Valued(k, old[b]) /\ Indexed(k, old[b])
    BY <1>2, <1>1, <2>1, <2>2, Zenon DEF HomeInv, Carried, Carries
  <2>4. /\ Untouched(k)' = Untouched(k) /\ Cleared(k)' = Cleared(k) /\ (Exempt(k) => Exempt(k)')
        /\ \A w : (Valued(k, w) => Valued(k, w)') /\ (Indexed(k, w) <=> Indexed(k, w)')
    BY <1>2, Zenon DEF Untouched, Cleared, Exempt, Valued, Indexed, Holds
  <2>5. history[b] \subseteq history'[b]
    BY <1>2, Zenon
  <2>6. PastInv(k)'
    BY <1>2, <2>1, <2>2, <2>4, <2>5, Zenon DEF PastInv
  <2>7. \A m \in todo' : Carries(m, k)' <=> b \in BucketsOf(m)
    BY <1>2, <2>1, Zenon DEF Carries, BucketsOf
  <2>8. ASSUME NEW m \in todo', Carries(m, k)'
        PROVE  MovingInv(m, k)'
    <3>1. m.src = old[b] /\ m.dst = new[b] /\ m.src # m.dst /\ m.taken = FALSE
      BY <1>4, <2>7, <2>8, Zenon
    <3>2. Valued(k, m.src)' /\ Indexed(k, m.src)'
      BY <2>3, <2>4, <3>1, Zenon
    <3>3. b \in returned' \/ store[m.dst][k] = {}
      <4>1. CASE new[b] \in history[b]
        BY <1>2, <3>1, <4>1, Zenon
      <4>2. CASE new[b] \notin history[b]
        <5>1. m.dst \in Workers
          BY <1>1, <3>1, Zenon
        <5> QED BY <2>1, <2>2, <3>1, <4>2, <5>1, Zenon DEF PastInv
      <4> QED BY <4>1, <4>2, Zenon
    <3> QED BY <1>2, <2>1, <3>1, <3>2, <3>3, Zenon DEF MovingInv
  <2>9. ASSUME ~ Carried(k)'
        PROVE  Valued(k, new[b])' /\ Indexed(k, new[b])'
    <3>1. old[b] = new[b]
      BY <1>4, <2>7, <2>9, Zenon DEF Carried
    <3> QED BY <2>3, <2>4, <3>1, Zenon
  <2> QED BY <1>1, <2>1, <2>6, <2>8, <2>9, Zenon DEF HomeInv
<1> QED BY <1>4, <1>5, <1>6, <1>7, Zenon DEF StateInv

\* The entries of a move go from the source to the destination.
LEMMA MetadataState ==
  ASSUME ProtocolInv, StateInv, NEW m \in todo, MigrateTaskMetadata(m)
  PROVE  StateInv'
<1>1. /\ step = "migrate" /\ ~ m.taken /\ todo \subseteq MoveType
      /\ UNCHANGED <<step, plan, history, returned, assigned, store, emitted, done, live>>
      /\ todo' = (todo \ {m}) \cup {[m EXCEPT !.taken = TRUE]}
  BY Zenon DEF MigrateTaskMetadata, pastVars, ProtocolInv, TodoInv
<1>2. PICK t \in MoveType : /\ t = [m EXCEPT !.taken = TRUE]
                            /\ t.src = m.src /\ t.dst = m.dst /\ t.ranges = m.ranges /\ t.taken
  <2>1. [m EXCEPT !.taken = TRUE] \in MoveType
    BY <1>1, Zenon DEF MoveType
  <2> QED BY <1>1, <2>1, Zenon DEF MoveType
<1>3. /\ m.src \in Workers /\ m.dst \in Workers /\ m.src \in assigned /\ m.src # m.dst
      /\ BucketsOf(t) = BucketsOf(m)
      /\ MoveInv /\ StateTypes /\ index \in [Workers -> SUBSET Keys] /\ initMeta \in [Workers -> SUBSET Keys]
  BY <1>1, <1>2, Zenon DEF StateInv, MoveInv, MoveType, BucketsOf, StateTypes
<1> DEFINE ks == KeysOf(m.ranges) \cap index[m.src]
           rest == [index EXCEPT ![m.src] = @ \ ks]
<1>4. \/ /\ m.dst \in assigned
         /\ index' = [rest EXCEPT ![m.dst] = @ \cup ks] /\ initMeta' = initMeta
      \/ /\ m.dst \notin assigned
         /\ index' = rest /\ initMeta' = [initMeta EXCEPT ![m.dst] = @ \cup ks]
  BY Zenon DEF MigrateTaskMetadata, Extracted
<1>5. ks \subseteq Keys /\ \A k \in Keys : k \in ks <=> BucketOf[k] \in BucketsOf(m) /\ k \in index[m.src]
  BY Zenon DEF KeysOf, BucketsOf
<1> HIDE DEF ks
<1>6. /\ rest \in [Workers -> SUBSET Keys] /\ rest[m.src] = index[m.src] \ ks
      /\ \A w \in Workers : w # m.src => rest[w] = index[w]
  BY <1>3, Zenon
<1> HIDE DEF rest
<1>7. /\ index' \in [Workers -> SUBSET Keys] /\ initMeta' \in [Workers -> SUBSET Keys]
      /\ index'[m.src] = index[m.src] \ ks
      /\ \A w \in Workers : w # m.src /\ w # m.dst => index'[w] = index[w] /\ initMeta'[w] = initMeta[w]
      /\ m.dst \in assigned => index'[m.dst] = index[m.dst] \cup ks
      /\ m.dst \notin assigned => /\ index'[m.dst] = index[m.dst]
                                  /\ initMeta'[m.dst] = initMeta[m.dst] \cup ks
  BY <1>3, <1>4, <1>5, <1>6, SMTT(20)
<1>8. StateTypes'
  BY <1>1, <1>3, <1>7, Zenon DEF StateTypes
<1>9. MoveInv'
  <2>1. \A n \in todo' : \/ n \in todo /\ n # m
                         \/ n = t
    BY <1>1, <1>2, Zenon
  <2>2. /\ \A n \in todo : /\ n.src \in assigned /\ n.src # n.dst
                           /\ \A b \in Buckets : b \in BucketsOf(n) => plan.table[b] = n.dst
        /\ \A n, o \in todo : \A b \in Buckets : b \in BucketsOf(n) /\ b \in BucketsOf(o) => n = o
    BY <1>1, <1>3, Zenon DEF MoveInv
  <2>3. \A n \in todo' : /\ n.src \in assigned /\ n.src # n.dst
                         /\ \A b \in Buckets : b \in BucketsOf(n) => plan.table[b] = n.dst
    BY <1>2, <1>3, <2>1, <2>2, ZenonT(30)
  <2>4. \A n, o \in todo' : \A b \in Buckets : b \in BucketsOf(n) /\ b \in BucketsOf(o) => n = o
    BY <1>3, <2>1, <2>2, Zenon
  <2> QED BY <1>1, <2>3, <2>4, Zenon DEF MoveInv, BucketsOf
<1>10. ASSUME NEW k \in Keys
       PROVE  PastInv(k)' /\ HomeInv(k)'
  <2>1. PICK b \in Buckets : b = BucketOf[k]
    BY ConstantsAssumption, Zenon
  <2>2. PastInv(k) /\ HomeInv(k)
    BY Zenon DEF StateInv
  <2>3. /\ Untouched(k)' = Untouched(k) /\ Cleared(k)' = Cleared(k) /\ Exempt(k)' = Exempt(k)
        /\ \A w : Valued(k, w)' <=> Valued(k, w)
    BY <1>1, Zenon DEF Untouched, Cleared, Exempt, Valued
  <2>4. PastInv(k)'
    <3>1. \A w \in Workers : w \notin assigned => k \notin index'[w]
      BY <1>3, <1>7, <2>2, Zenon DEF PastInv
    <3> QED BY <1>1, <2>2, <2>3, <3>1, Zenon DEF PastInv
  <2>5. \A n : Carries(n, k)' <=> Carries(n, k)
    BY <1>1, Zenon DEF Carries, BucketsOf
  <2>6. CASE b \in BucketsOf(m)
    <3>1. \A n \in todo' : Carries(n, k)' => n = t
      BY <1>1, <1>2, <1>3, <2>1, <2>5, <2>6, Zenon DEF MoveInv, Carries
    <3>2. MovingInv(m, k)
      BY <1>1, <2>1, <2>2, <2>6, Zenon DEF HomeInv, Carries
    <3>3. Indexed(k, m.src) /\ Valued(k, m.src)
      BY <1>1, <3>2, Zenon DEF MovingInv
    <3>4. \A w \in Workers : Holds(w, k)' <=> live[k] # {} /\ w = m.dst
      <4>1. k \in index[m.src] <=> live[k] # {}
        BY <1>3, <3>3, Zenon DEF Indexed, Holds
      <4>2. k \in ks <=> live[k] # {}
        BY <1>5, <2>1, <2>6, <4>1, Zenon
      <4>3. ASSUME NEW w \in Workers
            PROVE  Holds(w, k)' <=> live[k] # {} /\ w = m.dst
        <5>1. CASE w = m.src
          BY <1>1, <1>3, <1>7, <4>1, <4>2, <5>1, Zenon DEF Holds
        <5>2. CASE w = m.dst
          <6>1. ~ Holds(m.dst, k)
            BY <1>3, <3>3, Zenon DEF Indexed
          <6> QED BY <1>1, <1>7, <4>2, <5>2, <6>1, Zenon DEF Holds
        <5>3. CASE w # m.src /\ w # m.dst
          BY <1>1, <1>7, <3>3, <5>3, Zenon DEF Holds, Indexed
        <5> QED BY <5>1, <5>2, <5>3, Zenon
      <4> QED BY <4>3, Zenon
    <3>5. Indexed(k, m.dst)'
      BY <1>1, <3>4, Zenon DEF Indexed
    <3>6. MovingInv(t, k)'
      BY <1>1, <1>2, <2>3, <3>2, <3>5, Zenon DEF MovingInv
    <3>7. t \in todo' /\ Carries(t, k)'
      BY <1>1, <1>2, <1>3, <2>1, <2>5, <2>6, Zenon DEF Carries
    <3> QED BY <2>4, <3>1, <3>6, <3>7, Zenon DEF HomeInv, Carried
  <2>7. CASE b \notin BucketsOf(m)
    <3>1. \A w \in Workers : Holds(w, k)' <=> Holds(w, k)
      <4>1. k \notin ks
        BY <1>5, <2>1, <2>7, Zenon
      <4> QED BY <1>1, <1>3, <1>7, <4>1, Zenon DEF Holds
    <3>2. \A w : Indexed(k, w)' <=> Indexed(k, w)
      BY <1>1, <3>1, Zenon DEF Indexed
    <3>3. \A n \in todo' : Carries(n, k)' => n \in todo /\ Carries(n, k)
      BY <1>1, <1>2, <1>3, <2>1, <2>5, <2>7, Zenon DEF Carries
    <3>4. Carried(k)' <=> Carried(k)
      BY <1>1, <1>2, <1>3, <2>1, <2>5, <2>7, Zenon DEF Carried, Carries
    <3>5. ASSUME NEW n \in todo', Carries(n, k)'
          PROVE  MovingInv(n, k)'
      <4>1. MovingInv(n, k)
        BY <2>2, <3>3, <3>5, Zenon DEF HomeInv
      <4> QED BY <1>1, <2>3, <3>2, <4>1, Zenon DEF MovingInv
    <3>6. ~ Carried(k)' => Valued(k, plan.table[BucketOf[k]]) /\ Indexed(k, plan.table[BucketOf[k]])
      BY <2>2, <3>4, Zenon DEF HomeInv
    <3>7. ~ Carried(k)' => (Valued(k, plan.table[BucketOf[k]]) /\ Indexed(k, plan.table[BucketOf[k]]))'
      <4>1. PICK w : w = plan.table[BucketOf[k]] /\ w = plan'.table[BucketOf[k]]
        BY <1>1, Zenon
      <4> QED BY <2>3, <3>2, <3>6, <4>1, Zenon
    <3> QED BY <2>4, <3>5, <3>7, Zenon DEF HomeInv
  <2> QED BY <2>6, <2>7, Zenon
<1> QED BY <1>8, <1>9, <1>10, Zenon DEF StateInv

\* The state of a move is copied, and the move is over.
LEMMA PullState ==
  ASSUME ProtocolInv, StateInv, NEW m \in todo, PullStatePartition(m)
  PROVE  StateInv'
<1>1. /\ step = "migrate" /\ m.taken /\ todo \subseteq MoveType /\ todo' = todo \ {m}
      /\ UNCHANGED <<step, plan, history, returned, assigned, index, initMeta, emitted, done, live>>
  BY Zenon DEF PullStatePartition, pastVars, ProtocolInv, TodoInv, Acked
<1>2. /\ m.src \in Workers /\ m.dst \in Workers /\ MoveInv /\ StateTypes
      /\ \A b \in Buckets : b \in BucketsOf(m) => plan.table[b] = m.dst
  BY <1>1, Zenon DEF StateInv, MoveInv, MoveType
<1> DEFINE got == [k \in Keys |-> IF k \in KeysOf(m.ranges) THEN Pulled(m, k) ELSE store[m.dst][k]]
<1>3. store' = [store EXCEPT ![m.dst] = got]
  BY <1>2, Zenon DEF PullStatePartition, StateTypes
<1>4. \A k \in Keys : /\ k \in KeysOf(m.ranges) <=> BucketOf[k] \in BucketsOf(m)
                      /\ Pulled(m, k) \in SUBSET (1 .. emitted)
  BY <1>2 DEF KeysOf, BucketsOf, Pulled, StateTypes
<1>5. got \in [Keys -> SUBSET (1 .. emitted)]
  BY <1>2, <1>4 DEF StateTypes
<1>6. \A k \in Keys : got[k] = IF BucketOf[k] \in BucketsOf(m) THEN Pulled(m, k) ELSE store[m.dst][k]
  BY <1>4, Zenon
<1> HIDE DEF got
<1>7. /\ store' \in [Workers -> [Keys -> SUBSET (1 .. emitted)]] /\ store'[m.dst] = got
      /\ \A w \in Workers : w # m.dst => store'[w] = store[w]
  BY <1>2, <1>3, <1>5, Zenon DEF StateTypes
<1>8. StateTypes'
  BY <1>1, <1>2, <1>7, Zenon DEF StateTypes
<1>9. MoveInv'
  BY <1>1, <1>2, Zenon DEF MoveInv, BucketsOf
<1>10. ASSUME NEW k \in Keys
       PROVE  PastInv(k)' /\ HomeInv(k)'
  <2>1. PICK b \in Buckets : b = BucketOf[k]
    BY ConstantsAssumption, Zenon
  <2>2. PastInv(k) /\ HomeInv(k) /\ plan.table[b] \in history[b]
    BY <1>2, Zenon DEF StateInv, StateTypes
  <2>3. /\ Untouched(k)' = Untouched(k) /\ Cleared(k)' = Cleared(k) /\ Exempt(k)' = Exempt(k)
        /\ \A w : Indexed(k, w)' <=> Indexed(k, w)
        /\ \A n : Carries(n, k)' <=> Carries(n, k)
    BY <1>1, Zenon DEF Untouched, Cleared, Exempt, Indexed, Holds, Carries, BucketsOf
  <2>4. CASE b \in BucketsOf(m)
    <3>1. MovingInv(m, k)
      BY <1>1, <2>1, <2>2, <2>4, Zenon DEF HomeInv, Carries
    <3>2. /\ Valued(k, m.src) /\ Indexed(k, m.dst)
          /\ b \in returned \/ store[m.dst][k] = {}
      BY <1>1, <2>1, <3>1, Zenon DEF MovingInv
    <3>3. /\ \A w \in Workers : w # m.dst => store'[w][k] = store[w][k]
          /\ store'[m.dst][k] = IF store[m.src][k] # {} THEN store[m.src][k] ELSE store[m.dst][k]
      BY <1>6, <1>7, <2>1, <2>4, Zenon DEF Pulled
    <3>4. PastInv(k)'
      <4>1. m.dst \in history[b]
        BY <1>2, <2>2, <2>4, Zenon
      <4> QED BY <1>1, <1>2, <2>1, <2>2, <2>3, <3>3, <4>1, Zenon DEF PastInv
    <3>5. Valued(k, m.dst)'
      <4>1. CASE Exempt(k)
        BY <2>3, <4>1, Zenon DEF Valued
      <4>2. CASE ~ Exempt(k)
        <5>1. store[m.src][k] = live[k]
          BY <3>2, <4>2, Zenon DEF Valued
        <5>2. live[k] = {} => store[m.dst][k] = {}
          BY <1>2, <2>1, <2>2, <3>2, <4>2, Zenon DEF PastInv, Exempt
        <5> QED BY <1>1, <3>3, <5>1, <5>2, ZenonT(30) DEF Valued
      <4> QED BY <4>1, <4>2, Zenon
    <3>6. \A n \in todo' : ~ Carries(n, k)'
      BY <1>1, <1>2, <2>1, <2>3, <2>4, Zenon DEF MoveInv, Carries
    <3>7. (Valued(k, plan.table[BucketOf[k]]) /\ Indexed(k, plan.table[BucketOf[k]]))'
      <4>1. PICK w : w = m.dst /\ w = plan'.table[BucketOf[k]]
        BY <1>1, <1>2, <2>1, <2>4, Zenon
      <4> QED BY <2>3, <3>2, <3>5, <4>1, Zenon
    <3> QED BY <3>4, <3>6, <3>7, Zenon DEF HomeInv
  <2>5. CASE b \notin BucketsOf(m)
    <3>1. \A w \in Workers : store'[w][k] = store[w][k]
      BY <1>6, <1>7, <2>1, <2>5, Zenon
    <3>2. \A w \in Workers : Valued(k, w)' <=> Valued(k, w)
      BY <1>1, <2>3, <3>1, Zenon DEF Valued
    <3>3. PastInv(k)'
      BY <1>1, <2>2, <2>3, <3>1, Zenon DEF PastInv
    <3>4. Carried(k)' <=> Carried(k)
      BY <1>1, <2>1, <2>3, <2>5, Zenon DEF Carried, Carries
    <3>5. ASSUME NEW n \in todo', Carries(n, k)'
          PROVE  MovingInv(n, k)'
      <4>1. MovingInv(n, k) /\ n.src \in Workers /\ n.dst \in Workers
        BY <1>1, <2>2, <2>3, <3>5, Zenon DEF HomeInv, MoveType
      <4> QED BY <1>1, <2>3, <3>1, <3>2, <4>1, Zenon DEF MovingInv
    <3>6. ~ Carried(k)' => (Valued(k, plan.table[BucketOf[k]]) /\ Indexed(k, plan.table[BucketOf[k]]))'
      <4>1. PICK w \in Workers : w = plan.table[BucketOf[k]] /\ w = plan'.table[BucketOf[k]]
        BY <1>1, <1>2, <2>1, <2>2, Zenon DEF StateTypes
      <4>2. ~ Carried(k)' => Valued(k, w) /\ Indexed(k, w)
        BY <2>2, <3>4, <4>1, Zenon DEF HomeInv
      <4> QED BY <2>3, <3>2, <4>1, <4>2, Zenon
    <3> QED BY <3>3, <3>5, <3>6, Zenon DEF HomeInv
  <2> QED BY <2>4, <2>5, Zenon
<1> QED BY <1>8, <1>9, <1>10, Zenon DEF StateInv

\* A new task takes the entries that waited for it.
LEMMA StartTaskState ==
  ASSUME PlanFacts, ProtocolInv, StateInv, NEW x \in Workers, HandleTaskAssignment(x)
  PROVE  StateInv'
<1>1. x \notin Upstreams
  BY ConstantsAssumption, Zenon
<1>2. /\ step \in {"deploy", "tasks"} /\ x \in todo /\ (step = "tasks" => x \in change.added)
      /\ assigned' = assigned \cup {x} /\ index' = [index EXCEPT ![x] = initMeta[x]]
      /\ UNCHANGED <<step, plan, history, returned, store, initMeta, emitted, done, live>>
  BY <1>1, Zenon DEF HandleTaskAssignment, pastVars
<1>3. x \notin assigned /\ StateTypes
  BY <1>2, Zenon DEF ProtocolInv, TaskInv, StateInv
<1>4. /\ index' \in [Workers -> SUBSET Keys] /\ index'[x] = initMeta[x]
      /\ \A w \in Workers : w # x => index'[w] = index[w]
  BY <1>2, <1>3, Zenon DEF StateTypes
<1>5. StateTypes' /\ MoveInv'
  BY <1>2, <1>3, <1>4, Zenon DEF StateTypes, MoveInv
<1>6. ASSUME NEW k \in Keys
      PROVE  PastInv(k)' /\ HomeInv(k)'
  <2>1. PastInv(k) /\ HomeInv(k)
    BY Zenon DEF StateInv
  <2>2. \A w \in Workers : Holds(w, k)' <=> Holds(w, k)
    BY <1>2, <1>3, <1>4, <2>1, Zenon DEF Holds, PastInv
  <2>3. /\ Untouched(k)' = Untouched(k) /\ Cleared(k)' = Cleared(k) /\ Exempt(k)' = Exempt(k)
        /\ \A w : (Valued(k, w)' <=> Valued(k, w)) /\ (Indexed(k, w)' <=> Indexed(k, w))
        /\ \A m : ~ Carries(m, k)' /\ ~ Carries(m, k)
    BY <1>2, <2>2, Zenon DEF Untouched, Cleared, Exempt, Valued, Indexed, Carries
  <2>4. PastInv(k)'
    BY <1>2, <1>4, <2>1, <2>3, Zenon DEF PastInv
  <2>5. PICK w : w = plan.table[BucketOf[k]] /\ w = plan'.table[BucketOf[k]]
    BY <1>2, Zenon
  <2>6. Valued(k, w) /\ Indexed(k, w)
    BY <2>1, <2>3, <2>5, Zenon DEF HomeInv, Carried
  <2>7. Valued(k, w)' /\ Indexed(k, w)'
    BY <2>3, <2>6, Zenon
  <2> QED BY <2>3, <2>4, <2>5, <2>7, Zenon DEF HomeInv
<1> QED BY <1>5, <1>6, Zenon DEF StateInv

-----------------------------------------------------------------------------
(* The owner of a key, and the promise of KeyOwnership.                    *)

HomeFacts ==
  \A k \in Keys :
    /\ ~ Carried(k) => Home(k) = plan.table[BucketOf[k]]
    /\ \A m \in todo : Carries(m, k) => Home(k) = IF m.taken THEN Moving ELSE m.src

LEMMA HomeIs == MoveInv => HomeFacts
<1> SUFFICES ASSUME MoveInv, NEW k \in Keys
             PROVE  /\ ~ Carried(k) => Home(k) = plan.table[BucketOf[k]]
                    /\ \A m \in todo : Carries(m, k) =>
                         Home(k) = IF m.taken THEN Moving ELSE m.src
  BY Zenon DEF HomeFacts
<1> DEFINE pending == {m \in todo : BucketOf[k] \in FromRanges(m.ranges)}
<1>1. Home(k) = IF step = "migrate" /\ pending # {}
                  THEN IF (CHOOSE m \in pending : TRUE).taken THEN Moving
                                                             ELSE (CHOOSE m \in pending : TRUE).src
                  ELSE plan.table[BucketOf[k]]
  BY Zenon DEF Home
<1>2. ~ Carried(k) => Home(k) = plan.table[BucketOf[k]]
  <2>1. ~ Carried(k) => ~ (step = "migrate" /\ pending # {})
    BY Zenon DEF Carried, Carries, BucketsOf
  <2> QED BY <1>1, <2>1, Zenon
<1>3. ASSUME NEW m \in todo, Carries(m, k)
      PROVE  Home(k) = IF m.taken THEN Moving ELSE m.src
  <2>1. step = "migrate" /\ m \in pending
    BY <1>3, Zenon DEF Carries, BucketsOf
  <2>2. \A n \in pending : n = m
    BY <1>3, <2>1, ConstantsAssumption, Zenon DEF MoveInv, Carries, BucketsOf
  <2> HIDE DEF pending
  <2>3. (CHOOSE n \in pending : TRUE) = m
    BY <2>1, <2>2, Zenon
  <2> QED BY <1>1, <2>1, <2>3, ZenonT(30)
<1> QED BY <1>2, <1>3, Zenon

LEMMA HomeIsNext == MoveInv' => HomeFacts'
  BY HomeIs, PTL

LEMMA OwnerComplete ==
  ASSUME StateInv
  PROVE  StateComplete
<1> SUFFICES ASSUME NEW k \in Keys
             PROVE  Home(k) = Moving \/ Valued(k, Home(k))
  BY Zenon DEF StateComplete, Valued, Exempt, Cleared
<1>1. HomeFacts /\ HomeInv(k)
  BY HomeIs, Zenon DEF StateInv
<1>2. CASE Carried(k)
  <2>1. PICK m \in todo : Carries(m, k)
    BY <1>2, Zenon DEF Carried
  <2>2. Valued(k, m.src)
    BY <1>1, <2>1, Zenon DEF HomeInv, MovingInv
  <2>3. Home(k) = Moving \/ Home(k) = m.src
    BY <1>1, <2>1, Zenon DEF HomeFacts
  <2> QED BY <2>2, <2>3, Zenon
<1>3. CASE ~ Carried(k)
  BY <1>1, <1>3, Zenon DEF HomeFacts, HomeInv
<1> QED BY <1>2, <1>3, Zenon

LEMMA EntryAtOwner ==
  ASSUME PlanFacts, ProtocolInv, StateInv
  PROVE  IndexTracksState
<1> SUFFICES ASSUME NEW k \in Keys, Home(k) # Moving
             PROVE  Home(k) \in Workers /\ Indexed(k, Home(k))
  BY ZenonT(30) DEF IndexTracksState, Indexed, Holds
<1>1. HomeFacts /\ HomeInv(k)
  BY HomeIs, Zenon DEF StateInv
<1>2. CASE Carried(k)
  <2>1. PICK m \in todo : Carries(m, k)
    BY <1>2, Zenon DEF Carried
  <2>2. Home(k) = m.src /\ ~ m.taken
    BY <1>1, <2>1, Zenon DEF HomeFacts
  <2>3. m.src \in Workers
    BY <2>1, Zenon DEF Carries, ProtocolInv, TodoInv, MoveType
  <2> QED BY <1>1, <2>1, <2>2, <2>3, Zenon DEF HomeInv, MovingInv
<1>3. CASE ~ Carried(k)
  BY <1>1, <1>3, ConstantsAssumption DEF HomeFacts, HomeInv, PlanFacts
<1> QED BY <1>2, <1>3, Zenon

\* A step of the abstract specification, or one that it does not see.
OwnershipStep == Ownership!Next \/ UNCHANGED <<[k \in Keys |-> Home(k)], InFlight, done>>

LEMMA FrameHome ==
  ASSUME HomeFacts, HomeFacts', Frame
  PROVE  [k \in Keys |-> Home(k)]' = [k \in Keys |-> Home(k)]
<1>1. ASSUME NEW k \in Keys
      PROVE  Home(k)' = Home(k)
  <2>1. plan'.table = plan.table
    BY Zenon DEF Frame
  <2>2. CASE step' = step /\ todo' = todo
    BY <2>1, <2>2 DEF Home
  <2>3. CASE (step = "migrate" => todo = {}) /\ step' # "migrate"
    <3>1. ~ Carried(k) /\ ~ Carried(k)'
      BY <2>3, Zenon DEF Carried, Carries
    <3> QED BY <2>1, <3>1, Zenon DEF HomeFacts
  <2> QED BY <2>2, <2>3, Zenon DEF Frame
<1> QED BY <1>1, Zenon

LEMMA IdlesStep ==
  ASSUME TypeInv, TypeInv', HomeFacts, HomeFacts', Idles
  PROVE  OwnershipStep
<1>1. InFlight' = InFlight /\ done' = done
  BY KeptInFlight, Zenon DEF Idles, Kept
<1>2. [k \in Keys |-> Home(k)]' = [k \in Keys |-> Home(k)]
  BY FrameHome, Zenon DEF Idles
<1> QED BY <1>1, <1>2, Zenon DEF OwnershipStep

LEMMA EmitStep ==
  ASSUME HomeFacts, HomeFacts', Frame, NEW q \in Records, q \notin InFlight \cup done,
         InFlight' = InFlight \cup {q}
  PROVE  OwnershipStep
<1>1. [k \in Keys |-> Home(k)]' = [k \in Keys |-> Home(k)] /\ done' = done
  BY FrameHome, Zenon DEF Frame
<1>2. Ownership!Emit(q)
  BY <1>1, Zenon DEF Ownership!Emit
<1> QED BY <1>2, Zenon DEF OwnershipStep, Ownership!Next

LEMMA ProcessStep ==
  ASSUME HomeFacts, HomeFacts', step # "migrate", step' = step, plan' = plan,
         NEW z \in Workers, NEW R, R \subseteq Records, R \subseteq InFlight, InFlight' = InFlight \ R,
         done' = done \cup R, \A r \in R : plan.table[BucketOf[r.key]] = z
  PROVE  OwnershipStep
<1>1. \A k \in Keys : Home(k) = plan.table[BucketOf[k]] /\ Home(k)' = plan.table[BucketOf[k]]
  BY Zenon DEF HomeFacts, Carried, Carries
<1>2. [k \in Keys |-> Home(k)]' = [k \in Keys |-> Home(k)]
  BY <1>1, Zenon
<1>3. \A r \in R : r.key \in Keys
  BY Zenon DEF Records
<1>4. \A r \in R : [k \in Keys |-> Home(k)][r.key] = z
  BY <1>1, <1>3, Zenon
<1>5. Ownership!Process(z, R)
  BY <1>2, <1>4, Zenon DEF Ownership!Process
<1> QED BY <1>5, Zenon DEF OwnershipStep, Ownership!Next

\* A move that begins, and one that ends.
LEMMA MetadataStep ==
  ASSUME ProtocolInv, MoveInv, HomeFacts, HomeFacts', InFlight' = InFlight,
         NEW m \in todo, MigrateTaskMetadata(m)
  PROVE  OwnershipStep
<1> DEFINE ks == KeysOf(m.ranges)
<1>1. /\ step = "migrate" /\ step' = step /\ plan' = plan /\ done' = done /\ ~ m.taken
      /\ todo' = (todo \ {m}) \cup {[m EXCEPT !.taken = TRUE]} /\ todo \subseteq MoveType
  BY Zenon DEF MigrateTaskMetadata, pastVars, ProtocolInv, TodoInv
<1>2. PICK t \in MoveType : /\ t = [m EXCEPT !.taken = TRUE]
                            /\ t.src = m.src /\ t.dst = m.dst /\ t.ranges = m.ranges /\ t.taken
  <2>1. [m EXCEPT !.taken = TRUE] \in MoveType
    BY <1>1, ZenonT(30) DEF MoveType
  <2> QED BY <1>1, <2>1, Zenon DEF MoveType
<1>3. m.src \in Workers /\ \A k \in Keys : k \in ks <=> Carries(m, k)
  BY <1>1, Zenon DEF MoveType, KeysOf, Carries, BucketsOf
<1>4. \A n : \A k \in Keys : /\ Carries(n, k)' <=> Carries(n, k)
                             /\ Carries(t, k) <=> Carries(m, k)
  BY <1>1, <1>2, Zenon DEF Carries, BucketsOf
<1>5. \A k \in Keys : \A n \in todo : Carries(m, k) /\ Carries(n, k) => n = m
  BY <1>1, ConstantsAssumption, Zenon DEF MoveInv, Carries
<1>6. ASSUME NEW k \in Keys, k \in ks
      PROVE  Home(k) = m.src /\ Home(k)' = Moving
  <2>1. Home(k) = m.src
    BY <1>1, <1>3, <1>6, Zenon DEF HomeFacts
  <2>2. t \in todo' /\ Carries(t, k)'
    BY <1>1, <1>2, <1>3, <1>4, <1>6, Zenon
  <2>3. Home(k)' = Moving
    BY <1>2, <2>2, ZenonT(30) DEF HomeFacts
  <2> QED BY <2>1, <2>3, Zenon
<1>7. ASSUME NEW k \in Keys, k \notin ks
      PROVE  Home(k)' = Home(k)
  <2>1. CASE Carried(k)
    <3>1. PICK n \in todo : Carries(n, k)
      BY <2>1, Zenon DEF Carried
    <3>2. n \in todo' /\ Carries(n, k)'
      BY <1>1, <1>3, <1>4, <1>7, <3>1, Zenon
    <3> QED BY <3>1, <3>2, ZenonT(30) DEF HomeFacts
  <2>2. CASE ~ Carried(k)
    <3>1. ~ Carried(k)'
      BY <1>1, <1>2, <1>3, <1>4, <1>7, <2>2, Zenon DEF Carried
    <3> QED BY <1>1, <2>2, <3>1, Zenon DEF HomeFacts
  <2> QED BY <2>1, <2>2, Zenon
<1>8. ks \in SUBSET Keys
  BY Zenon DEF KeysOf
<1> HIDE DEF ks
<1>9. [k \in Keys |-> Home(k)]'
        = [k \in Keys |-> IF k \in ks THEN Moving ELSE [l \in Keys |-> Home(l)][k]]
  BY <1>6, <1>7, Zenon
<1>10. \A k \in ks : [l \in Keys |-> Home(l)][k] = m.src
  BY <1>6, <1>8, Zenon
<1>11. Ownership!Release(m.src, ks)
  BY <1>1, <1>9, <1>10, Zenon DEF Ownership!Release
<1> QED BY <1>3, <1>8, <1>11, Zenon DEF OwnershipStep, Ownership!Next

LEMMA PullStep ==
  ASSUME ProtocolInv, MoveInv, HomeFacts, HomeFacts', InFlight' = InFlight,
         NEW m \in todo, PullStatePartition(m)
  PROVE  OwnershipStep
<1> DEFINE ks == KeysOf(m.ranges)
<1>1. /\ step = "migrate" /\ step' = step /\ plan' = plan /\ done' = done /\ m.taken
      /\ todo' = todo \ {m} /\ todo \subseteq MoveType
  BY Zenon DEF PullStatePartition, pastVars, ProtocolInv, TodoInv, Acked
<1>2. m.dst \in Workers /\ \A k \in Keys : k \in ks <=> Carries(m, k)
  BY <1>1, Zenon DEF MoveType, KeysOf, Carries, BucketsOf
<1>3. \A n : \A k \in Keys : Carries(n, k)' <=> Carries(n, k)
  BY <1>1, Zenon DEF Carries, BucketsOf
<1>4. \A k \in Keys : /\ \A n \in todo : Carries(m, k) /\ Carries(n, k) => n = m
                      /\ Carries(m, k) => plan.table[BucketOf[k]] = m.dst
  BY <1>1, ConstantsAssumption, Zenon DEF MoveInv, Carries
<1>5. ASSUME NEW k \in Keys, k \in ks
      PROVE  Home(k) = Moving /\ Home(k)' = m.dst
  <2>1. Home(k) = Moving
    BY <1>1, <1>2, <1>5, Zenon DEF HomeFacts
  <2>2. ~ Carried(k)'
    BY <1>1, <1>2, <1>3, <1>4, <1>5, Zenon DEF Carried
  <2>3. Home(k)' = m.dst
    BY <1>1, <1>2, <1>4, <1>5, <2>2, Zenon DEF HomeFacts
  <2> QED BY <2>1, <2>3, Zenon
<1>6. ASSUME NEW k \in Keys, k \notin ks
      PROVE  Home(k)' = Home(k)
  <2>1. CASE Carried(k)
    <3>1. PICK n \in todo : Carries(n, k)
      BY <2>1, Zenon DEF Carried
    <3>2. n \in todo' /\ Carries(n, k)'
      BY <1>1, <1>2, <1>3, <1>6, <3>1, Zenon
    <3> QED BY <3>1, <3>2, ZenonT(30) DEF HomeFacts
  <2>2. CASE ~ Carried(k)
    <3>1. ~ Carried(k)'
      BY <1>1, <1>3, <2>2, Zenon DEF Carried
    <3> QED BY <1>1, <2>2, <3>1, Zenon DEF HomeFacts
  <2> QED BY <2>1, <2>2, Zenon
<1>7. ks \in SUBSET Keys
  BY Zenon DEF KeysOf
<1> HIDE DEF ks
<1>8. [k \in Keys |-> Home(k)]'
        = [k \in Keys |-> IF k \in ks THEN m.dst ELSE [l \in Keys |-> Home(l)][k]]
  BY <1>5, <1>6, Zenon
<1>9. \A k \in ks : [l \in Keys |-> Home(l)][k] = Moving
  BY <1>5, <1>7, Zenon
<1>10. Ownership!Acquire(m.dst, ks)
  BY <1>1, <1>8, <1>9, Zenon DEF Ownership!Acquire
<1> QED BY <1>2, <1>7, <1>10, Zenon DEF OwnershipStep, Ownership!Next

-----------------------------------------------------------------------------
(* The two invariants together, and the step of the abstract specification. *)

LEMMA ReconfigureStep ==
  ASSUME RangesFacts, PlanFacts, PlanFacts', ProtocolInv, TypeInv', MoveInv, HomeFacts', Kept,
         ReconfigureStatefulOp
  PROVE  OwnershipStep
<1>1. PICK old \in [Buckets -> Workers], new \in [Buckets -> Workers] :
        old = plan.table /\ new = plan'.table
  BY Zenon DEF PlanFacts
<1>2. step = "drain" /\ step' = "migrate" /\ todo' = Moves(old, new)
  <2>1. step = "drain" /\ ~ Refuses(job.policy, change.updated, plan.table)
    BY Zenon DEF ReconfigureStatefulOp, PlanFacts
  <2>2. plan'.table = RePartition(job.policy, change.updated, plan.table)
    BY <2>1, Zenon DEF ReconfigureStatefulOp, PlanFacts
  <2> QED BY <1>1, <2>1, <2>2, Zenon DEF ReconfigureStatefulOp
<1>3. Split(todo', old, new)
  BY <1>2, MoveBuckets, Zenon
<1>4. ASSUME NEW k \in Keys
      PROVE  Home(k)' = Home(k)
  <2>1. BucketOf[k] \in Buckets /\ Home(k) = old[BucketOf[k]]
    BY <1>1, <1>2, ConstantsAssumption, Zenon DEF Home
  <2>2. CASE Carried(k)'
    <3>1. PICK m \in todo' : Carries(m, k)'
      BY <2>2, Zenon DEF Carried
    <3>2. Home(k)' = IF m.taken THEN Moving ELSE m.src
      BY <3>1, Zenon DEF HomeFacts
    <3>3. BucketOf[k] \in BucketsOf(m)
      BY <3>1, Zenon DEF Carries, BucketsOf
    <3>4. m.taken = FALSE /\ m.src = old[BucketOf[k]]
      BY <1>3, <2>1, <3>1, <3>3, Zenon DEF Split
    <3> QED BY <2>1, <3>2, <3>4, Zenon
  <2>3. CASE ~ Carried(k)'
    <3>1. Home(k)' = new[BucketOf[k]]
      BY <1>1, <2>3, Zenon DEF HomeFacts
    <3>2. \A m \in todo' : BucketOf[k] \notin BucketsOf(m)
      BY <1>2, <2>3, Zenon DEF Carried, Carries, BucketsOf
    <3>3. old[BucketOf[k]] = new[BucketOf[k]]
      BY <1>3, <2>1, <3>2, Zenon DEF Split
    <3> QED BY <2>1, <3>1, <3>3, Zenon
  <2> QED BY <2>2, <2>3, Zenon
<1>5. [k \in Keys |-> Home(k)]' = [k \in Keys |-> Home(k)]
  BY <1>4, Zenon
<1>6. InFlight' = InFlight /\ done' = done
  BY KeptInFlight, Zenon DEF ProtocolInv, Kept
<1> QED BY <1>5, <1>6, Zenon DEF OwnershipStep

LEMMA StartTaskStep ==
  ASSUME PlanFacts, ProtocolInv, TypeInv', RecordInv, HomeFacts, HomeFacts',
         NEW x \in Workers, HandleTaskAssignment(x)
  PROVE  Kept /\ plan' = plan /\ OwnershipStep
<1>1. x \notin Upstreams
  BY ConstantsAssumption, Zenon
<1>2. /\ step \in {"deploy", "tasks"} /\ step' = step /\ plan' = plan /\ done' = done
      /\ emitted' = emitted /\ chan' = chan /\ sender' = sender
  BY <1>1, Zenon DEF HandleTaskAssignment, pastVars
<1>3. Kept
  BY <1>2, UntouchedKept, Zenon
<1>4. \A k \in Keys : Home(k)' = Home(k)
  BY <1>2, Zenon DEF HomeFacts, Carried, Carries
<1>5. [k \in Keys |-> Home(k)]' = [k \in Keys |-> Home(k)]
  BY <1>4, Zenon
<1>6. InFlight' = InFlight
  BY <1>3, KeptInFlight, Zenon DEF ProtocolInv
<1> QED BY <1>2, <1>3, <1>5, <1>6, Zenon DEF OwnershipStep

MigrationInv == RecordInv /\ StateInv

LEMMA MigrationInit ==
  ASSUME Init, PlanFacts
  PROVE  MigrationInv /\ Ownership!Init
<1>1. /\ step = "deploy" /\ emitted = 0 /\ done = {} /\ returned = {} /\ assigned = {}
      /\ history = [b \in Buckets |-> {plan.table[b]}]
      /\ sender = [u \in Upstreams |-> Idle] /\ chan = [l \in Links |-> <<>>]
      /\ store = [w \in Workers |-> [k \in Keys |-> {}]] /\ live = [k \in Keys |-> {}]
      /\ index = [w \in Workers |-> {}] /\ initMeta = [w \in Workers |-> {}]
  BY Zenon DEF Init
<1>2. \A u \in Upstreams, w \in Workers : chan[<<u, w>>] = <<>> /\ sender[u].batches[w] = <<>>
  BY <1>1, EmptyBatches, Zenon DEF Links
<1>3. RecordInv
  BY <1>2, EmptyIn, ZenonT(30) DEF RecordInv, Clean, Waits
<1>4. plan.table \in [Buckets -> Workers]
  BY Zenon DEF PlanFacts
<1>5. StateTypes /\ MoveInv
  BY <1>1, <1>4, Zenon DEF StateTypes, MoveInv
<1>6. ASSUME NEW k \in Keys
      PROVE  PastInv(k) /\ HomeInv(k)
  <2>1. plan.table[BucketOf[k]] \in Workers
    BY <1>4, ConstantsAssumption, Zenon
  <2> QED BY <1>1, <2>1, Zenon DEF PastInv, HomeInv, Carried, Carries, Valued, Indexed, Holds, Cleared,
             Untouched
<1>7. [k \in Keys |-> Home(k)] \in [Keys -> Workers]
  BY <1>1, <1>4, ConstantsAssumption, Zenon DEF Home
<1>8. InFlight = {}
  <2>1. Traced
    BY ProtocolInit, InFlightTraced, Zenon DEF ProtocolInv
  <2> QED BY <1>2, <2>1, EmptyIn, ZenonT(30) DEF Traced, Waits
<1> QED BY <1>1, <1>3, <1>5, <1>6, <1>7, <1>8, Zenon DEF MigrationInv, StateInv, Ownership!Init

LEMMA IdlesInv ==
  ASSUME ProtocolInv, ProtocolInv', MigrationInv, Idles
  PROVE  MigrationInv' /\ OwnershipStep
<1>1. TypeInv /\ TypeInv' /\ RecordInv /\ StateInv /\ Kept /\ Frame /\ emitted' = emitted
  BY Zenon DEF ProtocolInv, MigrationInv, Idles, Kept
<1>2. plan'.table = plan.table /\ emitted' \in Nat /\ emitted' >= emitted
  BY <1>1 DEF Frame, TypeInv
<1>3. RecordInv' /\ StateInv'
  BY <1>1, <1>2, KeptInv, FrameInv, Zenon
<1>4. HomeFacts /\ HomeFacts'
  BY <1>1, <1>3, HomeIs, HomeIsNext, Zenon DEF StateInv
<1> QED BY <1>1, <1>3, <1>4, IdlesStep, Zenon DEF MigrationInv

LEMMA MigrationEmit ==
  ASSUME PlanFacts, ProtocolInv, ProtocolInv', MigrationInv,
         NEW x \in Upstreams, NEW k \in Keys, NEW kind \in Kinds, Emit(x, k, kind)
  PROVE  MigrationInv' /\ OwnershipStep
<1>1. TypeInv /\ TypeInv' /\ RecordInv /\ StateInv /\ \A d \in done : d.id <= emitted
  BY Zenon DEF ProtocolInv, MigrationInv, StateInv, StateTypes
<1>2. PICK q \in Records, z \in Workers : Enters(q, x, z)
  BY <1>1, EmitEnters, Zenon
<1>3. RecordInv' /\ q \notin InFlight \cup done /\ InFlight' = InFlight \cup {q}
  BY <1>1, <1>2, EntersInv, Zenon
<1>4. Frame
  BY ZenonT(30) DEF Emit, Frame, coordVars, dataVars
<1>5. emitted' \in Nat /\ emitted' >= emitted
  BY <1>1, <1>2 DEF Enters, TypeInv
<1>6. StateInv'
  BY <1>1, <1>4, <1>5, FrameInv, Zenon
<1>7. HomeFacts /\ HomeFacts'
  BY <1>1, <1>6, HomeIs, HomeIsNext, Zenon DEF StateInv
<1> QED BY <1>3, <1>4, <1>6, <1>7, EmitStep, Zenon DEF MigrationInv

LEMMA MigrationProcess ==
  ASSUME PlanFacts, ProtocolInv, ProtocolInv', MigrationInv,
         NEW x \in Upstreams, NEW z \in Workers, ProcessBatch(x, z)
  PROVE  MigrationInv' /\ OwnershipStep
<1>1. TypeInv /\ TypeInv' /\ RecordInv /\ StateInv
  BY Zenon DEF ProtocolInv, MigrationInv
<1>2. PICK R : Leaves(R, x, z)
  BY <1>1, ProcessLeaves, ZenonT(30)
<1>3. RecordInv' /\ R \subseteq InFlight /\ InFlight' = InFlight \ R
  BY <1>1, <1>2, LeavesInv, Zenon
<1>4. StateInv'
  BY <1>1, ProcessState, Zenon
<1>5. HomeFacts /\ HomeFacts'
  BY <1>1, <1>4, HomeIs, HomeIsNext, Zenon DEF StateInv
<1>6. step' = step /\ step # "migrate"
  <2>1. Takes(x, z) /\ Head(chan[<<x, z>>]).type = "batch"
    BY <1>1, ConsumedTakes, Zenon DEF ProcessBatch
  <2> QED BY <2>1, NotMoving, Zenon DEF ProcessBatch, coordVars
<1>7. /\ R \subseteq Records /\ plan' = plan /\ done' = done \cup R
      /\ \A r \in R : plan.table[BucketOf[r.key]] = z
  BY <1>2, Zenon DEF Leaves
<1>8. OwnershipStep
  BY <1>3, <1>5, <1>6, <1>7, ProcessStep, Zenon
<1> QED BY <1>3, <1>4, <1>8, Zenon DEF MigrationInv

LEMMA MigrationMove ==
  ASSUME ProtocolInv, ProtocolInv', MigrationInv, NEW m \in todo,
         MigrateTaskMetadata(m) \/ PullStatePartition(m)
  PROVE  MigrationInv' /\ OwnershipStep
<1>1. TypeInv /\ TypeInv' /\ RecordInv /\ StateInv /\ MoveInv
  BY Zenon DEF ProtocolInv, MigrationInv, StateInv
<1>2. chan' = chan /\ sender' = sender /\ done' = done /\ emitted' = emitted /\ plan' = plan
  BY Zenon DEF MigrateTaskMetadata, PullStatePartition, netVars, pastVars
<1>3. Kept
  BY <1>1, <1>2, UntouchedKept, Zenon
<1>4. InFlight' = InFlight /\ RecordInv'
  BY <1>1, <1>2, <1>3, KeptInFlight, KeptInv, Zenon
<1>5. StateInv'
  BY <1>1, MetadataState, PullState, Zenon
<1>6. HomeFacts /\ HomeFacts'
  BY <1>1, <1>5, HomeIs, HomeIsNext, Zenon DEF StateInv
<1>7. OwnershipStep
  BY <1>1, <1>4, <1>6, MetadataStep, PullStep, Zenon
<1> QED BY <1>4, <1>5, <1>7, Zenon DEF MigrationInv

LEMMA MigrationNext ==
  ASSUME RangesFacts, PlanFacts, PlanFacts', ProtocolInv, ProtocolInv', MigrationInv, [Next]_vars
  PROVE  MigrationInv' /\ OwnershipStep
<1>1. TypeInv' /\ RecordInv /\ StateInv /\ MoveInv /\ HomeFacts
  BY HomeIs, Zenon DEF ProtocolInv, MigrationInv, StateInv
<1>2. CASE UNCHANGED vars
  BY <1>1, <1>2, SameIdles, IdlesInv, Zenon
<1>3. CASE CoordinatorStep
  <2>1. CASE ReconfigureStatefulOp
    <3>1. Kept /\ RecordInv' /\ StateInv'
      BY <1>1, <2>1, ReconfigureKept, ReconfigureState, Zenon
    <3>2. HomeFacts'
      BY <3>1, HomeIsNext, Zenon DEF StateInv
    <3> QED BY <1>1, <2>1, <3>1, <3>2, ReconfigureStep, Zenon DEF MigrationInv
  <2>2. CASE ~ ReconfigureStatefulOp
    BY <1>1, <1>3, <2>2, CoordinatorIdles, IdlesInv, Zenon
  <2> QED BY <2>1, <2>2, Zenon
<1>4. CASE ControlStep
  <2>1. ASSUME NEW x \in Workers, HandleTaskAssignment(x)
        PROVE  MigrationInv' /\ OwnershipStep
    <3>1. StateInv'
      BY <1>1, <2>1, StartTaskState, Zenon
    <3>2. HomeFacts'
      BY <3>1, HomeIsNext, Zenon DEF StateInv
    <3>3. Kept /\ plan' = plan /\ OwnershipStep
      BY <1>1, <2>1, <3>2, StartTaskStep, Zenon
    <3>4. RecordInv'
      BY <1>1, <3>3, KeptInv, Zenon
    <3> QED BY <3>1, <3>3, <3>4, Zenon DEF MigrationInv
  <2>2. ASSUME NEW m \in todo, MigrateTaskMetadata(m) \/ PullStatePartition(m)
        PROVE  MigrationInv' /\ OwnershipStep
    BY <2>2, MigrationMove, Zenon
  <2>3. CASE \/ \E x \in Upstreams : HandleTaskAssignment(x)
             \/ \E w \in Workers : HandleTerminate(w)
    BY <1>1, <2>3, ControlIdles, IdlesInv, Zenon
  <2> QED BY <1>4, <2>1, <2>2, <2>3, Zenon DEF ControlStep
<1>5. ASSUME NEW u \in Upstreams, UpstreamStep(u)
      PROVE  MigrationInv' /\ OwnershipStep
  <2>1. CASE \E k \in Keys, kind \in Kinds : Emit(u, k, kind)
    BY <2>1, MigrationEmit, Zenon
  <2>2. CASE \/ FlushAllPendingBatches(u) \/ PauseEmit(u) \/ UpdateRouting(u)
             \/ ResumeEmit(u) \/ RescaleUpstream(u)
    BY <1>1, <2>2, UpstreamIdles, IdlesInv, Zenon
  <2> QED BY <1>5, <2>1, <2>2, Zenon DEF UpstreamStep
<1>6. ASSUME NEW u \in Upstreams, NEW w \in Workers, ChannelStep(u, w)
      PROVE  MigrationInv' /\ OwnershipStep
  <2>1. CASE ProcessBatch(u, w)
    BY <2>1, MigrationProcess, Zenon
  <2>2. CASE InitNewUpstream(u, w) \/ HandleDrainBarrier(u, w) \/ RemoveUpstream(u, w)
    BY <1>1, <2>2, ChannelIdles, IdlesInv, Zenon
  <2> QED BY <1>6, <2>1, <2>2, Zenon DEF ChannelStep
<1> QED BY <1>2, <1>3, <1>4, <1>5, <1>6, Zenon DEF Next
=============================================================================
