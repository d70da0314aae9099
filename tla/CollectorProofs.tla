--------------------------- MODULE CollectorProofs ---------------------------
(***************************************************************************)
(* The collectors of a stop-and-restart rescale, for any number of         *)
(* upstream tasks and workers: what they do keeps the protocol invariant.  *)
(*                                                                         *)
(* First come the facts about channels that the proofs about tasks and     *)
(* about records share.                                                    *)
(***************************************************************************)
EXTENDS StopRestartInv, TLAPS

-----------------------------------------------------------------------------
(* The shape of a channel when a unit comes in or is taken out.            *)

LEMMA DataGrows ==
  ASSUME NEW s \in Seq(Units), Data(s), NEW x \in Units
  PROVE  /\ Append(s, x) \in Seq(Units)
         /\ x.type = "batch" => Data(Append(s, x))
         /\ EndsIn(Append(s, x), x.type)
<1>1. /\ Append(s, x) \in Seq(Units) /\ Len(Append(s, x)) = Len(s) + 1 /\ Len(s) \in Nat
      /\ \A i \in 1 .. Len(s) : Append(s, x)[i] = s[i]
      /\ Append(s, x)[Len(s) + 1] = x
  OBVIOUS
<1> DEFINE a == Append(s, x)
<1> HIDE DEF a
<1>2. /\ a \in Seq(Units) /\ Len(a) = Len(s) + 1 /\ Len(s) \in Nat
      /\ \A i \in 1 .. Len(s) : a[i] = s[i]
      /\ a[Len(s) + 1] = x
  BY <1>1, Zenon DEF a
<1>3. \A i \in 1 .. Len(s) : a[i].type = "batch"
  BY <1>2, Zenon DEF Data
<1>4. \A i \in 1 .. Len(a) : i \in 1 .. Len(s) \/ i = Len(s) + 1
  BY <1>2
<1>5. x.type = "batch" => Data(a)
  BY <1>2, <1>3, <1>4, Zenon DEF Data
<1>6. EndsIn(a, x.type)
  BY <1>2, <1>3 DEF EndsIn
<1> QED BY <1>2, <1>5, <1>6, Zenon DEF a

LEMMA TailFacts ==
  ASSUME NEW s \in Seq(Units), s # <<>>
  PROVE  /\ Tail(s) \in Seq(Units) /\ Len(s) \in Nat /\ Len(s) > 0
         /\ Head(s) = s[1] /\ Head(s) \in Units
         /\ Len(Tail(s)) = Len(s) - 1
         /\ \A i \in 1 .. Len(s) - 1 : Tail(s)[i] = s[i + 1]
  OBVIOUS

LEMMA DataShrinks ==
  ASSUME NEW s \in Seq(Units), s # <<>>, Data(s)
  PROVE  Tail(s) \in Seq(Units) /\ Data(Tail(s)) /\ Head(s).type = "batch"
<1> DEFINE a == Tail(s)
<1>1. /\ a \in Seq(Units) /\ Len(s) \in Nat /\ Len(s) > 0
      /\ Head(s) = s[1] /\ Len(a) = Len(s) - 1
      /\ \A i \in 1 .. Len(s) - 1 : a[i] = s[i + 1]
  BY TailFacts, Zenon
<1> HIDE DEF a
<1>2. \A i \in 1 .. Len(s) - 1 : i + 1 \in 1 .. Len(s)
  BY <1>1
<1>3. Data(a) /\ Head(s).type = "batch"
  BY <1>1, <1>2 DEF Data
<1> QED BY <1>1, <1>3, Zenon DEF a

LEMMA EndShrinks ==
  ASSUME NEW s \in Seq(Units), NEW t, t # "batch", EndsIn(s, t)
  PROVE  /\ s # <<>> /\ Tail(s) \in Seq(Units)
         /\ Head(s).type = "batch" => EndsIn(Tail(s), t)
         /\ Head(s).type # "batch" => Head(s).type = t /\ Tail(s) = <<>>
<1> DEFINE a == Tail(s)
<1>1. s # <<>>
  BY DEF EndsIn
<1>2. /\ a \in Seq(Units) /\ Len(s) \in Nat /\ Len(s) > 0
      /\ Head(s) = s[1] /\ Len(a) = Len(s) - 1
      /\ \A i \in 1 .. Len(s) - 1 : a[i] = s[i + 1]
  BY <1>1, TailFacts, Zenon
<1>3. s[Len(s)].type = t /\ \A i \in 1 .. Len(s) - 1 : s[i].type = "batch"
  BY Zenon DEF EndsIn
<1> HIDE DEF a
<1>4. CASE Len(s) = 1
  <2>1. s[1].type = t /\ a = <<>>
    BY <1>2, <1>3, <1>4
  <2> QED BY <1>1, <1>2, <2>1, Zenon DEF a
<1>5. CASE Len(s) # 1
  <2>1. 1 \in 1 .. Len(s) - 1 /\ Len(a) > 0 /\ Len(a) \in 1 .. Len(s) - 1 /\ Len(a) + 1 = Len(s)
    BY <1>2, <1>5
  <2>2. s[1].type = "batch"
    BY <1>3, <2>1, Zenon
  <2>3. a[Len(a)].type = t
    BY <1>2, <1>3, <2>1, Zenon
  <2>4. \A i \in 1 .. Len(a) - 1 : i \in 1 .. Len(s) - 1 /\ i + 1 \in 1 .. Len(s) - 1
    BY <1>2
  <2>5. \A i \in 1 .. Len(a) - 1 : a[i].type = "batch"
    BY <1>2, <1>3, <2>4, Zenon
  <2>6. EndsIn(a, t)
    BY <2>1, <2>3, <2>5, Zenon DEF EndsIn
  <2> QED BY <1>1, <1>2, <2>2, <2>6, Zenon DEF a
<1> QED BY <1>4, <1>5, Zenon

LEMMA EmptyChannel == Data(<<>>) /\ \A t : ~ EndsIn(<<>>, t)
  BY DEF Data, EndsIn

\* A channel with only batches does not end in anything else.
LEMMA DataOrEnd ==
  ASSUME NEW s \in Seq(Units), NEW t, t # "batch", EndsIn(s, t)
  PROVE  ~ Data(s) /\ s # <<>> /\ \E i \in DOMAIN s : s[i].type = t
<1>1. Len(s) \in 1 .. Len(s) /\ DOMAIN s = 1 .. Len(s) /\ s[Len(s)].type = t
  BY DEF EndsIn
<1> QED BY <1>1 DEF Data, EndsIn

\* A task takes the first unit of a channel.
Takes(u, w) ==
  /\ chan[<<u, w>>] \in Seq(Units) /\ chan[<<u, w>>] # <<>>
  /\ chan' \in [Links -> Seq(Units)] /\ chan'[<<u, w>>] = Tail(chan[<<u, w>>])
  /\ \A v \in Upstreams, z \in Workers : v # u \/ z # w => chan'[<<v, z>>] = chan[<<v, z>>]

LEMMA ConsumedTakes ==
  ASSUME TypeInv, NEW u \in Upstreams, NEW w \in Workers, NEW t, Ready(u, w, t), Consumed(u, w)
  PROVE  Takes(u, w) /\ conn[<<u, w>>] = "open" /\ Head(chan[<<u, w>>]).type = t /\ fatal = "none"
<1>1. /\ <<u, w>> \in Links /\ chan \in [Links -> Seq(Units)] /\ chan[<<u, w>>] # <<>>
      /\ chan' = [chan EXCEPT ![<<u, w>>] = Tail(@)]
      /\ \A v \in Upstreams, z \in Workers : <<v, z>> \in Links
  BY Zenon DEF TypeInv, Ready, Consumed, Links
<1>2. chan[<<u, w>>] \in Seq(Units) /\ Tail(chan[<<u, w>>]) \in Seq(Units)
  BY <1>1
<1>3. chan' \in [Links -> Seq(Units)] /\ chan'[<<u, w>>] = Tail(chan[<<u, w>>])
  BY <1>1, <1>2, Zenon
<1>4. ASSUME NEW v \in Upstreams, NEW z \in Workers, v # u \/ z # w
      PROVE  chan'[<<v, z>>] = chan[<<v, z>>]
  BY <1>1, <1>4, Zenon
<1> QED BY <1>1, <1>2, <1>3, <1>4, Zenon DEF Takes, Ready

\* When all reports are in, nothing is left on a channel.
LEMMA DrainedChannels ==
  ASSUME PlanFacts, ProtocolInv, step = "drain", todo = {}
  PROVE  /\ \A u \in Upstreams, w \in Workers : chan[<<u, w>>] = <<>>
         /\ \A w \in Workers : sup[w].drains = 0 /\ reported[w] = 0
<1>1. TypeInv /\ Tasks \subseteq Workers /\ Changing
  BY Zenon DEF ProtocolInv, PlanFacts, Changing
<1>2. ASSUME NEW w \in Workers
      PROVE  /\ sup[w].drains = 0 /\ reported[w] = 0
             /\ w \in Tasks => Passed(w) = plan.ups
  <2>1. BarrierInv(w)
    BY Zenon DEF ProtocolInv
  <2> QED BY <2>1, Zenon DEF BarrierInv
<1>3. ASSUME NEW u \in Upstreams, NEW w \in Workers
      PROVE  chan[<<u, w>>] = <<>>
  <2>1. LinkInv(u, w) /\ Still(u) /\ SenderInv(u)
    BY <1>1, Zenon DEF ProtocolInv, StillInv, Changing
  <2>2. CASE On(u, w)
    <3>1. u \in plan.ups /\ w \in Tasks
      BY <2>1, <2>2, Zenon DEF On, SenderInv, Pending
    <3> QED BY <1>2, <3>1, Zenon DEF Passed
  <2>3. CASE ~ On(u, w)
    BY <2>1, <2>3, Zenon DEF LinkInv, Still
  <2> QED BY <2>2, <2>3, Zenon
<1> QED BY <1>2, <1>3, Zenon

-----------------------------------------------------------------------------
(* The state of a collector, and what it puts on its channels.             *)

LEMMA SenderUpdate ==
  ASSUME TypeInv, NEW u \in Upstreams, NEW x \in Senders, sender' = [sender EXCEPT ![u] = x]
  PROVE  /\ sender' \in [Upstreams -> Senders] /\ sender'[u] = x
         /\ \A v \in Upstreams : v # u => sender'[v] = sender[v]
  BY Zenon DEF TypeInv

\* A collector that has sent nothing yet.
Fresh(x, ws, table) ==
  /\ x \in Senders /\ x.downs = ws /\ x.table = table /\ ~ x.paused
  /\ \A w \in Workers : x.batches[w] = <<>>

LEMMA IdleType ==
  ASSUME NEW ws \in SUBSET Workers, NEW table \in [Buckets -> Workers]
  PROVE  Fresh([Idle EXCEPT !.downs = ws, !.table = table], ws, table)
<1> DEFINE x == [Idle EXCEPT !.downs = ws, !.table = table]
<1>1. x = [downs |-> ws, table |-> table, paused |-> FALSE, batches |-> [w \in Workers |-> <<>>]]
  <2> DEFINE nobody == [b \in Buckets |-> Moving]
             none == [w \in Workers |-> <<>>]
             off == FALSE
  <2>1. Idle = [downs |-> {}, table |-> nobody, paused |-> off, batches |-> none]
    BY Zenon DEF Idle
  <2> HIDE DEF nobody, none, off
  <2>2. [Idle EXCEPT !.downs = ws] = [downs |-> ws, table |-> nobody, paused |-> off, batches |-> none]
    BY <2>1
  <2>3. [[Idle EXCEPT !.downs = ws] EXCEPT !.table = table]
          = [downs |-> ws, table |-> table, paused |-> off, batches |-> none]
    <3> DEFINE y == [Idle EXCEPT !.downs = ws]
    <3>1. y = [downs |-> ws, table |-> nobody, paused |-> off, batches |-> none]
      BY <2>2, Zenon
    <3> HIDE DEF y
    <3>2. [y EXCEPT !.table = table] = [downs |-> ws, table |-> table, paused |-> off, batches |-> none]
      BY <3>1
    <3> QED BY <3>2, Zenon DEF y
  <2> QED BY <2>3, Zenon DEF none, off
<1>2. table \in [Buckets -> Workers \cup {Moving}]
  BY Zenon
<1>3. [w \in Workers |-> <<>>] \in [Workers -> Seq(Records)]
  OBVIOUS
<1> HIDE DEF x
<1>4. x \in Senders
  BY <1>1, <1>2, <1>3, Zenon DEF Senders
<1>5. x.downs = ws /\ x.table = table /\ ~ x.paused /\ \A w \in Workers : x.batches[w] = <<>>
  BY <1>1, Zenon
<1> QED BY <1>4, <1>5, Zenon DEF Fresh, x

\* A new collector: the connections that it dials.
LEMMA Dials ==
  ASSUME TypeInv, NEW u \in Upstreams, NEW ws \in SUBSET Workers, conn' = Dial(u, ws)
  PROVE  /\ conn' \in [Links -> {"closed", "dialing", "open"}]
         /\ \A v \in Upstreams, w \in Workers :
              conn'[<<v, w>>] = IF v = u /\ w \in ws THEN "dialing" ELSE conn[<<v, w>>]
  BY Zenon DEF TypeInv, Dial, Links

\* g is f but for the collector of u.
Sets(f, g, u, downs, table, paused, batches) ==
  /\ g \in [Upstreams -> Senders]
  /\ g[u] = [downs |-> downs, table |-> table, paused |-> paused, batches |-> batches]
  /\ \A v \in Upstreams : v # u => g[v] = f[v]

LEMMA SetFields ==
  ASSUME NEW f \in [Upstreams -> Senders], NEW u \in Upstreams
  PROVE  /\ \A p \in BOOLEAN :
              Sets(f, [f EXCEPT ![u].paused = p], u, f[u].downs, f[u].table, p, f[u].batches)
         /\ \A b \in [Workers -> Seq(Records)] :
              Sets(f, [f EXCEPT ![u].batches = b], u, f[u].downs, f[u].table, f[u].paused, b)
         /\ \A t \in [Buckets -> Workers] :
              Sets(f, [f EXCEPT ![u].table = t], u, f[u].downs, t, f[u].paused, f[u].batches)
         /\ \A d \in SUBSET Workers :
              Sets(f, [f EXCEPT ![u].downs = d], u, d, f[u].table, f[u].paused, f[u].batches)
<1>1. ASSUME NEW p \in BOOLEAN
      PROVE  Sets(f, [f EXCEPT ![u].paused = p], u, f[u].downs, f[u].table, p, f[u].batches)
  BY Zenon DEF Sets, Senders
<1>2. ASSUME NEW b \in [Workers -> Seq(Records)]
      PROVE  Sets(f, [f EXCEPT ![u].batches = b], u, f[u].downs, f[u].table, f[u].paused, b)
  BY Zenon DEF Sets, Senders
<1>3. ASSUME NEW t \in [Buckets -> Workers]
      PROVE  Sets(f, [f EXCEPT ![u].table = t], u, f[u].downs, t, f[u].paused, f[u].batches)
  BY Zenon DEF Sets, Senders
<1>4. ASSUME NEW d \in SUBSET Workers
      PROVE  Sets(f, [f EXCEPT ![u].downs = d], u, d, f[u].table, f[u].paused, f[u].batches)
  BY Zenon DEF Sets, Senders
<1> QED BY <1>1, <1>2, <1>3, <1>4, Zenon

LEMMA BatchUnits ==
  ASSUME NEW rs \in Seq(Records)
  PROVE  Batch(rs) \in Units /\ Batch(rs).type = "batch" /\ Batch(rs).recs = rs
  BY Zenon DEF Batch, Units

LEMMA ControlUnits ==
  /\ DrainBarrier \in Units /\ DrainBarrier.type = "barrier"
  /\ Termination \in Units /\ Termination.type = "termination"
  BY DEF DrainBarrier, Termination, Units

LEMMA EmptyBatches == Idle.batches \in [Workers -> Seq(Records)] /\ \A w \in Workers : Idle.batches[w] = <<>>
  BY DEF Idle

\* Pending batches go to the channels of the collector that flushes them.
LEMMA FlushFacts ==
  ASSUME TypeInv, NEW u \in Upstreams
  PROVE  /\ Flush(u) \in [Links -> Seq(Units)]
         /\ \A x \in Upstreams, w \in Workers :
              x # u \/ sender[u].batches[w] = <<>> => Flush(u)[<<x, w>>] = chan[<<x, w>>]
         /\ \A w \in Workers : Data(chan[<<u, w>>]) => Data(Flush(u)[<<u, w>>])
<1>1. ASSUME NEW x \in Upstreams, NEW w \in Workers
      PROVE  /\ <<x, w>> \in Links /\ chan[<<x, w>>] \in Seq(Units)
             /\ Batch(sender[u].batches[w]) \in Units
             /\ Batch(sender[u].batches[w]).type = "batch"
             /\ Flush(u)[<<x, w>>] = IF x = u /\ sender[u].batches[w] # <<>>
                                       THEN Append(chan[<<x, w>>], Batch(sender[u].batches[w]))
                                       ELSE chan[<<x, w>>]
  <2>1. sender[u].batches[w] \in Seq(Records) /\ <<x, w>> \in Links
    BY DEF TypeInv, Senders, Links
  <2> QED BY <2>1, BatchUnits, Zenon DEF TypeInv, Flush
<1>2. \A l \in Links : \E x \in Upstreams, w \in Workers : l = <<x, w>>
  BY DEF Links
<1>3. ASSUME NEW l \in Links
      PROVE  Flush(u)[l] \in Seq(Units)
  <2>1. PICK x \in Upstreams, w \in Workers : l = <<x, w>>
    BY <1>2, Zenon
  <2>2. /\ chan[<<x, w>>] \in Seq(Units) /\ Batch(sender[u].batches[w]) \in Units
        /\ \/ Flush(u)[<<x, w>>] = Append(chan[<<x, w>>], Batch(sender[u].batches[w]))
           \/ Flush(u)[<<x, w>>] = chan[<<x, w>>]
    BY <1>1, Zenon
  <2>3. Append(chan[<<x, w>>], Batch(sender[u].batches[w])) \in Seq(Units)
    BY <2>2
  <2> QED BY <2>1, <2>2, <2>3, Zenon
<1>4. Flush(u) \in [Links -> Seq(Units)]
  BY <1>3, Zenon DEF Flush
<1>5. ASSUME NEW w \in Workers, Data(chan[<<u, w>>])
      PROVE  Data(Flush(u)[<<u, w>>])
  BY <1>1, <1>5, DataGrows, Zenon
<1> QED BY <1>1, <1>4, <1>5, Zenon

\* A unit ends the channels it is put on.
LEMMA PushFacts ==
  ASSUME NEW ch \in [Links -> Seq(Units)], NEW u \in Upstreams, NEW ws, NEW x \in Units
  PROVE  /\ Push(ch, u, ws, x) \in [Links -> Seq(Units)]
         /\ \A v \in Upstreams, w \in Workers :
              v # u \/ w \notin ws => Push(ch, u, ws, x)[<<v, w>>] = ch[<<v, w>>]
         /\ \A w \in Workers :
              w \in ws => Push(ch, u, ws, x)[<<u, w>>] = Append(ch[<<u, w>>], x)
         /\ \A w \in Workers :
              w \in ws /\ Data(ch[<<u, w>>]) => EndsIn(Push(ch, u, ws, x)[<<u, w>>], x.type)
<1>1. ASSUME NEW v \in Upstreams, NEW w \in Workers
      PROVE  /\ <<v, w>> \in Links /\ ch[<<v, w>>] \in Seq(Units)
             /\ Push(ch, u, ws, x)[<<v, w>>] = IF v = u /\ w \in ws THEN Append(ch[<<v, w>>], x)
                                                                  ELSE ch[<<v, w>>]
  BY Zenon DEF Links, Push
<1>2. \A l \in Links : \E v \in Upstreams, w \in Workers : l = <<v, w>>
  BY DEF Links
<1>3. ASSUME NEW l \in Links
      PROVE  Push(ch, u, ws, x)[l] \in Seq(Units)
  <2>1. PICK v \in Upstreams, w \in Workers : l = <<v, w>>
    BY <1>2, Zenon
  <2>2. /\ ch[<<v, w>>] \in Seq(Units)
        /\ \/ Push(ch, u, ws, x)[<<v, w>>] = Append(ch[<<v, w>>], x)
           \/ Push(ch, u, ws, x)[<<v, w>>] = ch[<<v, w>>]
    BY <1>1, ZenonT(30)
  <2>3. Append(ch[<<v, w>>], x) \in Seq(Units)
    BY <2>2
  <2> QED BY <2>1, <2>2, <2>3, Zenon
<1>4. Push(ch, u, ws, x) \in [Links -> Seq(Units)]
  BY <1>3, Zenon DEF Push
<1>5. ASSUME NEW w \in Workers, w \in ws, Data(ch[<<u, w>>])
      PROVE  EndsIn(Push(ch, u, ws, x)[<<u, w>>], x.type)
  BY <1>1, <1>5, DataGrows, Zenon
<1> QED BY <1>1, <1>4, <1>5, Zenon

\* A collector that may emit is one of the operator upstream, and routes by the plan.
LEMMA Emitter ==
  ASSUME PlanFacts, ProtocolInv, NEW x \in Upstreams, sender[x].downs # {}, ~ sender[x].paused
  PROVE  /\ x \in plan.ups /\ sender[x].downs = Tasks /\ sender[x].table = plan.table
         /\ plan.table \in [Buckets -> Tasks]
<1>1. SenderInv(x)
  BY Zenon DEF ProtocolInv
<1> QED BY <1>1, Zenon DEF SenderInv, Pending, PlanFacts, Owners, Tasks

-----------------------------------------------------------------------------
(* The steps of a collector keep the invariant.                            *)

LEMMA StartCollectorInv ==
  ASSUME PlanFacts, ProtocolInv, NEW x \in Upstreams, HandleTaskAssignment(x)
  PROVE  ProtocolInv'
<1>1. TypeInv /\ TodoInv /\ TaskInv /\ StillInv /\ OpenInv
  BY Zenon DEF ProtocolInv
<1>2. x \notin Workers /\ x \notin Tasks /\ Tasks \in SUBSET Workers
  BY ConstantsAssumption, Zenon DEF PlanFacts
<1>3. /\ step = "deploy" /\ step' = step /\ x \in todo /\ todo' = todo \ {x} /\ StartCollector(x)
      /\ UNCHANGED <<plan, change, chan, sup, reported, assigned, emitted, fatal>>
  BY <1>2, Zenon DEF HandleTaskAssignment, Acked, pastVars, PlanFacts, Changing
<1>4. x \in plan.ups
  BY <1>1, <1>2, <1>3, Zenon DEF TodoInv
<1>5. Tasks' = Tasks
  BY <1>3, Zenon DEF Tasks
<1> DEFINE s == [Idle EXCEPT !.downs = Tasks, !.table = Deserialize(Serialize(plan.table))]
<1>6. plan.table \in [Buckets -> Workers] /\ Deserialize(Serialize(plan.table)) = plan.table
  BY Zenon DEF PlanFacts
<1>7. /\ s \in Senders /\ s.downs = Tasks /\ s.table = plan.table /\ ~ s.paused
      /\ \A w \in Workers : s.batches[w] = <<>>
  <2>1. Fresh([Idle EXCEPT !.downs = Tasks, !.table = plan.table], Tasks, plan.table)
    BY <1>2, <1>6, IdleType, Zenon
  <2>2. Fresh(s, Tasks, plan.table)
    BY <1>6, <2>1, Zenon
  <2> QED BY <2>2, Zenon DEF Fresh
<1>8. sender' = [sender EXCEPT ![x] = s] /\ conn' = Dial(x, Tasks)
  BY <1>3, Zenon DEF StartCollector
<1> HIDE DEF s
<1>9. /\ sender' \in [Upstreams -> Senders] /\ sender'[x] = s
      /\ \A v \in Upstreams : v # x => sender'[v] = sender[v]
  BY <1>1, <1>7, <1>8, SenderUpdate, ZenonT(30)
<1>10. /\ conn' \in [Links -> {"closed", "dialing", "open"}]
       /\ \A v \in Upstreams, w \in Workers :
            conn'[<<v, w>>] = IF v = x /\ w \in Tasks THEN "dialing" ELSE conn[<<v, w>>]
  BY <1>1, <1>2, <1>8, Dials, Zenon
<1>11. TypeInv'
  BY <1>1, <1>3, <1>9, <1>10, Zenon DEF TypeInv
<1>12. ASSUME NEW u \in Upstreams
       PROVE  SenderInv(u)'
  <2>1. SenderInv(u)
    BY Zenon DEF ProtocolInv
  <2>2. CASE u = x
    BY <1>3, <1>4, <1>5, <1>7, <1>9, <2>2, Zenon DEF SenderInv, Pending
  <2>3. CASE u # x
    BY <1>3, <1>5, <1>9, <2>1, <2>3, ZenonT(30) DEF SenderInv, Pending
  <2> QED BY <2>2, <2>3, Zenon
<1>13. ASSUME NEW w \in Workers
       PROVE  conn[<<x, w>>] = "closed" /\ chan[<<x, w>>] = <<>>
  <2>1. LinkInv(x, w) /\ SenderInv(x)
    BY Zenon DEF ProtocolInv
  <2>2. ~ On(x, w)
    BY <1>3, <1>4, <2>1, Zenon DEF SenderInv, On, Pending
  <2> QED BY <1>3, <2>1, <2>2, ZenonT(30) DEF LinkInv
<1>14. ASSUME NEW u \in Upstreams, NEW w \in Workers
       PROVE  LinkInv(u, w)'
  <2>1. LinkInv(u, w) /\ Data(<<>>)
    BY EmptyChannel, Zenon DEF ProtocolInv
  <2>2. CASE u = x
    <3>1. On(u, w)' <=> w \in Tasks
      BY <1>3, <1>4, <1>7, <1>9, <2>2, Zenon DEF On
    <3>2. /\ conn'[<<u, w>>] = IF w \in Tasks THEN "dialing" ELSE "closed"
          /\ chan'[<<u, w>>] = <<>> /\ ~ sender'[u].paused /\ sender'[u].batches[w] = <<>>
      BY <1>3, <1>7, <1>9, <1>10, <1>13, <2>2, Zenon
    <3> QED BY <2>1, <3>1, <3>2, Zenon DEF LinkInv
  <2>3. CASE u # x
    <3>1. On(u, w)' = On(u, w)
      BY <1>3, <1>9, <2>3, Zenon DEF On
    <3>2. /\ conn'[<<u, w>>] = conn[<<u, w>>] /\ chan'[<<u, w>>] = chan[<<u, w>>]
          /\ sender'[u] = sender[u]
      BY <1>3, <1>9, <1>10, <2>3, Zenon
    <3> QED BY <1>3, <2>1, <3>1, <3>2, Zenon DEF LinkInv
  <2> QED BY <2>2, <2>3, Zenon
<1>15. TodoInv' /\ TaskInv' /\ StillInv' /\ OpenInv'
  BY <1>1, <1>2, <1>3, <1>5, <1>10, SMTT(20) DEF TodoInv, TaskInv, StillInv, OpenInv
<1>16. ASSUME NEW w \in Workers
       PROVE  SupplierInv(w)' /\ BarrierInv(w)'
  <2>1. SupplierInv(w) /\ BarrierInv(w)
    BY Zenon DEF ProtocolInv
  <2>2. Connected(w)' = Connected(w)
    BY <1>10, <1>13, Zenon DEF Connected
  <2> QED BY <1>3, <1>5, <2>1, <2>2, Zenon DEF SupplierInv, BarrierInv
<1> QED BY <1>11, <1>12, <1>14, <1>15, <1>16, Zenon DEF ProtocolInv

LEMMA ResumeEmitInv ==
  ASSUME PlanFacts, ProtocolInv, NEW x \in Upstreams, ResumeEmit(x)
  PROVE  ProtocolInv'
<1>1. TypeInv /\ TodoInv /\ TaskInv /\ StillInv /\ OpenInv
  BY Zenon DEF ProtocolInv
<1>2. /\ step = "resume" /\ step' = step /\ x \in todo /\ todo' = todo \ {x}
      /\ sender' = [sender EXCEPT ![x].paused = FALSE]
      /\ UNCHANGED <<plan, change, conn, chan, sup, reported, assigned, emitted, fatal>>
  BY Zenon DEF ResumeEmit, Acked, pastVars, netVars
<1>3. Tasks' = Tasks /\ x \in plan.ups
  BY <1>1, <1>2, Zenon DEF Tasks, TodoInv
<1>4. /\ sender' \in [Upstreams -> Senders] /\ ~ sender'[x].paused
      /\ sender'[x].downs = sender[x].downs /\ sender'[x].table = sender[x].table
      /\ sender'[x].batches = sender[x].batches
      /\ \A v \in Upstreams : v # x => sender'[v] = sender[v]
  BY <1>1, <1>2, Zenon DEF TypeInv, Senders
<1>5. TypeInv'
  BY <1>1, <1>2, <1>4, Zenon DEF TypeInv
<1>6. ASSUME NEW u \in Upstreams
      PROVE  SenderInv(u)' /\ \A w \in Workers : On(u, w)' = On(u, w)
  <2>1. SenderInv(u)
    BY Zenon DEF ProtocolInv
  <2>2. \A w \in Workers : On(u, w)' = On(u, w)
    BY <1>2, <1>4, Zenon DEF On
  <2>3. CASE u = x
    BY <1>2, <1>3, <1>4, <2>1, <2>2, <2>3, Zenon DEF SenderInv, Pending
  <2>4. CASE u # x
    BY <1>2, <1>3, <1>4, <2>1, <2>2, <2>4, Zenon DEF SenderInv, Pending
  <2> QED BY <2>3, <2>4, Zenon
<1>7. ASSUME NEW u \in Upstreams, NEW w \in Workers
      PROVE  LinkInv(u, w)'
  <2>1. LinkInv(u, w)
    BY Zenon DEF ProtocolInv
  <2>2. CASE u = x
    BY <1>2, <1>3, <1>4, <1>6, <2>1, <2>2, Zenon DEF LinkInv
  <2>3. CASE u # x
    BY <1>2, <1>3, <1>4, <1>6, <2>1, <2>3, Zenon DEF LinkInv
  <2> QED BY <2>2, <2>3, Zenon
<1>8. TodoInv' /\ TaskInv' /\ StillInv' /\ OpenInv'
  BY <1>1, <1>2, <1>3, Zenon DEF TodoInv, TaskInv, StillInv, OpenInv
<1>9. ASSUME NEW w \in Workers
      PROVE  SupplierInv(w)' /\ BarrierInv(w)'
  <2>1. SupplierInv(w) /\ BarrierInv(w)
    BY Zenon DEF ProtocolInv
  <2>2. Connected(w)' = Connected(w)
    BY <1>2, Zenon DEF Connected
  <2> QED BY <1>2, <1>3, <2>1, <2>2, Zenon DEF SupplierInv, BarrierInv
<1> QED BY <1>5, <1>6, <1>7, <1>8, <1>9, Zenon DEF ProtocolInv

\* A collector that is not paused puts batches on its channels.
Sends(u, b) ==
  /\ u \in plan.ups /\ ~ sender[u].paused
  /\ UNCHANGED <<step, todo, plan, change, conn, sup, reported, assigned>>
  /\ fatal' = fatal /\ emitted' \in 0 .. MaxRecords
  /\ Sets(sender, sender', u, sender[u].downs, sender[u].table, sender[u].paused, b)
  /\ chan' \in [Links -> Seq(Units)]
  /\ \A v \in Upstreams, w \in Workers : v # u => chan'[<<v, w>>] = chan[<<v, w>>]
  /\ \A w \in Workers :
       /\ Data(chan[<<u, w>>]) => Data(chan'[<<u, w>>])
       /\ ~ On(u, w) => chan'[<<u, w>>] = chan[<<u, w>>] /\ b[w] = <<>>

LEMMA SendsInv ==
  ASSUME PlanFacts, ProtocolInv, NEW x \in Upstreams, NEW b, Sends(x, b)
  PROVE  ProtocolInv'
<1>1. TypeInv /\ TodoInv /\ TaskInv /\ StillInv /\ OpenInv
  BY Zenon DEF ProtocolInv
<1>2. /\ x \in plan.ups /\ ~ sender[x].paused
      /\ UNCHANGED <<step, todo, plan, change, conn, sup, reported, assigned, fatal>>
      /\ emitted' \in 0 .. MaxRecords /\ chan' \in [Links -> Seq(Units)]
      /\ \A v \in Upstreams, w \in Workers : v # x => chan'[<<v, w>>] = chan[<<v, w>>]
      /\ \A w \in Workers :
           /\ Data(chan[<<x, w>>]) => Data(chan'[<<x, w>>])
           /\ ~ On(x, w) => chan'[<<x, w>>] = chan[<<x, w>>] /\ b[w] = <<>>
  BY Zenon DEF Sends
<1>3. Tasks' = Tasks
  BY <1>2, Zenon DEF Tasks
<1>4. /\ sender' \in [Upstreams -> Senders] /\ ~ sender'[x].paused
      /\ sender'[x].downs = sender[x].downs /\ sender'[x].table = sender[x].table
      /\ sender'[x].batches = b /\ sender'[x].paused = sender[x].paused
      /\ \A v \in Upstreams : v # x => sender'[v] = sender[v]
  BY <1>2 DEF Sends, Sets
<1>5. TypeInv'
  BY <1>1, <1>2, <1>4, Zenon DEF TypeInv
<1>6. ASSUME NEW u \in Upstreams
      PROVE  /\ SenderInv(u)' /\ Still(u)' = Still(u) /\ \A w \in Workers : On(u, w)' = On(u, w)
             /\ sender'[u].paused = sender[u].paused
  <2>1. SenderInv(u)
    BY Zenon DEF ProtocolInv
  <2>2. \A w \in Workers : On(u, w)' = On(u, w)
    BY <1>2, <1>4, Zenon DEF On
  <2>3. sender'[u].paused = sender[u].paused
    BY <1>4, Zenon
  <2>4. sender'[u].downs = sender[u].downs /\ sender'[u].table = sender[u].table
    BY <1>4, Zenon
  <2>5. SenderInv(u)'
    BY <1>2, <1>3, <2>1, <2>3, <2>4, Zenon DEF SenderInv, Pending
  <2> QED BY <1>2, <2>2, <2>3, <2>5, Zenon DEF Still
<1>7. ASSUME NEW u \in Upstreams, NEW w \in Workers
      PROVE  LinkInv(u, w)'
  <2>1. LinkInv(u, w)
    BY Zenon DEF ProtocolInv
  <2>2. CASE u = x
    BY <1>2, <1>3, <1>4, <1>6, <2>1, <2>2, Zenon DEF LinkInv
  <2>3. CASE u # x
    BY <1>2, <1>3, <1>4, <1>6, <2>1, <2>3, ZenonT(30) DEF LinkInv
  <2> QED BY <2>2, <2>3, Zenon
<1>8. TodoInv' /\ TaskInv' /\ StillInv' /\ OpenInv'
  BY <1>1, <1>2, <1>3, <1>6, Zenon DEF TodoInv, TaskInv, StillInv, OpenInv
<1>9. ASSUME NEW w \in Workers
      PROVE  SupplierInv(w)' /\ BarrierInv(w)'
  <2>1. SupplierInv(w) /\ BarrierInv(w)
    BY Zenon DEF ProtocolInv
  <2>2. Connected(w)' = Connected(w)
    BY <1>2, Zenon DEF Connected
  <2>3. ASSUME NEW u \in plan.ups
        PROVE  sender'[u].paused /\ chan'[<<u, w>>] = <<>> <=> sender[u].paused /\ chan[<<u, w>>] = <<>>
    <3>1. u \in Upstreams
      BY <1>1, Zenon DEF TypeInv
    <3> QED BY <1>2, <1>4, <1>6, <3>1, Zenon
  <2>4. Passed(w)' = Passed(w)
    BY <1>2, <2>3, Zenon DEF Passed
  <2> QED BY <1>2, <1>3, <2>1, <2>2, <2>4, Zenon DEF SupplierInv, BarrierInv
<1> QED BY <1>5, <1>6, <1>7, <1>8, <1>9, Zenon DEF ProtocolInv

LEMMA FlushInv ==
  ASSUME PlanFacts, ProtocolInv, NEW x \in Upstreams, FlushAllPendingBatches(x)
  PROVE  ProtocolInv'
<1>1. TypeInv
  BY Zenon DEF ProtocolInv
<1>2. PICK w \in Workers : sender[x].batches[w] # <<>>
  BY Zenon DEF FlushAllPendingBatches
<1>3. x \in plan.ups /\ ~ sender[x].paused
  BY <1>2, Zenon DEF ProtocolInv, LinkInv, On
<1>4. Sets(sender, sender', x, sender[x].downs, sender[x].table, sender[x].paused, Idle.batches)
  <2>1. sender \in [Upstreams -> Senders] /\ sender' = [sender EXCEPT ![x].batches = Idle.batches]
    BY <1>1, Zenon DEF TypeInv, FlushAllPendingBatches
  <2> QED BY <2>1, EmptyBatches, SetFields, Zenon
<1>5. /\ UNCHANGED <<step, todo, plan, change, conn, sup, reported, assigned, fatal, emitted>>
      /\ chan' = Flush(x)
  BY Zenon DEF FlushAllPendingBatches, coordVars, pastVars
<1>6. emitted' \in 0 .. MaxRecords
  BY <1>1, <1>5, Zenon DEF TypeInv
<1>7. ASSUME NEW v \in Workers, ~ On(x, v)
      PROVE  sender[x].batches[v] = <<>>
  BY <1>7, ZenonT(30) DEF ProtocolInv, LinkInv
<1>8. Sends(x, Idle.batches)
  BY <1>1, <1>3, <1>4, <1>5, <1>6, <1>7, FlushFacts, EmptyBatches, Zenon DEF Sends
<1> QED BY <1>8, SendsInv, Zenon

LEMMA EmitInv ==
  ASSUME PlanFacts, ProtocolInv, NEW x \in Upstreams, NEW k \in Keys, NEW kind \in Kinds,
         Emit(x, k, kind)
  PROVE  ProtocolInv'
<1> DEFINE r == [id |-> emitted + 1, key |-> k, kind |-> kind]
           w == sender[x].table[BucketOf[k]]
           full == Len(sender[x].batches[w]) = BatchSize
           mine == IF full THEN <<r>> ELSE Append(sender[x].batches[w], r)
           b == [sender[x].batches EXCEPT ![w] = mine]
<1>1. TypeInv
  BY Zenon DEF ProtocolInv
<1>2. /\ x \in plan.ups /\ ~ sender[x].paused /\ sender[x].downs = Tasks
      /\ sender[x].table = plan.table /\ plan.table \in [Buckets -> Tasks]
  BY Emitter, Zenon DEF Emit
<1>3. w \in Tasks /\ w \in Workers /\ On(x, w)
  BY <1>2, ConstantsAssumption, Zenon DEF On, PlanFacts
<1>4. /\ UNCHANGED <<step, todo, plan, change, conn, sup, reported, assigned>>
      /\ emitted' = emitted + 1 /\ emitted < job.records
      /\ fatal' = fatal
  BY <1>2, <1>3, Zenon DEF Emit, coordVars, Require
<1>5. emitted' \in 0 .. MaxRecords /\ emitted + 1 \in 1 .. MaxRecords
  <2>1. job.records \in 0 .. MaxRecords /\ MaxRecords \in Nat
    BY ConstantsAssumption, Zenon DEF PlanFacts, JobType
  <2> QED BY <1>1, <1>4, <2>1 DEF TypeInv
<1>6. r \in Records
  BY <1>5, Zenon DEF Records
<1>7. sender[x].batches \in [Workers -> Seq(Records)]
  BY <1>1, Zenon DEF TypeInv, Senders
<1>8. /\ sender' = [sender EXCEPT ![x].batches = b]
      /\ chan' = IF full THEN [chan EXCEPT ![<<x, w>>] = Append(@, Batch(sender[x].batches[w]))]
                         ELSE chan
  BY <1>1, ZenonT(30) DEF Emit, TypeInv, Senders
<1> HIDE DEF r
<1>9. mine \in Seq(Records)
  BY <1>3, <1>6, <1>7
<1> HIDE DEF mine
<1>10. b \in [Workers -> Seq(Records)] /\ \A v \in Workers : v # w => b[v] = sender[x].batches[v]
  BY <1>7, <1>9, Zenon
<1> HIDE DEF b
<1>11. Sets(sender, sender', x, sender[x].downs, sender[x].table, sender[x].paused, b)
  <2>1. sender \in [Upstreams -> Senders]
    BY <1>1, Zenon DEF TypeInv
  <2> QED BY <1>8, <1>10, <2>1, SetFields, ZenonT(30)
<1>12. /\ chan' \in [Links -> Seq(Units)]
       /\ \A v \in Upstreams, z \in Workers : v # x \/ z # w => chan'[<<v, z>>] = chan[<<v, z>>]
       /\ Data(chan[<<x, w>>]) => Data(chan'[<<x, w>>])
  <2> DEFINE u == Batch(sender[x].batches[w])
  <2>1. u \in Units /\ u.type = "batch"
    BY <1>3, <1>7, BatchUnits, Zenon
  <2> HIDE DEF u
  <2>2. /\ chan \in [Links -> Seq(Units)] /\ <<x, w>> \in Links
        /\ \A v \in Upstreams, z \in Workers : <<v, z>> \in Links
    BY <1>1, <1>3, Zenon DEF TypeInv, Links
  <2>3. CASE full
    <3>1. chan' = [chan EXCEPT ![<<x, w>>] = Append(chan[<<x, w>>], u)]
      BY <1>8, <2>3, Zenon DEF u
    <3>2. Append(chan[<<x, w>>], u) \in Seq(Units)
      BY <2>1, <2>2
    <3>3. Data(chan[<<x, w>>]) => Data(Append(chan[<<x, w>>], u))
      BY <2>1, <2>2, DataGrows, Zenon
    <3>4. chan'[<<x, w>>] = Append(chan[<<x, w>>], u)
      BY <2>2, <3>1, Zenon
    <3>5. ASSUME NEW v \in Upstreams, NEW z \in Workers, v # x \/ z # w
          PROVE  chan'[<<v, z>>] = chan[<<v, z>>]
      <4>1. <<v, z>> # <<x, w>>
        BY <3>5, Zenon
      <4> HIDE DEF w
      <4> QED BY <2>2, <3>1, <4>1, Zenon
    <3> QED BY <2>2, <3>1, <3>2, <3>3, <3>4, <3>5, ZenonT(30)
  <2>4. CASE ~ full
    BY <1>8, <2>2, <2>4, Zenon
  <2> QED BY <2>3, <2>4, Zenon
<1>13. ASSUME NEW v \in Workers, ~ On(x, v)
       PROVE  sender[x].batches[v] = <<>> /\ v # w
  BY <1>3, <1>13, Zenon DEF ProtocolInv, LinkInv
<1> HIDE DEF w, full
<1>14. Sends(x, b)
  BY <1>2, <1>4, <1>5, <1>10, <1>11, <1>12, <1>13, ZenonT(30) DEF Sends
<1> QED BY <1>14, SendsInv, Zenon

LEMMA PauseEmitInv ==
  ASSUME PlanFacts, ProtocolInv, NEW x \in Upstreams, PauseEmit(x)
  PROVE  ProtocolInv'
<1>1. TypeInv /\ TodoInv /\ TaskInv /\ StillInv /\ OpenInv
  BY Zenon DEF ProtocolInv
<1>2. /\ step = "pause" /\ step' = step /\ x \in todo /\ todo' = todo \ {x}
      /\ sender' = [sender EXCEPT ![x].paused = TRUE, ![x].batches = Idle.batches]
      /\ chan' = Push(Flush(x), x, sender[x].downs, DrainBarrier)
      /\ UNCHANGED <<plan, change, conn, sup, reported, assigned, emitted, fatal>>
  BY Zenon DEF PauseEmit, Paused, Acked, pastVars
<1>3. Tasks' = Tasks /\ x \in plan.ups
  BY <1>1, <1>2, Zenon DEF Tasks, TodoInv
<1>4. /\ sender' \in [Upstreams -> Senders] /\ sender'[x].paused
      /\ sender'[x].downs = sender[x].downs /\ sender'[x].table = sender[x].table
      /\ \A w \in Workers : sender'[x].batches[w] = <<>>
      /\ \A v \in Upstreams : v # x => sender'[v] = sender[v]
  <2> DEFINE y == [sender EXCEPT ![x].paused = TRUE]
             e == Idle.batches
  <2>1. e \in [Workers -> Seq(Records)] /\ \A w \in Workers : e[w] = <<>>
    BY EmptyBatches, Zenon
  <2> HIDE DEF e
  <2>2. sender \in [Upstreams -> Senders]
    BY <1>1, Zenon DEF TypeInv
  <2>3. Sets(sender, y, x, sender[x].downs, sender[x].table, TRUE, sender[x].batches)
    BY <2>2, SetFields, Zenon
  <2>4. sender' = [y EXCEPT ![x].batches = e]
    BY <1>2, <2>2, Zenon DEF e, Senders
  <2> HIDE DEF y
  <2>5. y \in [Upstreams -> Senders]
    BY <2>3, Zenon DEF Sets
  <2>6. Sets(y, sender', x, y[x].downs, y[x].table, y[x].paused, e)
    BY <2>1, <2>4, <2>5, SetFields, ZenonT(30)
  <2> QED BY <2>1, <2>3, <2>6 DEF Sets
<1>5. /\ sender[x].downs = Tasks /\ ~ sender[x].paused
      /\ \A w \in Workers : On(x, w) <=> w \in Tasks
  <2>1. SenderInv(x)
    BY Zenon DEF ProtocolInv
  <2> QED BY <1>2, <1>3, <2>1, Zenon DEF SenderInv, Pending, On
<1>6. /\ chan' \in [Links -> Seq(Units)]
      /\ \A v \in Upstreams, w \in Workers : v # x => chan'[<<v, w>>] = chan[<<v, w>>]
      /\ \A w \in Workers : IF w \in Tasks THEN EndsIn(chan'[<<x, w>>], "barrier")
                                          ELSE chan'[<<x, w>>] = chan[<<x, w>>]
  <2>1. ASSUME NEW w \in Workers
        PROVE  IF w \in Tasks THEN Data(chan[<<x, w>>]) ELSE sender[x].batches[w] = <<>>
    <3>1. LinkInv(x, w)
      BY Zenon DEF ProtocolInv
    <3> QED BY <1>5, <3>1, Zenon DEF LinkInv
  <2>2. /\ Flush(x) \in [Links -> Seq(Units)]
        /\ \A v \in Upstreams, w \in Workers :
             v # x \/ sender[x].batches[w] = <<>> => Flush(x)[<<v, w>>] = chan[<<v, w>>]
        /\ \A w \in Workers : Data(chan[<<x, w>>]) => Data(Flush(x)[<<x, w>>])
    BY <1>1, FlushFacts, Zenon
  <2> DEFINE f == Flush(x)
             ds == sender[x].downs
             unit == DrainBarrier
  <2> HIDE DEF f, ds, unit
  <2>3. f \in [Links -> Seq(Units)] /\ unit \in Units /\ unit.type = "barrier"
    BY <2>2, ControlUnits, Zenon DEF f, unit
  <2>4. /\ Push(f, x, ds, unit) \in [Links -> Seq(Units)]
        /\ \A v \in Upstreams, w \in Workers :
             v # x \/ w \notin ds => Push(f, x, ds, unit)[<<v, w>>] = f[<<v, w>>]
        /\ \A w \in Workers :
             w \in ds /\ Data(f[<<x, w>>]) => EndsIn(Push(f, x, ds, unit)[<<x, w>>], unit.type)
    BY <2>3, PushFacts
  <2>5. chan' = Push(f, x, ds, unit) /\ ds = Tasks
    BY <1>2, <1>5, Zenon DEF f, ds, unit
  <2>6. /\ \A v \in Upstreams, w \in Workers : v # x => f[<<v, w>>] = chan[<<v, w>>]
        /\ \A w \in Workers : IF w \in Tasks THEN Data(f[<<x, w>>])
                                            ELSE f[<<x, w>>] = chan[<<x, w>>]
    BY <2>1, <2>2, Zenon DEF f
  <2> QED BY <2>3, <2>4, <2>5, <2>6, Zenon
<1>7. TypeInv'
  BY <1>1, <1>2, <1>4, <1>6, Zenon DEF TypeInv
<1>8. ASSUME NEW u \in Upstreams
      PROVE  SenderInv(u)' /\ Still(u)' = Still(u) /\ \A w \in Workers : On(u, w)' = On(u, w)
  <2>1. SenderInv(u)
    BY Zenon DEF ProtocolInv
  <2>2. \A w \in Workers : On(u, w)' = On(u, w)
    BY <1>2, <1>4, Zenon DEF On
  <2>3. CASE u = x
    BY <1>2, <1>3, <1>4, <2>1, <2>2, <2>3, Zenon DEF SenderInv, Pending, Still
  <2>4. CASE u # x
    BY <1>2, <1>3, <1>4, <2>1, <2>2, <2>4, Zenon DEF SenderInv, Pending, Still
  <2> QED BY <2>3, <2>4, Zenon
<1>9. ASSUME NEW u \in Upstreams, NEW w \in Workers
      PROVE  LinkInv(u, w)'
  <2>1. LinkInv(u, w)
    BY Zenon DEF ProtocolInv
  <2>2. CASE u = x
    BY <1>2, <1>3, <1>4, <1>5, <1>6, <1>8, <2>1, <2>2, SMTT(20) DEF LinkInv
  <2>3. CASE u # x
    BY <1>2, <1>3, <1>4, <1>6, <1>8, <2>1, <2>3, ZenonT(30) DEF LinkInv
  <2> QED BY <2>2, <2>3, Zenon
<1>10. TodoInv' /\ TaskInv' /\ StillInv' /\ OpenInv'
  BY <1>1, <1>2, <1>3, <1>8, Zenon DEF TodoInv, TaskInv, StillInv, OpenInv
<1>11. ASSUME NEW w \in Workers
       PROVE  SupplierInv(w)' /\ BarrierInv(w)'
  <2>1. SupplierInv(w) /\ BarrierInv(w)
    BY Zenon DEF ProtocolInv
  <2>2. Connected(w)' = Connected(w)
    BY <1>2, Zenon DEF Connected
  <2>3. ASSUME NEW u \in plan.ups, w \in Tasks
        PROVE  sender'[u].paused /\ chan'[<<u, w>>] = <<>> <=> sender[u].paused /\ chan[<<u, w>>] = <<>>
    <3>1. u \in Upstreams
      BY <1>1, Zenon DEF TypeInv
    <3>2. CASE u = x
      BY <1>5, <1>6, <2>3, <3>2, EmptyChannel, Zenon
    <3>3. CASE u # x
      BY <1>4, <1>6, <3>1, <3>3, Zenon
    <3> QED BY <3>2, <3>3, Zenon
  <2>4. w \in Tasks => Passed(w)' = Passed(w)
    BY <1>2, <2>3, ZenonT(30) DEF Passed
  <2> QED BY <1>2, <1>3, <2>1, <2>2, <2>4, Zenon DEF SupplierInv, BarrierInv
<1> QED BY <1>7, <1>8, <1>9, <1>10, <1>11, Zenon DEF ProtocolInv

LEMMA UpdateRoutingInv ==
  ASSUME PlanFacts, ProtocolInv, NEW x \in Upstreams, UpdateRouting(x)
  PROVE  ProtocolInv'
<1>1. TypeInv /\ TodoInv /\ TaskInv /\ StillInv /\ OpenInv
  BY Zenon DEF ProtocolInv
<1>2. /\ step = "routing" /\ step' = step /\ x \in todo /\ todo' = todo \ {x}
      /\ Require(change.added \cap sender[x].downs = {} /\ change.removed \subseteq sender[x].downs,
                 "downstreams")
      /\ sender' = [sender EXCEPT ![x].downs = (@ \cup change.added) \ change.removed,
                                  ![x].table = Deserialize(Serialize(plan.table)),
                                  ![x].batches = Idle.batches]
      /\ conn' = Dial(x, change.added)
      /\ chan' = Push(Flush(x), x, change.removed, Termination)
      /\ UNCHANGED <<plan, change, sup, reported, assigned, emitted>>
  BY Zenon DEF UpdateRouting, Acked, pastVars
<1>3. /\ Tasks' = Tasks /\ x \in plan.ups /\ Tasks \subseteq Workers
      /\ change.added \subseteq Tasks /\ change.removed \subseteq Workers
      /\ change.removed \cap Tasks = {}
  BY <1>1, <1>2, Zenon DEF Tasks, TodoInv, PlanFacts
<1>4. /\ sender[x].downs = (Tasks \cup change.removed) \ change.added /\ sender[x].paused
      /\ \A w \in Workers : On(x, w) <=> w \in (Tasks \cup change.removed) \ change.added
  <2>1. SenderInv(x)
    BY Zenon DEF ProtocolInv
  <2> QED BY <1>2, <1>3, <2>1, Zenon DEF SenderInv, Pending, On
<1>5. fatal' = fatal
  BY <1>2, <1>3, <1>4, Zenon DEF Require
<1>6. /\ sender' \in [Upstreams -> Senders] /\ sender'[x].paused
      /\ sender'[x].downs = Tasks /\ sender'[x].table = plan.table
      /\ \A w \in Workers : sender'[x].batches[w] = <<>>
      /\ \A v \in Upstreams : v # x => sender'[v] = sender[v]
  <2> DEFINE t == Deserialize(Serialize(plan.table))
             e == Idle.batches
             d == (sender[x].downs \cup change.added) \ change.removed
             y == [sender EXCEPT ![x].downs = d]
             z == [y EXCEPT ![x].table = t]
  <2>1. e \in [Workers -> Seq(Records)] /\ \A w \in Workers : e[w] = <<>>
    BY EmptyBatches, Zenon
  <2>2. d = Tasks
    BY <1>3, <1>4, Zenon
  <2>3. t = plan.table /\ t \in [Buckets -> Workers]
    BY Zenon DEF PlanFacts
  <2>4. sender \in [Upstreams -> Senders]
    BY <1>1, Zenon DEF TypeInv
  <2>5. sender' = [z EXCEPT ![x].batches = e]
    BY <1>2, <2>4, Zenon DEF Senders
  <2> HIDE DEF e, t, d
  <2>6. Sets(sender, y, x, d, sender[x].table, sender[x].paused, sender[x].batches)
    BY <1>3, <2>2, <2>4, SetFields, Zenon
  <2> HIDE DEF y
  <2>7. y \in [Upstreams -> Senders]
    BY <2>6, Zenon DEF Sets
  <2>8. Sets(y, z, x, y[x].downs, t, y[x].paused, y[x].batches)
    BY <2>3, <2>7, SetFields, Zenon
  <2> HIDE DEF z
  <2>9. z \in [Upstreams -> Senders]
    BY <2>8, Zenon DEF Sets
  <2>10. Sets(z, sender', x, z[x].downs, z[x].table, z[x].paused, e)
    BY <2>1, <2>5, <2>9, SetFields, ZenonT(30)
  <2>11. /\ y[x].downs = Tasks /\ y[x].paused
         /\ \A v \in Upstreams : v # x => y[v] = sender[v]
    BY <1>4, <2>2, <2>6 DEF Sets
  <2>12. /\ z[x].downs = Tasks /\ z[x].paused /\ z[x].table = plan.table
         /\ \A v \in Upstreams : v # x => z[v] = sender[v]
    BY <2>3, <2>8, <2>11 DEF Sets
  <2> QED BY <2>1, <2>10, <2>12, SMTT(20) DEF Sets
<1>7. /\ conn' \in [Links -> {"closed", "dialing", "open"}]
      /\ \A v \in Upstreams, w \in Workers :
           conn'[<<v, w>>] = IF v = x /\ w \in change.added THEN "dialing" ELSE conn[<<v, w>>]
  BY <1>1, <1>2, <1>3, Dials
<1>8. ASSUME NEW w \in Workers
      PROVE  /\ conn[<<x, w>>] = IF On(x, w) THEN "open" ELSE "closed"
             /\ chan[<<x, w>>] = <<>> /\ sender[x].batches[w] = <<>>
  <2>1. LinkInv(x, w) /\ Still(x)
    BY <1>1, <1>2, Zenon DEF ProtocolInv, StillInv
  <2> QED BY <1>2, <1>4, <2>1, Zenon DEF LinkInv, Still
<1>9. /\ chan' \in [Links -> Seq(Units)]
      /\ \A v \in Upstreams, w \in Workers :
           v # x \/ w \notin change.removed => chan'[<<v, w>>] = chan[<<v, w>>]
      /\ \A w \in change.removed :
           EndsIn(chan'[<<x, w>>], "termination") /\ chan'[<<x, w>>] = <<Termination>>
  <2> DEFINE f == Flush(x)
             ds == change.removed
             unit == Termination
  <2>1. /\ f \in [Links -> Seq(Units)]
        /\ \A v \in Upstreams, w \in Workers : f[<<v, w>>] = chan[<<v, w>>]
    BY <1>1, <1>8, FlushFacts, Zenon
  <2>2. unit \in Units /\ unit.type = "termination"
    BY ControlUnits, Zenon
  <2>3. chan' = Push(f, x, ds, unit)
    BY <1>2, Zenon
  <2> HIDE DEF f, ds, unit
  <2>4. /\ Push(f, x, ds, unit) \in [Links -> Seq(Units)]
        /\ \A v \in Upstreams, w \in Workers :
             v # x \/ w \notin ds => Push(f, x, ds, unit)[<<v, w>>] = f[<<v, w>>]
        /\ \A w \in Workers :
             w \in ds => Push(f, x, ds, unit)[<<x, w>>] = Append(f[<<x, w>>], unit)
        /\ \A w \in Workers :
             w \in ds /\ Data(f[<<x, w>>]) => EndsIn(Push(f, x, ds, unit)[<<x, w>>], unit.type)
    BY <2>1, <2>2, PushFacts, Zenon
  <2>5. \A w \in Workers : Data(f[<<x, w>>]) /\ f[<<x, w>>] = <<>>
    BY <1>8, <2>1, EmptyChannel, Zenon
  <2>6. Append(<<>>, unit) = <<Termination>>
    BY DEF unit
  <2> QED BY <1>3, <2>1, <2>2, <2>3, <2>4, <2>5, <2>6, ZenonT(30) DEF ds
<1>10. TypeInv'
  BY <1>1, <1>2, <1>5, <1>6, <1>7, <1>9, Zenon DEF TypeInv
<1>11. ASSUME NEW u \in Upstreams
       PROVE  SenderInv(u)'
  <2>1. SenderInv(u)
    BY Zenon DEF ProtocolInv
  <2>2. CASE u = x
    BY <1>2, <1>3, <1>6, <2>2, Zenon DEF SenderInv, Pending
  <2>3. CASE u # x
    BY <1>2, <1>3, <1>6, <2>1, <2>3, Zenon DEF SenderInv, Pending
  <2> QED BY <2>2, <2>3, Zenon
<1>12. ASSUME NEW u \in Upstreams, u # x
       PROVE  /\ Still(u)' = Still(u)
              /\ \A w \in Workers : /\ On(u, w)' = On(u, w) /\ conn'[<<u, w>>] = conn[<<u, w>>]
                                    /\ chan'[<<u, w>>] = chan[<<u, w>>] /\ sender'[u] = sender[u]
  <2>1. \A w \in Workers : /\ On(u, w)' = On(u, w) /\ conn'[<<u, w>>] = conn[<<u, w>>]
                           /\ chan'[<<u, w>>] = chan[<<u, w>>] /\ sender'[u] = sender[u]
    BY <1>2, <1>6, <1>7, <1>9, <1>12, SMTT(20) DEF On
  <2> QED BY <2>1, Zenon DEF Still
<1>13. ASSUME NEW u \in Upstreams, NEW w \in Workers
       PROVE  LinkInv(u, w)'
  <2>1. LinkInv(u, w) /\ Data(<<>>)
    BY EmptyChannel, Zenon DEF ProtocolInv
  <2>2. CASE u = x
    <3>1. On(x, w)' <=> w \in Tasks
      BY <1>2, <1>3, <1>6, Zenon DEF On
    <3>2. CASE w \in Tasks
      <4>1. conn'[<<x, w>>] # "closed" /\ chan'[<<x, w>>] = <<>> /\ sender'[x].batches[w] = <<>>
        BY <1>3, <1>4, <1>6, <1>7, <1>8, <1>9, <3>2, SMTT(20)
      <4> QED BY <2>1, <2>2, <3>1, <3>2, <4>1, Zenon DEF LinkInv
    <3>3. CASE w \in change.removed
      <4>1. /\ conn'[<<x, w>>] = "open" /\ EndsIn(chan'[<<x, w>>], "termination")
            /\ chan'[<<x, w>>] = <<Termination>> /\ sender'[x].batches[w] = <<>> /\ w \notin Tasks
        BY <1>3, <1>4, <1>6, <1>7, <1>8, <1>9, <3>3, SMTT(20)
      <4> QED BY <1>2, <1>3, <2>2, <3>1, <4>1, Zenon DEF LinkInv
    <3>4. CASE w \notin Tasks \cup change.removed
      <4>1. conn'[<<x, w>>] = "closed" /\ chan'[<<x, w>>] = <<>> /\ sender'[x].batches[w] = <<>>
        BY <1>3, <1>4, <1>6, <1>7, <1>8, <1>9, <3>4, SMTT(20)
      <4> QED BY <2>2, <3>1, <3>4, <4>1, Zenon DEF LinkInv
    <3> QED BY <3>2, <3>3, <3>4, Zenon
  <2>3. CASE u # x
    <3>1. w \in Tasks /\ ~ On(u, w) => conn[<<u, w>>] = "closed" \/ u \in plan.ups
      BY <1>1, <1>2, <2>3, Zenon DEF StillInv, Still
    <3>2. w \in Tasks /\ ~ On(u, w) => conn[<<u, w>>] = "closed"
      BY <2>1, <3>1, Zenon DEF LinkInv
    <3> QED BY <1>2, <1>3, <1>12, <2>1, <2>3, <3>2, ZenonT(30) DEF LinkInv
  <2> QED BY <2>2, <2>3, Zenon
<1>14. StillInv'
  BY <1>1, <1>2, <1>3, <1>12, Zenon DEF StillInv
<1>15. TodoInv' /\ TaskInv' /\ OpenInv'
  BY <1>1, <1>2, <1>3, <1>7, Zenon DEF TodoInv, TaskInv, OpenInv
<1>16. ASSUME NEW w \in Workers
       PROVE  SupplierInv(w)' /\ BarrierInv(w)'
  <2>1. SupplierInv(w) /\ BarrierInv(w)
    BY Zenon DEF ProtocolInv
  <2>2. Connected(w)' = Connected(w)
    BY <1>3, <1>4, <1>7, <1>8 DEF Connected
  <2> QED BY <1>2, <1>3, <2>1, <2>2, Zenon DEF SupplierInv, BarrierInv
<1> QED BY <1>10, <1>11, <1>13, <1>14, <1>15, <1>16, Zenon DEF ProtocolInv

\* Between two rescales that are spaced, every channel is in place.
LEMMA SettledFacts ==
  ASSUME PlanFacts, ProtocolInv, step = "idle", Settled
  PROVE  /\ \A w \in assigned : sup[w].deployed
         /\ \A u \in Upstreams, w \in Workers :
              IF On(u, w) THEN conn[<<u, w>>] = "open" /\ Data(chan[<<u, w>>])
                          ELSE conn[<<u, w>>] = "closed" /\ chan[<<u, w>>] = <<>>
         /\ \A u \in plan.ups : sender[u].downs = Tasks /\ ~ sender[u].paused
<1>1. TypeInv /\ TaskInv
  BY Zenon DEF ProtocolInv
<1>2. plan.ups \subseteq Upstreams /\ assigned \subseteq Workers
  BY <1>1, Zenon DEF TypeInv, TaskInv
<1>3. ASSUME NEW u \in plan.ups
      PROVE  sender[u].downs = Tasks /\ ~ sender[u].paused
  <2>1. SenderInv(u)
    BY <1>2, Zenon DEF ProtocolInv
  <2> QED BY <2>1, Zenon DEF SenderInv, Pending
<1>4. ASSUME NEW u \in Upstreams, NEW w \in Workers
      PROVE  IF On(u, w) THEN conn[<<u, w>>] = "open" /\ Data(chan[<<u, w>>])
                         ELSE conn[<<u, w>>] = "closed" /\ chan[<<u, w>>] = <<>>
  <2>1. LinkInv(u, w)
    BY Zenon DEF ProtocolInv
  <2>2. <<u, w>> \in Links /\ chan[<<u, w>>] \in Seq(Units)
    BY <1>1, Zenon DEF Links, TypeInv
  <2>3. ~ EndsIn(chan[<<u, w>>], "termination")
    BY <2>2, DataOrEnd, Zenon DEF Settled
  <2>4. On(u, w) => conn[<<u, w>>] = "open"
    BY <1>3, Zenon DEF Settled, On
  <2> QED BY <2>1, <2>3, <2>4, Zenon DEF LinkInv
<1>5. ASSUME NEW w \in assigned
      PROVE  sup[w].deployed
  <2>1. SupplierInv(w) /\ w \in Workers
    BY <1>2, Zenon DEF ProtocolInv
  <2>2. w \in Tasks => plan.ups \subseteq Connected(w)
    BY <1>2, Zenon DEF Settled, Connected
  <2> QED BY <2>1, <2>2, ZenonT(30) DEF SupplierInv
<1> QED BY <1>3, <1>4, <1>5, Zenon

\* The parts of the invariant that are about the operator upstream, after it was rescaled.
LEMMA UpstreamChangeInv ==
  ASSUME PlanFacts, ProtocolInv, step = "idle", Settled, step' = step, NEW x \in Upstreams,
         UNCHANGED <<todo, change, assigned, sup, reported, emitted, fatal>>,
         plan'.tasks = plan.tasks, plan'.free = plan.free, plan'.table = plan.table,
         plan'.ups \subseteq Upstreams, plan'.ups # {},
         \A u \in Upstreams : u # x => (u \in plan'.ups <=> u \in plan.ups),
         sender' \in [Upstreams -> Senders], chan' \in [Links -> Seq(Units)],
         conn' \in [Links -> {"closed", "dialing", "open"}],
         \A u \in Upstreams : u # x => sender'[u] = sender[u],
         \A u \in Upstreams, w \in Workers : u # x =>
            conn'[<<u, w>>] = conn[<<u, w>>] /\ chan'[<<u, w>>] = chan[<<u, w>>],
         \A w \in Workers : conn'[<<x, w>>] = "open" => conn[<<x, w>>] = "open",
         SenderInv(x)', \A w \in Workers : LinkInv(x, w)'
  PROVE  ProtocolInv'
<1>1. TypeInv /\ TodoInv /\ TaskInv /\ StillInv /\ OpenInv
  BY Zenon DEF ProtocolInv
<1>2. Tasks' = Tasks
  BY Zenon DEF Tasks
<1>3. TypeInv'
  BY <1>1, Zenon DEF TypeInv
<1>4. TodoInv' /\ TaskInv' /\ StillInv' /\ OpenInv'
  BY <1>1, <1>2, Zenon DEF TodoInv, TaskInv, StillInv, OpenInv
<1>5. ASSUME NEW u \in Upstreams
      PROVE  SenderInv(u)'
  <2>1. SenderInv(u)
    BY Zenon DEF ProtocolInv
  <2>2. CASE u # x
    BY <1>2, <2>1, <2>2, Zenon DEF SenderInv, Pending
  <2> QED BY <2>2, Zenon
<1>6. ASSUME NEW u \in Upstreams, NEW w \in Workers
      PROVE  LinkInv(u, w)'
  <2>1. LinkInv(u, w)
    BY Zenon DEF ProtocolInv
  <2>2. CASE u # x
    <3>1. On(u, w)' = On(u, w)
      BY <2>2, Zenon DEF On
    <3>2. ~ On(u, w) => conn[<<u, w>>] = "closed" /\ chan[<<u, w>>] = <<>>
      BY SettledFacts, Zenon
    <3> QED BY <2>1, <2>2, <3>1, <3>2, Zenon DEF LinkInv
  <2> QED BY <2>2, Zenon
<1>7. ASSUME NEW w \in Workers
      PROVE  SupplierInv(w)' /\ BarrierInv(w)'
  <2>1. SupplierInv(w) /\ BarrierInv(w)
    BY Zenon DEF ProtocolInv
  <2>2. w \in assigned => sup[w].deployed
    BY SettledFacts, Zenon
  <2> QED BY <1>2, <2>1, <2>2, Zenon DEF SupplierInv, BarrierInv
<1> QED BY <1>3, <1>4, <1>5, <1>6, <1>7, Zenon DEF ProtocolInv

LEMMA RescaleUpstreamInv ==
  ASSUME Spaced, PlanFacts, ProtocolInv, NEW x \in Upstreams, RescaleUpstream(x)
  PROVE  ProtocolInv'
<1>1. TypeInv /\ TodoInv /\ step = "idle" /\ Settled
  BY Zenon DEF ProtocolInv, RescaleUpstream
<1>2. /\ step' = step /\ UNCHANGED <<todo, change, assigned, sup, reported, emitted, fatal>>
  BY Zenon DEF RescaleUpstream, pastVars
<1>3. /\ \A u \in Upstreams, w \in Workers :
           IF On(u, w) THEN conn[<<u, w>>] = "open" /\ Data(chan[<<u, w>>])
                       ELSE conn[<<u, w>>] = "closed" /\ chan[<<u, w>>] = <<>>
      /\ \A u \in plan.ups : sender[u].downs = Tasks /\ ~ sender[u].paused
  BY <1>1, SettledFacts, Zenon
<1>4. Tasks \in SUBSET Workers /\ todo = {}
  BY <1>1, Zenon DEF PlanFacts, TodoInv
<1>5. plan = [tasks |-> plan.tasks, free |-> plan.free, ups |-> plan.ups, table |-> plan.table]
  BY Zenon DEF PlanFacts
<1>6. CASE /\ x \notin plan.ups /\ sender[x].downs = {}
           /\ plan' = [plan EXCEPT !.ups = @ \cup {x}]
           /\ StartCollector(x) /\ UNCHANGED chan
  <2>1. /\ plan'.tasks = plan.tasks /\ plan'.free = plan.free /\ plan'.table = plan.table
        /\ plan'.ups = plan.ups \cup {x}
    BY <1>5, <1>6, Zenon
  <2>2. plan'.ups \subseteq Upstreams /\ plan'.ups # {} /\ x \in plan'.ups /\ Tasks' = Tasks
    BY <1>1, <2>1, Zenon DEF TypeInv, Tasks
  <2> DEFINE s == [Idle EXCEPT !.downs = Tasks, !.table = Deserialize(Serialize(plan.table))]
  <2>3. plan.table \in [Buckets -> Workers] /\ Deserialize(Serialize(plan.table)) = plan.table
    BY Zenon DEF PlanFacts
  <2>4. Fresh([Idle EXCEPT !.downs = Tasks, !.table = plan.table], Tasks, plan.table)
    BY <1>4, <2>3, IdleType, Zenon
  <2>5. Fresh(s, Tasks, plan.table)
    BY <2>3, <2>4, Zenon
  <2>6. sender' = [sender EXCEPT ![x] = s] /\ conn' = Dial(x, Tasks)
    BY <1>6, Zenon DEF StartCollector
  <2> HIDE DEF s
  <2>7. /\ sender' \in [Upstreams -> Senders] /\ sender'[x] = s
        /\ \A v \in Upstreams : v # x => sender'[v] = sender[v]
    BY <1>1, <2>5, <2>6, SenderUpdate, ZenonT(30) DEF Fresh
  <2>8. /\ sender'[x].downs = Tasks /\ sender'[x].table = plan.table /\ ~ sender'[x].paused
        /\ \A w \in Workers : sender'[x].batches[w] = <<>>
    BY <2>5, <2>7, Zenon DEF Fresh
  <2>9. /\ conn' \in [Links -> {"closed", "dialing", "open"}]
        /\ \A v \in Upstreams, w \in Workers :
             conn'[<<v, w>>] = IF v = x /\ w \in Tasks THEN "dialing" ELSE conn[<<v, w>>]
    BY <1>1, <1>4, <2>6, Dials, ZenonT(30)
  <2>10. SenderInv(x)'
    BY <1>1, <1>2, <2>1, <2>2, <2>8, Zenon DEF SenderInv, Pending
  <2>11. ASSUME NEW w \in Workers
         PROVE  LinkInv(x, w)'
    <3>1. On(x, w)' <=> w \in Tasks
      BY <2>2, <2>8, Zenon DEF On
    <3>2. ~ On(x, w)
      BY <1>6, Zenon DEF On
    <3>3. /\ conn'[<<x, w>>] = IF w \in Tasks THEN "dialing" ELSE "closed"
          /\ chan'[<<x, w>>] = <<>> /\ Data(<<>>)
      BY <1>3, <1>6, <2>9, <3>2, EmptyChannel, ZenonT(30)
    <3> QED BY <2>8, <3>1, <3>3, Zenon DEF LinkInv
  <2>12. chan' \in [Links -> Seq(Units)] /\ chan' = chan
    BY <1>1, <1>6, Zenon DEF TypeInv
  <2>13. \A w \in Workers : conn'[<<x, w>>] = "open" => conn[<<x, w>>] = "open"
    BY <2>9, Zenon
  <2> QED BY <1>1, <1>2, <2>1, <2>2, <2>7, <2>9, <2>10, <2>11, <2>12, <2>13, UpstreamChangeInv, Zenon
<1>7. CASE /\ x \in plan.ups /\ plan.ups # {x}
           /\ plan' = [plan EXCEPT !.ups = @ \ {x}]
           /\ chan' = Push(Flush(x), x, sender[x].downs, Termination)
           /\ sender' = [sender EXCEPT ![x].paused = TRUE, ![x].batches = Idle.batches]
           /\ UNCHANGED conn
  <2>1. /\ plan'.tasks = plan.tasks /\ plan'.free = plan.free /\ plan'.table = plan.table
        /\ plan'.ups = plan.ups \ {x}
    BY <1>5, <1>7, Zenon
  <2>2. plan'.ups \subseteq Upstreams /\ plan'.ups # {} /\ x \notin plan'.ups /\ Tasks' = Tasks
    BY <1>1, <1>7, <2>1, Zenon DEF TypeInv, Tasks
  <2>3. /\ sender' \in [Upstreams -> Senders] /\ sender'[x].paused
        /\ \A w \in Workers : sender'[x].batches[w] = <<>>
        /\ \A v \in Upstreams : v # x => sender'[v] = sender[v]
    <3> DEFINE y == [sender EXCEPT ![x].paused = TRUE]
               e == Idle.batches
    <3>1. e \in [Workers -> Seq(Records)] /\ \A w \in Workers : e[w] = <<>>
      BY EmptyBatches, Zenon
    <3> HIDE DEF e
    <3>2. sender \in [Upstreams -> Senders]
      BY <1>1, Zenon DEF TypeInv
    <3>3. Sets(sender, y, x, sender[x].downs, sender[x].table, TRUE, sender[x].batches)
      BY <3>2, SetFields, Zenon
    <3>4. sender' = [y EXCEPT ![x].batches = e]
      BY <1>7, <3>2, Zenon DEF e, Senders
    <3> HIDE DEF y
    <3>5. y \in [Upstreams -> Senders]
      BY <3>3, Zenon DEF Sets
    <3>6. Sets(y, sender', x, y[x].downs, y[x].table, y[x].paused, e)
      BY <3>1, <3>4, <3>5, SetFields, ZenonT(30)
    <3> QED BY <3>1, <3>3, <3>6 DEF Sets
  <2>4. SenderInv(x)'
    BY <2>2, <2>3, Zenon DEF SenderInv
  <2>5. /\ sender[x].downs = Tasks
        /\ \A w \in Workers : On(x, w) <=> w \in Tasks
    BY <1>3, <1>7, Zenon DEF On
  <2>6. /\ chan' \in [Links -> Seq(Units)]
        /\ \A v \in Upstreams, w \in Workers :
             v # x \/ w \notin Tasks => chan'[<<v, w>>] = chan[<<v, w>>]
        /\ \A w \in Tasks : EndsIn(chan'[<<x, w>>], "termination")
    <3> DEFINE f == Flush(x)
               ds == sender[x].downs
               unit == Termination
    <3>1. \A w \in Workers : w \notin Tasks => sender[x].batches[w] = <<>>
      BY <2>5, Zenon DEF ProtocolInv, LinkInv
    <3>2. /\ f \in [Links -> Seq(Units)]
          /\ \A v \in Upstreams, w \in Workers :
               v # x \/ w \notin Tasks => f[<<v, w>>] = chan[<<v, w>>]
          /\ \A w \in Workers : Data(chan[<<x, w>>]) => Data(f[<<x, w>>])
      BY <1>1, <3>1, FlushFacts, Zenon
    <3>3. unit \in Units /\ unit.type = "termination"
      BY ControlUnits, Zenon
    <3>4. chan' = Push(f, x, ds, unit) /\ ds = Tasks
      BY <1>7, <2>5, Zenon
    <3> HIDE DEF f, ds, unit
    <3>5. /\ Push(f, x, ds, unit) \in [Links -> Seq(Units)]
          /\ \A v \in Upstreams, w \in Workers :
               v # x \/ w \notin ds => Push(f, x, ds, unit)[<<v, w>>] = f[<<v, w>>]
          /\ \A w \in Workers :
               w \in ds /\ Data(f[<<x, w>>]) => EndsIn(Push(f, x, ds, unit)[<<x, w>>], unit.type)
      <4>1. f \in [Links -> Seq(Units)] /\ unit \in Units
        BY <3>2, <3>3, Zenon
      <4> QED BY <4>1, PushFacts
    <3>6. \A w \in Tasks : Data(f[<<x, w>>])
      BY <1>3, <1>4, <2>5, <3>2, Zenon
    <3> QED BY <1>4, <3>2, <3>3, <3>4, <3>5, <3>6, Zenon
  <2>7. ASSUME NEW w \in Workers
        PROVE  LinkInv(x, w)'
    <3>1. ~ On(x, w)'
      BY <2>2, Zenon DEF On
    <3>2. CASE w \in Tasks
      <4>1. conn'[<<x, w>>] = "open" /\ \A v \in plan'.ups : conn'[<<v, w>>] = "open"
        BY <1>1, <1>7, <2>1, <3>2, Zenon DEF Settled
      <4> QED BY <1>1, <1>2, <2>2, <2>3, <2>6, <3>1, <3>2, <4>1, Zenon DEF LinkInv
    <3>3. CASE w \notin Tasks
      <4>1. conn'[<<x, w>>] = "closed" /\ chan'[<<x, w>>] = <<>>
        BY <1>3, <1>7, <2>5, <2>6, <3>3
      <4> QED BY <2>3, <3>1, <4>1, Zenon DEF LinkInv
    <3> QED BY <3>2, <3>3, Zenon
  <2>8. conn' = conn /\ conn' \in [Links -> {"closed", "dialing", "open"}]
    BY <1>1, <1>7, Zenon DEF TypeInv
  <2>9. \A u \in Upstreams, w \in Workers : u # x =>
            conn'[<<u, w>>] = conn[<<u, w>>] /\ chan'[<<u, w>>] = chan[<<u, w>>]
    BY <2>6, <2>8, Zenon
  <2> QED BY <1>1, <1>2, <2>1, <2>2, <2>3, <2>4, <2>6, <2>7, <2>8, <2>9, UpstreamChangeInv, Zenon
<1> QED BY <1>6, <1>7, ZenonT(30) DEF RescaleUpstream

-----------------------------------------------------------------------------
(* The invariant holds at first.                                           *)

LEMMA ProtocolInit ==
  ASSUME Init, PlanFacts
  PROVE  ProtocolInv
<1>1. /\ step = "deploy" /\ assigned = {} /\ emitted = 0 /\ fatal = "none"
      /\ sender = [u \in Upstreams |-> Idle] /\ conn = [l \in Links |-> "closed"]
      /\ chan = [l \in Links |-> <<>>] /\ sup = [w \in Workers |-> Supplier(0)]
      /\ reported = [w \in Workers |-> 0]
  BY Zenon DEF Init
<1>2. plan.ups = job.ups /\ todo = plan.ups \cup Tasks
  BY Zenon DEF Init, Tasks
<1>3. plan.ups \subseteq Upstreams /\ plan.ups # {} /\ MaxRecords \in Nat
  BY <1>2, ConstantsAssumption, Zenon DEF PlanFacts, JobType
<1>4. /\ Idle \in Senders /\ Idle.downs = {} /\ Idle.paused = FALSE
      /\ \A w \in Workers : Idle.batches[w] = <<>>
  <2>1. [b \in Buckets |-> Moving] \in [Buckets -> Workers \cup {Moving}]
    BY Zenon
  <2>2. [w \in Workers |-> <<>>] \in [Workers -> Seq(Records)]
    OBVIOUS
  <2>3. Idle \in Senders
    BY <2>1, <2>2, Zenon DEF Idle, Senders
  <2> QED BY <2>3, Zenon DEF Idle
<1>5. /\ Supplier(0) \in Suppliers /\ Supplier(0).drains = 0
  BY Zenon DEF Supplier, Suppliers
<1>6. \A u \in Upstreams, w \in Workers :
        /\ <<u, w>> \in Links /\ conn[<<u, w>>] = "closed" /\ chan[<<u, w>>] = <<>> /\ sender[u] = Idle
        /\ ~ On(u, w)
  BY <1>1, <1>4, Zenon DEF Links, On
<1>7. TypeInv
  <2>1. chan \in [Links -> Seq(Units)] /\ conn \in [Links -> {"closed", "dialing", "open"}]
    BY <1>1
  <2>2. sender \in [Upstreams -> Senders] /\ sup \in [Workers -> Suppliers]
    BY <1>1, <1>4, <1>5, Zenon
  <2> QED BY <1>1, <1>3, <2>1, <2>2 DEF TypeInv
<1>8. TodoInv /\ StillInv /\ OpenInv
  BY <1>1, <1>2, <1>6, Zenon DEF TodoInv, StillInv, OpenInv
<1>9. TaskInv
  BY <1>1, <1>2, Zenon DEF TaskInv
<1>10. ASSUME NEW u \in Upstreams
       PROVE  SenderInv(u)
  BY <1>1, <1>2, <1>4, Zenon DEF SenderInv, Pending
<1>11. ASSUME NEW u \in Upstreams, NEW w \in Workers
       PROVE  LinkInv(u, w)
  BY <1>4, <1>6, Zenon DEF LinkInv
<1>12. ASSUME NEW w \in Workers
       PROVE  SupplierInv(w) /\ BarrierInv(w)
  BY <1>1, <1>5, Zenon DEF SupplierInv, BarrierInv
<1> QED BY <1>7, <1>8, <1>9, <1>10, <1>11, <1>12, Zenon DEF ProtocolInv

=============================================================================
