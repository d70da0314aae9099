----------------------------- MODULE DrainProofs -----------------------------
(***************************************************************************)
(* The protocol of a stop-and-restart rescale, for any number of upstream  *)
(* tasks and workers: if rescales are spaced, a task that reports that its *)
(* data is drained has nothing on its way to it, and no process stops in a *)
(* log.Fatal.                                                              *)
(*                                                                         *)
(* CollectorProofs has the steps of the collectors; here are those of the  *)
(* coordinator and of the tasks.                                           *)
(***************************************************************************)
EXTENDS CollectorProofs, FiniteSetTheorems

-----------------------------------------------------------------------------
(* Steps of the coordinator: collectors, channels and tasks stay as they   *)
(* are, and the next message goes out when no answer to the last is open.  *)

Quiet ==
  /\ UNCHANGED <<sender, conn, chan, sup, reported, assigned, emitted>>
  /\ plan'.ups = plan.ups

LEMMA QuietFacts ==
  ASSUME TypeInv, Quiet
  PROVE  /\ fatal' \in {"none", "repartition"} => TypeInv'
         /\ \A u \in Upstreams, w \in Workers : On(u, w)' = On(u, w)
         /\ \A u \in Upstreams : Still(u)' = Still(u)
         /\ \A w \in Workers : Connected(w)' = Connected(w) /\ Passed(w)' = Passed(w)
<1>1. fatal' \in {"none", "repartition"} => TypeInv'
  BY Zenon DEF Quiet, TypeInv
<1>2. ASSUME NEW u \in Upstreams, NEW w \in Workers
      PROVE  On(u, w)' = On(u, w)
  BY Zenon DEF Quiet, On
<1>3. ASSUME NEW u \in Upstreams
      PROVE  Still(u)' = Still(u)
  BY <1>2, Zenon DEF Quiet, Still
<1>4. ASSUME NEW w \in Workers
      PROVE  Connected(w)' = Connected(w) /\ Passed(w)' = Passed(w)
  BY Zenon DEF Quiet, Connected, Passed
<1> QED BY <1>1, <1>2, <1>3, <1>4, Zenon

LEMMA StartJobDoneInv ==
  ASSUME PlanFacts, ProtocolInv, StartJobDone
  PROVE  ProtocolInv'
<1>1. /\ step = "deploy" /\ todo = {} /\ step' = "idle" /\ todo' = {}
      /\ Quiet /\ plan' = plan /\ change' = change /\ fatal' = fatal
  BY Zenon DEF StartJobDone, Advance, Quiet, netVars, pastVars
<1>2. Tasks' = Tasks
  BY <1>1, Zenon DEF Tasks
<1>3. /\ TypeInv /\ TodoInv /\ TaskInv /\ StillInv /\ OpenInv
  BY Zenon DEF ProtocolInv
<1>4. TypeInv'
  BY <1>1, <1>3, QuietFacts, Zenon DEF TypeInv
<1>5. TodoInv' /\ TaskInv' /\ StillInv' /\ OpenInv'
  BY <1>1, <1>2, <1>3, Zenon DEF TodoInv, TaskInv, StillInv, OpenInv, Quiet
<1>6. ASSUME NEW u \in Upstreams
      PROVE  SenderInv(u)'
  <2>1. SenderInv(u)
    BY Zenon DEF ProtocolInv
  <2> QED BY <1>1, <1>2, <2>1, Zenon DEF SenderInv, Quiet, Pending
<1>7. ASSUME NEW u \in Upstreams, NEW w \in Workers
      PROVE  LinkInv(u, w)'
  <2>1. LinkInv(u, w)
    BY Zenon DEF ProtocolInv
  <2>2. On(u, w)' = On(u, w)
    BY <1>1, <1>3, QuietFacts, Zenon
  <2> QED BY <1>1, <1>2, <2>1, <2>2, Zenon DEF LinkInv, Quiet
<1>8. ASSUME NEW w \in Workers
      PROVE  SupplierInv(w)' /\ BarrierInv(w)'
  <2>1. SupplierInv(w) /\ BarrierInv(w)
    BY Zenon DEF ProtocolInv
  <2>2. Connected(w)' = Connected(w) /\ Passed(w)' = Passed(w)
    BY <1>1, <1>3, QuietFacts, Zenon
  <2> QED BY <1>1, <1>2, <2>1, <2>2, Zenon DEF SupplierInv, BarrierInv, Quiet
<1> QED BY <1>4, <1>5, <1>6, <1>7, <1>8, Zenon DEF ProtocolInv

\* While a change is made, every task is connected to all upstream tasks.
LEMMA AllConnected ==
  ASSUME PlanFacts, ProtocolInv, Changing, NEW w \in Tasks
  PROVE  Connected(w) = plan.ups /\ \A u \in plan.ups : On(u, w)
<1>1. plan.ups \subseteq Upstreams /\ w \in Workers /\ \A u \in Upstreams : Still(u)
  BY Zenon DEF ProtocolInv, TypeInv, StillInv, Changing, PlanFacts
<1>2. ASSUME NEW u \in plan.ups
      PROVE  On(u, w)
  <2>1. SenderInv(u)
    BY <1>1, Zenon DEF ProtocolInv
  <2> QED BY <2>1, Zenon DEF SenderInv, Pending, Changing, On
<1>3. ASSUME NEW u \in Upstreams
      PROVE  conn[<<u, w>>] = "open" <=> u \in plan.ups
  <2>1. conn[<<u, w>>] = IF On(u, w) THEN "open" ELSE "closed"
    BY <1>1, Zenon DEF Still
  <2>2. u \notin plan.ups => ~ On(u, w)
    BY Zenon DEF On
  <2> QED BY <1>2, <2>1, <2>2, Zenon
<1> QED BY <1>1, <1>2, <1>3, Zenon DEF Connected

LEMMA RescaleInv ==
  ASSUME Spaced, PlanFacts, PlanFacts', PlanStep, ProtocolInv, NEW n \in 1 .. Len(Pool), Rescale(n)
  PROVE  ProtocolInv'
<1>1. /\ step = "idle" /\ todo = {} /\ step' = "pause" /\ todo' = plan.ups
      /\ Quiet /\ plan'.tasks = plan.tasks /\ plan'.table = plan.table /\ fatal' = fatal
      /\ Settled
  BY Zenon DEF Rescale, Advance, Quiet, netVars, pastVars, PlanFacts
<1>2. Tasks' = Tasks /\ plan'.ups = plan.ups
  BY <1>1, Zenon DEF Tasks, Quiet
<1>3. TypeInv /\ TodoInv /\ TaskInv /\ StillInv /\ OpenInv
  BY Zenon DEF ProtocolInv
<1>4. TypeInv'
  BY <1>1, <1>3, QuietFacts, Zenon DEF TypeInv
<1>5. change'.added \subseteq Range(plan.free) /\ Range(plan'.free) \subseteq Range(plan.free)
  BY <1>1, Zenon DEF PlanStep
<1>6. TodoInv' /\ TaskInv' /\ OpenInv'
  BY <1>1, <1>2, <1>3, <1>5, Zenon DEF TodoInv, TaskInv, OpenInv, Quiet
<1>7. ASSUME NEW u \in Upstreams
      PROVE  SenderInv(u)' /\ (u \in plan.ups => sender[u].downs = Tasks /\ ~ sender[u].paused)
  <2>1. SenderInv(u)
    BY Zenon DEF ProtocolInv
  <2> QED BY <1>1, <1>2, <2>1, Zenon DEF SenderInv, Quiet, Pending
<1>8. ASSUME NEW u \in Upstreams, NEW w \in Workers
      PROVE  /\ LinkInv(u, w)'
             /\ conn[<<u, w>>] = IF On(u, w) THEN "open" ELSE "closed"
  <2>1. LinkInv(u, w)
    BY Zenon DEF ProtocolInv
  <2>2. On(u, w)' = On(u, w)
    BY <1>1, <1>3, QuietFacts, Zenon
  <2>3. LinkInv(u, w)'
    BY <1>1, <1>2, <2>1, <2>2, Zenon DEF LinkInv, Quiet
  <2>4. On(u, w) => conn[<<u, w>>] = "open"
    BY <1>1, <1>7, Zenon DEF On, Settled
  <2>5. chan[<<u, w>>] \in Seq(Units) /\ <<u, w>> \in Links
    BY <1>3, Zenon DEF TypeInv, Links
  <2>6. ~ EndsIn(chan[<<u, w>>], "termination")
    BY <1>1, <2>5, DataOrEnd, Zenon DEF Settled
  <2> QED BY <2>1, <2>3, <2>4, <2>6, Zenon DEF LinkInv
<1>9. StillInv'
  <2>1. \A u \in Upstreams : Still(u)
    BY <1>8, Zenon DEF Still
  <2> QED BY <1>1, <1>3, <2>1, QuietFacts, Zenon DEF StillInv
<1>10. ASSUME NEW w \in Workers
      PROVE  SupplierInv(w)' /\ BarrierInv(w)'
  <2>1. SupplierInv(w) /\ BarrierInv(w)
    BY Zenon DEF ProtocolInv
  <2>2. Connected(w)' = Connected(w) /\ Passed(w)' = Passed(w)
    BY <1>1, <1>3, QuietFacts, Zenon
  <2>3. SupplierInv(w)'
    BY <1>1, <1>2, <2>1, <2>2, Zenon DEF SupplierInv, Quiet
  <2>4. Passed(w) = {} /\ plan.ups # {}
    BY <1>3, <1>7, Zenon DEF Passed, TypeInv
  <2>5. Cardinality(Passed(w)) = 0
    BY <2>4, FS_EmptySet, Zenon
  <2> QED BY <1>1, <1>2, <2>1, <2>2, <2>3, <2>4, <2>5, Zenon DEF BarrierInv, Quiet
<1> QED BY <1>4, <1>6, <1>7, <1>8, <1>9, <1>10, Zenon DEF ProtocolInv

LEMMA DrainInflightDataInv ==
  ASSUME PlanFacts, ProtocolInv, DrainInflightData
  PROVE  ProtocolInv'
<1>1. /\ step = "pause" /\ todo = {} /\ step' = "drain" /\ todo' = Tasks
      /\ Quiet /\ plan' = plan /\ change' = change /\ fatal' = fatal
  BY Zenon DEF DrainInflightData, Advance, Quiet, netVars, pastVars
<1>2. Tasks' = Tasks
  BY <1>1, Zenon DEF Tasks
<1>3. TypeInv /\ TodoInv /\ TaskInv /\ StillInv /\ OpenInv
  BY Zenon DEF ProtocolInv
<1>4. TypeInv'
  BY <1>1, <1>3, QuietFacts, Zenon DEF TypeInv
<1>5. TodoInv' /\ TaskInv' /\ StillInv' /\ OpenInv'
  <2>1. TodoInv' /\ TaskInv' /\ OpenInv'
    BY <1>1, <1>2, <1>3, Zenon DEF TodoInv, TaskInv, OpenInv, Quiet
  <2>2. \A u \in Upstreams : Still(u)' = Still(u)
    BY <1>1, <1>3, QuietFacts, Zenon
  <2> QED BY <1>1, <1>3, <2>1, <2>2, Zenon DEF StillInv
<1>6. ASSUME NEW u \in Upstreams
      PROVE  SenderInv(u)'
  <2>1. SenderInv(u)
    BY Zenon DEF ProtocolInv
  <2> QED BY <1>1, <1>2, <2>1, Zenon DEF SenderInv, Quiet, Pending
<1>7. ASSUME NEW u \in Upstreams, NEW w \in Workers
      PROVE  LinkInv(u, w)'
  <2>1. LinkInv(u, w)
    BY Zenon DEF ProtocolInv
  <2>2. On(u, w)' = On(u, w)
    BY <1>1, <1>3, QuietFacts, Zenon
  <2> QED BY <1>1, <1>2, <2>1, <2>2, Zenon DEF LinkInv, Quiet
<1>8. ASSUME NEW w \in Workers
      PROVE  SupplierInv(w)' /\ BarrierInv(w)'
  <2>1. SupplierInv(w) /\ BarrierInv(w)
    BY Zenon DEF ProtocolInv
  <2>2. Connected(w)' = Connected(w) /\ Passed(w)' = Passed(w)
    BY <1>1, <1>3, QuietFacts, Zenon
  <2> QED BY <1>1, <1>2, <2>1, <2>2, Zenon DEF SupplierInv, BarrierInv, Quiet
<1> QED BY <1>4, <1>5, <1>6, <1>7, <1>8, Zenon DEF ProtocolInv

LEMMA RescaleTasksInv ==
  ASSUME PlanFacts, ProtocolInv, RescaleTasks
  PROVE  ProtocolInv'
<1>1. /\ step = "migrate" /\ todo = {} /\ step' = "tasks" /\ todo' = change.added \cup change.removed
      /\ Quiet /\ plan' = plan /\ change' = change /\ fatal' = fatal
  BY Zenon DEF RescaleTasks, Advance, Quiet, netVars, pastVars
<1>2. Tasks' = Tasks
  BY <1>1, Zenon DEF Tasks
<1>3. TypeInv /\ TodoInv /\ TaskInv /\ StillInv /\ OpenInv
  BY Zenon DEF ProtocolInv
<1>4. TypeInv'
  BY <1>1, <1>3, QuietFacts, Zenon DEF TypeInv
<1>5. TodoInv' /\ TaskInv' /\ StillInv' /\ OpenInv'
  <2>1. TodoInv' /\ TaskInv' /\ OpenInv'
    BY <1>1, <1>2, <1>3, Zenon DEF TodoInv, TaskInv, OpenInv, Quiet
  <2>2. \A u \in Upstreams : Still(u)' = Still(u)
    BY <1>1, <1>3, QuietFacts, Zenon
  <2> QED BY <1>1, <1>3, <2>1, <2>2, Zenon DEF StillInv
<1>6. ASSUME NEW u \in Upstreams
      PROVE  SenderInv(u)'
  <2>1. SenderInv(u)
    BY Zenon DEF ProtocolInv
  <2> QED BY <1>1, <1>2, <2>1, Zenon DEF SenderInv, Quiet, Pending
<1>7. ASSUME NEW u \in Upstreams, NEW w \in Workers
      PROVE  LinkInv(u, w)'
  <2>1. LinkInv(u, w)
    BY Zenon DEF ProtocolInv
  <2>2. On(u, w)' = On(u, w)
    BY <1>1, <1>3, QuietFacts, Zenon
  <2> QED BY <1>1, <1>2, <2>1, <2>2, Zenon DEF LinkInv, Quiet
<1>8. ASSUME NEW w \in Workers
      PROVE  SupplierInv(w)' /\ BarrierInv(w)'
  <2>1. SupplierInv(w) /\ BarrierInv(w)
    BY Zenon DEF ProtocolInv
  <2>2. Connected(w)' = Connected(w) /\ Passed(w)' = Passed(w)
    BY <1>1, <1>3, QuietFacts, Zenon
  <2> QED BY <1>1, <1>2, <2>1, <2>2, Zenon DEF SupplierInv, BarrierInv, Quiet
<1> QED BY <1>4, <1>5, <1>6, <1>7, <1>8, Zenon DEF ProtocolInv

LEMMA ResumeUpstreamsInv ==
  ASSUME PlanFacts, ProtocolInv, ResumeUpstreams
  PROVE  ProtocolInv'
<1>1. /\ step = "routing" /\ todo = {} /\ step' = "resume" /\ todo' = plan.ups
      /\ Quiet /\ plan' = plan /\ change' = change /\ fatal' = fatal
  BY Zenon DEF ResumeUpstreams, Advance, Quiet, netVars, pastVars
<1>2. Tasks' = Tasks
  BY <1>1, Zenon DEF Tasks
<1>3. TypeInv /\ TodoInv /\ TaskInv /\ StillInv /\ OpenInv
  BY Zenon DEF ProtocolInv
<1>4. TypeInv'
  BY <1>1, <1>3, QuietFacts, Zenon DEF TypeInv
<1>5. TodoInv' /\ TaskInv' /\ StillInv' /\ OpenInv'
  <2>1. TodoInv' /\ TaskInv' /\ OpenInv'
    BY <1>1, <1>2, <1>3, Zenon DEF TodoInv, TaskInv, OpenInv, Quiet
  <2>2. \A u \in Upstreams : Still(u)' = Still(u)
    BY <1>1, <1>3, QuietFacts, Zenon
  <2> QED BY <1>1, <1>3, <2>1, <2>2, Zenon DEF StillInv
<1>6. ASSUME NEW u \in Upstreams
      PROVE  SenderInv(u)'
  <2>1. SenderInv(u)
    BY Zenon DEF ProtocolInv
  <2> QED BY <1>1, <1>2, <2>1, Zenon DEF SenderInv, Quiet, Pending
<1>7. ASSUME NEW u \in Upstreams, NEW w \in Workers
      PROVE  LinkInv(u, w)'
  <2>1. LinkInv(u, w)
    BY Zenon DEF ProtocolInv
  <2>2. On(u, w)' = On(u, w)
    BY <1>1, <1>3, QuietFacts, Zenon
  <2> QED BY <1>1, <1>2, <2>1, <2>2, Zenon DEF LinkInv, Quiet
<1>8. ASSUME NEW w \in Workers
      PROVE  SupplierInv(w)' /\ BarrierInv(w)'
  <2>1. SupplierInv(w) /\ BarrierInv(w)
    BY Zenon DEF ProtocolInv
  <2>2. Connected(w)' = Connected(w) /\ Passed(w)' = Passed(w)
    BY <1>1, <1>3, QuietFacts, Zenon
  <2> QED BY <1>1, <1>2, <2>1, <2>2, Zenon DEF SupplierInv, BarrierInv, Quiet
<1> QED BY <1>4, <1>5, <1>6, <1>7, <1>8, Zenon DEF ProtocolInv

LEMMA RescaleDoneInv ==
  ASSUME PlanFacts, ProtocolInv, RescaleDone
  PROVE  ProtocolInv'
<1>1. /\ step = "resume" /\ todo = {} /\ step' = "idle" /\ todo' = {}
      /\ Quiet /\ plan' = plan /\ change' = change /\ fatal' = fatal
  BY Zenon DEF RescaleDone, Advance, Quiet, netVars, pastVars
<1>2. Tasks' = Tasks
  BY <1>1, Zenon DEF Tasks
<1>3. TypeInv /\ TodoInv /\ TaskInv /\ StillInv /\ OpenInv
  BY Zenon DEF ProtocolInv
<1>4. TypeInv'
  BY <1>1, <1>3, QuietFacts, Zenon DEF TypeInv
<1>5. TodoInv' /\ TaskInv' /\ StillInv' /\ OpenInv'
  <2>1. TodoInv' /\ TaskInv' /\ OpenInv'
    BY <1>1, <1>2, <1>3, Zenon DEF TodoInv, TaskInv, OpenInv, Quiet
  <2>2. \A u \in Upstreams : Still(u)' = Still(u)
    BY <1>1, <1>3, QuietFacts, Zenon
  <2> QED BY <1>1, <1>3, <2>1, <2>2, Zenon DEF StillInv
<1>6. ASSUME NEW u \in Upstreams
      PROVE  SenderInv(u)'
  <2>1. SenderInv(u)
    BY Zenon DEF ProtocolInv
  <2> QED BY <1>1, <1>2, <2>1, Zenon DEF SenderInv, Quiet, Pending
<1>7. ASSUME NEW u \in Upstreams, NEW w \in Workers
      PROVE  LinkInv(u, w)'
  <2>1. LinkInv(u, w)
    BY Zenon DEF ProtocolInv
  <2>2. On(u, w)' = On(u, w)
    BY <1>1, <1>3, QuietFacts, Zenon
  <2> QED BY <1>1, <1>2, <2>1, <2>2, Zenon DEF LinkInv, Quiet
<1>8. ASSUME NEW w \in Workers
      PROVE  SupplierInv(w)' /\ BarrierInv(w)'
  <2>1. SupplierInv(w) /\ BarrierInv(w)
    BY Zenon DEF ProtocolInv
  <2>2. Connected(w)' = Connected(w) /\ Passed(w)' = Passed(w)
    BY <1>1, <1>3, QuietFacts, Zenon
  <2> QED BY <1>1, <1>2, <2>1, <2>2, Zenon DEF SupplierInv, BarrierInv, Quiet
<1> QED BY <1>4, <1>5, <1>6, <1>7, <1>8, Zenon DEF ProtocolInv

LEMMA WaitDataDrainInv ==
  ASSUME PlanFacts, ProtocolInv, NEW x \in Workers, WaitDataDrain(x)
  PROVE  ProtocolInv'
<1>1. /\ step = "drain" /\ step' = "drain" /\ x \in todo /\ todo' = todo \ {x}
      /\ reported[x] > 0 /\ reported' = [reported EXCEPT ![x] = @ - 1]
      /\ UNCHANGED <<sender, conn, chan, sup, assigned, emitted, plan, change, fatal>>
  BY Zenon DEF WaitDataDrain, Acked, netVars, pastVars
<1>2. Tasks' = Tasks
  BY <1>1, Zenon DEF Tasks
<1>3. TypeInv /\ TodoInv /\ TaskInv /\ StillInv /\ OpenInv
  BY Zenon DEF ProtocolInv
<1>4. TypeInv' /\ \A w \in Workers : reported'[w] = IF w = x THEN reported[x] - 1 ELSE reported[w]
  BY <1>1, <1>3 DEF TypeInv
<1>5. ASSUME NEW u \in Upstreams, NEW w \in Workers
      PROVE  On(u, w)' = On(u, w) /\ Still(u)' = Still(u)
  BY <1>1, Zenon DEF On, Still
<1>6. TodoInv' /\ TaskInv' /\ StillInv' /\ OpenInv'
  <2>1. TodoInv' /\ TaskInv' /\ OpenInv'
    BY <1>1, <1>2, <1>3, Zenon DEF TodoInv, TaskInv, OpenInv
  <2> QED BY <1>1, <1>3, <1>5, <2>1, Zenon DEF StillInv
<1>7. ASSUME NEW u \in Upstreams
      PROVE  SenderInv(u)'
  <2>1. SenderInv(u)
    BY Zenon DEF ProtocolInv
  <2> QED BY <1>1, <1>2, <2>1, Zenon DEF SenderInv, Pending
<1>8. ASSUME NEW u \in Upstreams, NEW w \in Workers
      PROVE  LinkInv(u, w)'
  <2>1. LinkInv(u, w)
    BY Zenon DEF ProtocolInv
  <2> QED BY <1>1, <1>2, <1>5, <2>1, Zenon DEF LinkInv
<1>9. ASSUME NEW w \in Workers
      PROVE  SupplierInv(w)' /\ BarrierInv(w)'
  <2>1. SupplierInv(w) /\ BarrierInv(w)
    BY Zenon DEF ProtocolInv
  <2>2. Connected(w)' = Connected(w) /\ Passed(w)' = Passed(w)
    BY <1>1, Zenon DEF Connected, Passed
  <2>3. SupplierInv(w)'
    BY <1>1, <1>2, <2>1, <2>2, Zenon DEF SupplierInv
  <2>4. CASE w = x
    BY <1>1, <1>2, <1>3, <1>4, <2>1, <2>2, <2>3, <2>4, SMTT(20) DEF BarrierInv, TodoInv
  <2>5. CASE w # x
    BY <1>1, <1>2, <1>3, <1>4, <2>1, <2>2, <2>3, <2>5, Zenon DEF BarrierInv
  <2> QED BY <2>4, <2>5, Zenon
<1> QED BY <1>4, <1>6, <1>7, <1>8, <1>9, Zenon DEF ProtocolInv

LEMMA MovesType ==
  ASSUME NEW old \in [Buckets -> Workers], NEW new \in [Buckets -> Workers]
  PROVE  Moves(old, new) \subseteq MoveType
<1>1. ASSUME NEW c \in OwnerChanges(old, new)
      PROVE  c.src \in Workers /\ c.dst \in Workers /\ c.ranges \in SUBSET (Buckets \X Buckets)
  <2>1. PICK m \in {<<old[b], new[b]>> : b \in {c1 \in Buckets : old[c1] # new[c1]}} :
          c = [src |-> m[1], dst |-> m[2],
               ranges |-> ToRanges({b \in Buckets : old[b] = m[1] /\ new[b] = m[2]})]
    BY Zenon DEF OwnerChanges
  <2>2. m[1] \in Workers /\ m[2] \in Workers
    BY <2>1
  <2>3. c.src = m[1] /\ c.dst = m[2]
        /\ c.ranges = ToRanges({b \in Buckets : old[b] = m[1] /\ new[b] = m[2]})
    BY <2>1, Zenon
  <2>4. c.ranges \in SUBSET (Buckets \X Buckets)
    BY <2>3, Zenon DEF ToRanges
  <2> QED BY <2>2, <2>3, <2>4, Zenon
<1>2. ASSUME NEW m \in Moves(old, new)
      PROVE  m \in MoveType
  <2>1. PICK c \in OwnerChanges(old, new) :
          m = [src |-> c.src, dst |-> c.dst, ranges |-> c.ranges, taken |-> FALSE]
    BY Zenon DEF Moves
  <2>2. c.src \in Workers /\ c.dst \in Workers /\ c.ranges \in SUBSET (Buckets \X Buckets)
    BY <1>1, Zenon
  <2> QED BY <2>1, <2>2, Zenon DEF MoveType
<1> QED BY <1>2, Zenon

LEMMA ReconfigureInv ==
  ASSUME PlanFacts, PlanFacts', ProtocolInv, ReconfigureStatefulOp
  PROVE  ProtocolInv'
<1>1. /\ step = "drain" /\ todo = {} /\ step' = "migrate" /\ change' = change
      /\ Quiet /\ plan'.tasks = plan.tasks /\ plan'.free = plan.free
      /\ fatal' \in {"none", "repartition"} /\ todo' = Moves(plan.table, plan'.table)
  <2>1. step = "drain" /\ ~ Refuses(job.policy, change.updated, plan.table)
    BY Zenon DEF ReconfigureStatefulOp, PlanFacts
  <2> QED BY <2>1, Zenon DEF ReconfigureStatefulOp, Quiet, netVars, pastVars, PlanFacts, Require
<1>2. Tasks' = Tasks /\ plan'.ups = plan.ups
  BY <1>1, Zenon DEF Tasks, Quiet
<1>3. TypeInv /\ TodoInv /\ TaskInv /\ StillInv /\ OpenInv
  BY Zenon DEF ProtocolInv
<1>4. TypeInv'
  BY <1>1, <1>3, QuietFacts, Zenon
<1>5. TodoInv' /\ TaskInv' /\ StillInv' /\ OpenInv'
  <2>1. TaskInv' /\ OpenInv'
    BY <1>1, <1>2, <1>3, Zenon DEF TaskInv, OpenInv, Quiet
  <2>3. todo' \subseteq MoveType
    <3>1. plan.table \in [Buckets -> Workers] /\ plan'.table \in [Buckets -> Workers]
      BY Zenon DEF PlanFacts
    <3> QED BY <1>1, <3>1, MovesType, Zenon
  <2>4. TodoInv'
    BY <1>1, <2>3, Zenon DEF TodoInv
  <2>2. \A u \in Upstreams : Still(u)' = Still(u)
    BY <1>1, <1>3, QuietFacts, Zenon
  <2> QED BY <1>1, <1>3, <2>1, <2>2, <2>4, Zenon DEF StillInv
<1>6. ASSUME NEW u \in Upstreams
      PROVE  SenderInv(u)'
  <2>1. SenderInv(u)
    BY Zenon DEF ProtocolInv
  <2> QED BY <1>1, <1>2, <2>1, Zenon DEF SenderInv, Quiet, Pending
<1>7. ASSUME NEW u \in Upstreams, NEW w \in Workers
      PROVE  LinkInv(u, w)'
  <2>1. LinkInv(u, w) /\ Data(<<>>)
    BY EmptyChannel, Zenon DEF ProtocolInv
  <2>2. On(u, w)' = On(u, w)
    BY <1>1, <1>3, QuietFacts, Zenon
  <2>3. chan[<<u, w>>] = <<>>
    BY <1>1, DrainedChannels, Zenon
  <2> QED BY <1>1, <1>2, <2>1, <2>2, <2>3, Zenon DEF LinkInv, Quiet
<1>8. ASSUME NEW w \in Workers
      PROVE  SupplierInv(w)' /\ BarrierInv(w)'
  <2>1. SupplierInv(w) /\ sup[w].drains = 0 /\ reported[w] = 0
    BY <1>1, DrainedChannels, Zenon DEF ProtocolInv
  <2>2. Connected(w)' = Connected(w)
    BY <1>1, <1>3, QuietFacts, Zenon
  <2> QED BY <1>1, <1>2, <2>1, <2>2, Zenon DEF SupplierInv, BarrierInv, Quiet
<1> QED BY <1>4, <1>5, <1>6, <1>7, <1>8, Zenon DEF ProtocolInv

LEMMA NotifyInv ==
  ASSUME PlanFacts, PlanFacts', ProtocolInv, NotifyUpstreamTasks
  PROVE  ProtocolInv'
<1>1. /\ step = "tasks" /\ todo = {} /\ step' = "routing" /\ todo' = plan.ups /\ change' = change
      /\ Quiet /\ plan'.tasks = change.updated /\ plan'.free = plan.free
      /\ plan'.table = plan.table /\ fatal' = fatal
  BY Zenon DEF NotifyUpstreamTasks, Advance, Quiet, netVars, pastVars, PlanFacts
<1>2. /\ Tasks' = (Tasks \cup change.added) \ change.removed /\ plan'.ups = plan.ups
      /\ change.added \cap Tasks = {} /\ change.removed \subseteq Tasks
      /\ Tasks \subseteq Workers /\ Changing
  BY <1>1, Zenon DEF Tasks, Quiet, PlanFacts, Changing
<1>3. TypeInv /\ TodoInv /\ TaskInv /\ StillInv /\ OpenInv
  BY Zenon DEF ProtocolInv
<1>4. TypeInv'
  BY <1>1, <1>3, QuietFacts, Zenon DEF TypeInv
<1>5. TodoInv' /\ TaskInv' /\ StillInv' /\ OpenInv'
  <2>1. TodoInv' /\ TaskInv' /\ OpenInv'
    BY <1>1, <1>2, <1>3, Zenon DEF TodoInv, TaskInv, OpenInv, Quiet
  <2>2. \A u \in Upstreams : Still(u)' = Still(u)
    BY <1>1, <1>3, QuietFacts, Zenon
  <2> QED BY <1>1, <1>3, <2>1, <2>2, Zenon DEF StillInv
<1>6. ASSUME NEW u \in Upstreams
      PROVE  SenderInv(u)'
  <2>1. SenderInv(u)
    BY Zenon DEF ProtocolInv
  <2> QED BY <1>1, <1>2, <2>1, Zenon DEF SenderInv, Quiet, Pending
<1>7. ASSUME NEW u \in Upstreams, NEW w \in Workers
      PROVE  LinkInv(u, w)'
  <2>1. LinkInv(u, w) /\ Still(u)
    BY <1>1, <1>3, Zenon DEF ProtocolInv, StillInv
  <2>2. On(u, w)' = On(u, w)
    BY <1>1, <1>3, QuietFacts, Zenon
  <2> QED BY <1>1, <1>2, <2>1, <2>2, Zenon DEF LinkInv, Still, Quiet
<1>8. ASSUME NEW w \in Workers
      PROVE  SupplierInv(w)' /\ BarrierInv(w)'
  <2>1. SupplierInv(w) /\ BarrierInv(w)
    BY Zenon DEF ProtocolInv
  <2>2. Connected(w)' = Connected(w)
    BY <1>1, <1>3, QuietFacts, Zenon
  <2>3. w \in Tasks => Connected(w) = plan.ups
    BY <1>2, AllConnected, Zenon
  <2> QED BY <1>1, <1>2, <1>3, <2>1, <2>2, <2>3, Zenon DEF SupplierInv, BarrierInv, Quiet, TaskInv
<1> QED BY <1>4, <1>5, <1>6, <1>7, <1>8, Zenon DEF ProtocolInv

-----------------------------------------------------------------------------
(* Start and end of tasks, and the moves.                                  *)

LEMMA UpsFinite ==
  ASSUME TypeInv
  PROVE  IsFiniteSet(plan.ups) /\ Cardinality(plan.ups) \in Nat
  BY ConstantsAssumption, FS_Subset, FS_CardinalityType, Zenon DEF TypeInv

LEMMA StartTaskInv ==
  ASSUME PlanFacts, ProtocolInv, NEW x \in Workers, HandleTaskAssignment(x)
  PROVE  ProtocolInv'
<1>1. TypeInv /\ TodoInv /\ TaskInv /\ StillInv /\ OpenInv
  BY Zenon DEF ProtocolInv
<1>2. x \notin Upstreams /\ plan.ups \subseteq Upstreams /\ Tasks \subseteq Workers
  BY <1>1, ConstantsAssumption, Zenon DEF PlanFacts, TypeInv
<1>3. /\ step = "deploy" \/ (step = "tasks" /\ x \in change.added)
      /\ step' = step /\ x \in todo /\ todo' = todo \ {x}
      /\ assigned' = assigned \cup {x}
      /\ sup' = [sup EXCEPT ![x] = Supplier(Cardinality(plan.ups))]
      /\ WaitACK(x)
      /\ UNCHANGED <<plan, change, sender, conn, chan, reported, emitted>>
  BY <1>2, Zenon DEF HandleTaskAssignment, Acked, pastVars
<1>4. Tasks' = Tasks
  BY <1>3, Zenon DEF Tasks
<1>5. fatal' = fatal
  <2>1. BarrierInv(x)
    BY Zenon DEF ProtocolInv
  <2> QED BY <1>3, <2>1, Zenon DEF BarrierInv, WaitACK, Require
<1>6. /\ sup' \in [Workers -> Suppliers]
      /\ \A w \in Workers : w # x => sup'[w] = sup[w]
      /\ sup'[x].expected = Cardinality(plan.ups) /\ ~ sup'[x].deployed /\ sup'[x].drains = 0
  <2>1. Supplier(Cardinality(plan.ups)) \in Suppliers
    BY <1>1, UpsFinite, Zenon DEF Supplier, Suppliers
  <2> QED BY <1>1, <1>3, <2>1, Zenon DEF TypeInv, Supplier
<1>7. TypeInv'
  BY <1>1, <1>3, <1>5, <1>6, Zenon DEF TypeInv
<1>8. /\ x \notin assigned /\ x \notin Range(plan.free)
      /\ x \in Tasks \/ (step = "tasks" /\ x \in change.added)
      /\ step = "tasks" => x \notin change.removed
  BY <1>1, <1>2, <1>3, Zenon DEF TodoInv, TaskInv, PlanFacts, Changing
<1>9. TodoInv' /\ TaskInv' /\ OpenInv'
  BY <1>1, <1>2, <1>3, <1>4, <1>8, ZenonT(30) DEF TodoInv, TaskInv, OpenInv, PlanFacts, Changing
<1>10. ASSUME NEW u \in Upstreams
       PROVE  SenderInv(u)' /\ Still(u)' = Still(u) /\ \A w \in Workers : On(u, w)' = On(u, w)
  <2>1. SenderInv(u) /\ u # x
    BY <1>2, Zenon DEF ProtocolInv
  <2>2. SenderInv(u)'
    BY <1>3, <1>4, <2>1, Zenon DEF SenderInv, Pending
  <2> QED BY <1>3, <2>2, Zenon DEF Still, On
<1>11. StillInv'
  BY <1>1, <1>3, <1>10, Zenon DEF StillInv
<1>12. ASSUME NEW u \in Upstreams, NEW w \in Workers
       PROVE  LinkInv(u, w)'
  <2>1. LinkInv(u, w)
    BY Zenon DEF ProtocolInv
  <2> QED BY <1>3, <1>4, <1>10, <2>1, Zenon DEF LinkInv
<1>13. ASSUME NEW w \in Workers
       PROVE  SupplierInv(w)' /\ BarrierInv(w)'
  <2>1. SupplierInv(w) /\ BarrierInv(w)
    BY Zenon DEF ProtocolInv
  <2>2. Connected(w)' = Connected(w)
    BY <1>3, Zenon DEF Connected
  <2>3. BarrierInv(w)'
    BY <1>3, <1>4, <1>6, <2>1, Zenon DEF BarrierInv
  <2>4. CASE w = x
    <3>1. Connected(x) = {} /\ plan.ups # {}
      BY <1>1, <1>8, Zenon DEF Connected, OpenInv, TypeInv
    <3> QED BY <1>3, <1>4, <1>6, <1>8, <2>2, <2>3, <2>4, <3>1, Zenon DEF SupplierInv
  <2>5. CASE w # x
    BY <1>3, <1>4, <1>6, <2>1, <2>2, <2>3, <2>5, Zenon DEF SupplierInv
  <2> QED BY <2>4, <2>5, Zenon
<1> QED BY <1>7, <1>9, <1>10, <1>11, <1>12, <1>13, Zenon DEF ProtocolInv

LEMMA HandleTerminateInv ==
  ASSUME PlanFacts, ProtocolInv, NEW x \in Workers, HandleTerminate(x)
  PROVE  ProtocolInv'
<1>1. TypeInv /\ TodoInv /\ TaskInv /\ StillInv /\ OpenInv
  BY Zenon DEF ProtocolInv
<1>2. /\ step = "tasks" /\ step' = step /\ x \in todo /\ todo' = todo \ {x} /\ x \in change.removed
      /\ sup' = [sup EXCEPT ![x].shuttingDown = TRUE] /\ WaitACK(x)
      /\ UNCHANGED <<plan, change, sender, conn, chan, assigned, reported, emitted>>
  BY Zenon DEF HandleTerminate, Acked, pastVars, netVars
<1>3. Tasks' = Tasks /\ x \notin change.added
  BY <1>2, Zenon DEF Tasks, PlanFacts, Changing
<1>4. fatal' = fatal
  <2>1. BarrierInv(x)
    BY Zenon DEF ProtocolInv
  <2> QED BY <1>2, <2>1, Zenon DEF BarrierInv, WaitACK, Require
<1>5. /\ sup' \in [Workers -> Suppliers]
      /\ \A w \in Workers : w # x => sup'[w] = sup[w]
      /\ sup'[x].shuttingDown /\ sup'[x].deployed = sup[x].deployed
      /\ sup'[x].expected = sup[x].expected /\ sup'[x].drains = sup[x].drains
  BY <1>1, <1>2, Zenon DEF TypeInv, Suppliers
<1>6. TypeInv'
  BY <1>1, <1>2, <1>4, <1>5, Zenon DEF TypeInv
<1>7. TodoInv' /\ TaskInv' /\ OpenInv'
  BY <1>1, <1>2, <1>3, Zenon DEF TodoInv, TaskInv, OpenInv
<1>8. ASSUME NEW u \in Upstreams
      PROVE  SenderInv(u)' /\ Still(u)' = Still(u) /\ \A w \in Workers : On(u, w)' = On(u, w)
  <2>1. SenderInv(u)
    BY Zenon DEF ProtocolInv
  <2>2. SenderInv(u)'
    BY <1>2, <1>3, <2>1, Zenon DEF SenderInv, Pending
  <2> QED BY <1>2, <2>2, Zenon DEF Still, On
<1>9. StillInv'
  BY <1>1, <1>2, <1>8, Zenon DEF StillInv
<1>10. ASSUME NEW u \in Upstreams, NEW w \in Workers
       PROVE  LinkInv(u, w)'
  <2>1. LinkInv(u, w)
    BY Zenon DEF ProtocolInv
  <2> QED BY <1>2, <1>3, <1>8, <2>1, Zenon DEF LinkInv
<1>11. ASSUME NEW w \in Workers
       PROVE  SupplierInv(w)' /\ BarrierInv(w)'
  <2>1. SupplierInv(w) /\ BarrierInv(w)
    BY Zenon DEF ProtocolInv
  <2>2. Connected(w)' = Connected(w)
    BY <1>2, Zenon DEF Connected
  <2>3. BarrierInv(w)'
    BY <1>2, <1>3, <1>5, <2>1, Zenon DEF BarrierInv
  <2>4. CASE w = x
    BY <1>2, <1>3, <1>5, <2>1, <2>2, <2>3, <2>4, Zenon DEF SupplierInv
  <2>5. CASE w # x
    BY <1>2, <1>3, <1>5, <2>1, <2>2, <2>3, <2>5, Zenon DEF SupplierInv
  <2> QED BY <2>4, <2>5, Zenon
<1> QED BY <1>6, <1>7, <1>8, <1>9, <1>10, <1>11, Zenon DEF ProtocolInv

\* A move changes what the coordinator waits for, and the data.
LEMMA MoveStepInv ==
  ASSUME PlanFacts, ProtocolInv, step = "migrate", NEW m \in todo,
         MigrateTaskMetadata(m) \/ PullStatePartition(m)
  PROVE  ProtocolInv'
<1>1. TypeInv /\ TodoInv /\ TaskInv /\ StillInv /\ OpenInv
  BY Zenon DEF ProtocolInv
<1>2. m \in MoveType /\ todo \subseteq MoveType
  BY <1>1, Zenon DEF TodoInv
<1>3. /\ step' = step /\ UNCHANGED <<plan, change>> /\ Quiet
      /\ todo' = (todo \ {m}) \cup {[m EXCEPT !.taken = TRUE]} \/ todo' = todo \ {m}
  BY Zenon DEF MigrateTaskMetadata, PullStatePartition, Quiet, netVars, pastVars, Acked
<1>4. [m EXCEPT !.taken = TRUE] \in MoveType
  BY <1>2, Zenon DEF MoveType
<1>5. Tasks' = Tasks /\ todo' \subseteq MoveType
  BY <1>2, <1>3, <1>4, Zenon DEF Tasks
<1>6. fatal' = fatal
  <2>1. CASE MigrateTaskMetadata(m)
    BY <2>1, Zenon DEF MigrateTaskMetadata
  <2>2. CASE PullStatePartition(m)
    <3>1. m.dst \in Workers
      BY <1>2, Zenon DEF MoveType
    <3>2. BarrierInv(m.dst)
      BY <3>1, Zenon DEF ProtocolInv
    <3> QED BY <2>2, <3>2, Zenon DEF BarrierInv, PullStatePartition, WaitACK, Require
  <2> QED BY <2>1, <2>2, Zenon
<1>7. TypeInv'
  BY <1>1, <1>3, <1>6, QuietFacts, Zenon DEF TypeInv
<1>8. TodoInv' /\ TaskInv' /\ OpenInv'
  BY <1>1, <1>3, <1>5, Zenon DEF TodoInv, TaskInv, OpenInv, Quiet
<1>9. ASSUME NEW u \in Upstreams
      PROVE  SenderInv(u)' /\ Still(u)' = Still(u) /\ \A w \in Workers : On(u, w)' = On(u, w)
  <2>1. SenderInv(u)
    BY Zenon DEF ProtocolInv
  <2>2. SenderInv(u)'
    BY <1>3, <1>5, <2>1, Zenon DEF SenderInv, Pending, Quiet
  <2> QED BY <1>1, <1>3, <2>2, QuietFacts, Zenon
<1>10. StillInv'
  BY <1>1, <1>3, <1>9, Zenon DEF StillInv
<1>11. ASSUME NEW u \in Upstreams, NEW w \in Workers
       PROVE  LinkInv(u, w)'
  <2>1. LinkInv(u, w)
    BY Zenon DEF ProtocolInv
  <2> QED BY <1>3, <1>5, <1>9, <2>1, Zenon DEF LinkInv, Quiet
<1>12. ASSUME NEW w \in Workers
       PROVE  SupplierInv(w)' /\ BarrierInv(w)'
  <2>1. SupplierInv(w) /\ BarrierInv(w)
    BY Zenon DEF ProtocolInv
  <2>2. Connected(w)' = Connected(w)
    BY <1>1, <1>3, QuietFacts, Zenon
  <2> QED BY <1>3, <1>5, <2>1, <2>2, Zenon DEF SupplierInv, BarrierInv, Quiet
<1> QED BY <1>7, <1>8, <1>9, <1>10, <1>11, <1>12, Zenon DEF ProtocolInv

-----------------------------------------------------------------------------
(* Suppliers.                                                              *)

LEMMA InitNewUpstreamInv ==
  ASSUME PlanFacts, ProtocolInv, NEW x \in Upstreams, NEW z \in Workers, InitNewUpstream(x, z)
  PROVE  ProtocolInv'
<1>1. TypeInv /\ TodoInv /\ TaskInv /\ StillInv /\ OpenInv
  BY Zenon DEF ProtocolInv
<1>2. /\ conn[<<x, z>>] = "dialing" /\ z \in assigned
      /\ conn' = [conn EXCEPT ![<<x, z>>] = "open"]
      /\ sup' = [sup EXCEPT ![z].deployed = @ \/ Cardinality(Connected(z)) + 1 = sup[z].expected]
      /\ UNCHANGED <<step, todo, plan, change, sender, chan, reported, assigned, emitted, fatal>>
  BY Zenon DEF InitNewUpstream, coordVars, pastVars
<1>3. Tasks' = Tasks
  BY <1>2, Zenon DEF Tasks
<1>4. /\ conn' \in [Links -> {"closed", "dialing", "open"}] /\ conn'[<<x, z>>] = "open"
      /\ \A v \in Upstreams, w \in Workers :
           v # x \/ w # z => conn'[<<v, w>>] = conn[<<v, w>>]
  BY <1>1, <1>2, Zenon DEF TypeInv, Links
<1>5. On(x, z) /\ x \in plan.ups
  <2>1. LinkInv(x, z)
    BY Zenon DEF ProtocolInv
  <2> QED BY <1>2, <2>1, Zenon DEF LinkInv, On
<1>6. ~ Still(x)
  BY <1>2, Zenon DEF Still
<1> DEFINE ready == sup[z].deployed \/ Cardinality(Connected(z)) + 1 = sup[z].expected
<1>7. /\ sup' \in [Workers -> Suppliers]
      /\ sup'[z].deployed = ready /\ sup'[z].shuttingDown = sup[z].shuttingDown
      /\ sup'[z].expected = sup[z].expected /\ sup'[z].drains = sup[z].drains
      /\ \A w \in Workers : w # z => sup'[w] = sup[w]
  <2>1. ready \in BOOLEAN /\ sup' = [sup EXCEPT ![z].deployed = ready]
    BY <1>1, <1>2, Zenon DEF TypeInv, Suppliers
  <2> HIDE DEF ready
  <2> QED BY <1>1, <2>1, ZenonT(30) DEF TypeInv, Suppliers
<1>8. TypeInv'
  BY <1>1, <1>2, <1>4, <1>7, Zenon DEF TypeInv
<1>9. ASSUME NEW u \in Upstreams
      PROVE  SenderInv(u)' /\ \A w \in Workers : On(u, w)' = On(u, w)
  <2>1. SenderInv(u)
    BY Zenon DEF ProtocolInv
  <2> QED BY <1>2, <1>3, <2>1, Zenon DEF SenderInv, Pending, On
<1>10. ASSUME NEW u \in Upstreams, u # x
       PROVE  Still(u)' = Still(u)
  BY <1>4, <1>9, <1>10, Zenon DEF Still
<1>11. StillInv'
  BY <1>1, <1>2, <1>6, <1>10, Zenon DEF StillInv
<1>12. TodoInv' /\ TaskInv' /\ OpenInv'
  BY <1>1, <1>2, <1>3, <1>4, ZenonT(30) DEF TodoInv, TaskInv, OpenInv
<1>13. ASSUME NEW u \in Upstreams, NEW w \in Workers
       PROVE  LinkInv(u, w)'
  <2>1. LinkInv(u, w)
    BY Zenon DEF ProtocolInv
  <2>2. \A v \in plan.ups : conn[<<v, w>>] = "open" => conn'[<<v, w>>] = "open"
    BY <1>1, <1>4, ZenonT(30) DEF TypeInv
  <2>3. CASE u = x /\ w = z
    BY <1>2, <1>3, <1>4, <1>5, <1>9, <2>1, <2>2, <2>3, Zenon DEF LinkInv
  <2>4. CASE u # x \/ w # z
    BY <1>2, <1>3, <1>4, <1>9, <2>1, <2>2, <2>4, Zenon DEF LinkInv
  <2> QED BY <2>3, <2>4, Zenon
<1>14. ASSUME NEW w \in Workers
       PROVE  SupplierInv(w)' /\ BarrierInv(w)'
  <2>1. SupplierInv(w) /\ BarrierInv(w)
    BY Zenon DEF ProtocolInv
  <2>2. Passed(w)' = Passed(w)
    BY <1>2, Zenon DEF Passed
  <2>3. BarrierInv(w)'
    BY <1>2, <1>3, <1>7, <2>1, <2>2, Zenon DEF BarrierInv
  <2>4. CASE w = z
    <3>1. Connected(z)' = Connected(z) \cup {x} /\ x \notin Connected(z)
      BY <1>2, <1>4, Zenon DEF Connected
    <3>2. ~ ready => Connected(z) \cup {x} # plan.ups
      <4>1. SUFFICES ASSUME ~ ready, Connected(z) \cup {x} = plan.ups PROVE FALSE
        BY Zenon
      <4>2. sup[z].expected = Cardinality(plan.ups)
        BY <1>2, <2>1, <2>4, <4>1, Zenon DEF SupplierInv
      <4>3. IsFiniteSet(Connected(z))
        BY ConstantsAssumption, FS_Subset, Zenon DEF Connected
      <4>4. Cardinality(plan.ups) = Cardinality(Connected(z)) + 1
        BY <3>1, <4>1, <4>3, FS_AddElement, Zenon
      <4> QED BY <4>1, <4>2, <4>4, Zenon
    <3>3. ~ ready => ~ sup[z].deployed
      BY Zenon
    <3> HIDE DEF ready
    <3>4. SupplierInv(z)'
      BY <1>2, <1>3, <1>5, <1>7, <2>1, <2>4, <3>1, <3>2, <3>3, Zenon DEF SupplierInv
    <3> QED BY <2>3, <2>4, <3>4, Zenon
  <2>5. CASE w # z
    <3>1. Connected(w)' = Connected(w)
      BY <1>4, <2>5, Zenon DEF Connected
    <3> QED BY <1>2, <1>3, <1>7, <2>1, <2>3, <2>5, <3>1, Zenon DEF SupplierInv
  <2> QED BY <2>4, <2>5, Zenon
<1> QED BY <1>8, <1>9, <1>11, <1>12, <1>13, <1>14, Zenon DEF ProtocolInv

LEMMA ProcessBatchInv ==
  ASSUME PlanFacts, ProtocolInv, NEW x \in Upstreams, NEW z \in Workers, ProcessBatch(x, z)
  PROVE  ProtocolInv'
<1>1. TypeInv /\ TodoInv /\ TaskInv /\ StillInv /\ OpenInv
  BY Zenon DEF ProtocolInv
<1>2. UNCHANGED <<step, todo, plan, change, sender, conn, sup, reported, assigned, emitted, fatal>>
  BY Zenon DEF ProcessBatch, coordVars
<1>3. Takes(x, z) /\ Head(chan[<<x, z>>]).type = "batch"
  BY <1>1, ConsumedTakes, Zenon DEF ProcessBatch
<1>4. Tasks' = Tasks
  BY <1>2, Zenon DEF Tasks
<1>5. TypeInv'
  BY <1>1, <1>2, <1>3, Zenon DEF TypeInv, Takes
<1>6. ASSUME NEW u \in Upstreams
      PROVE  SenderInv(u)' /\ Still(u)' = Still(u) /\ \A w \in Workers : On(u, w)' = On(u, w)
  <2>1. SenderInv(u)
    BY Zenon DEF ProtocolInv
  <2> QED BY <1>2, <1>4, <2>1, Zenon DEF SenderInv, Pending, On, Still
<1>7. TodoInv' /\ TaskInv' /\ StillInv' /\ OpenInv'
  BY <1>1, <1>2, <1>4, <1>6, Zenon DEF TodoInv, TaskInv, StillInv, OpenInv
<1>8. /\ Data(chan[<<x, z>>]) => Data(chan'[<<x, z>>])
      /\ EndsIn(chan[<<x, z>>], "barrier") => EndsIn(chan'[<<x, z>>], "barrier")
      /\ EndsIn(chan[<<x, z>>], "termination") => EndsIn(chan'[<<x, z>>], "termination")
      /\ chan[<<x, z>>] # <<>> /\ chan[<<x, z>>] # <<Termination>>
  <2>1. Head(<<Termination>>).type = "termination"
    BY ControlUnits, SMTT(20)
  <2> QED BY <1>3, <2>1, DataShrinks, EndShrinks DEF Takes
<1>9. ASSUME NEW u \in Upstreams, NEW w \in Workers
      PROVE  LinkInv(u, w)'
  <2>1. LinkInv(u, w)
    BY Zenon DEF ProtocolInv
  <2>2. CASE u = x /\ w = z
    BY <1>2, <1>4, <1>6, <1>8, <2>1, <2>2, Zenon DEF LinkInv
  <2>3. CASE u # x \/ w # z
    BY <1>2, <1>3, <1>4, <1>6, <2>1, <2>3, ZenonT(30) DEF LinkInv, Takes
  <2> QED BY <2>2, <2>3, Zenon
<1>10. ASSUME NEW w \in Workers
       PROVE  SupplierInv(w)' /\ BarrierInv(w)'
  <2>1. SupplierInv(w) /\ BarrierInv(w)
    BY Zenon DEF ProtocolInv
  <2>2. Connected(w)' = Connected(w)
    BY <1>2, Zenon DEF Connected
  <2>3. ASSUME step \in {"pause", "drain"}, w \in Tasks, NEW u \in plan.ups
        PROVE  sender[u].paused /\ chan'[<<u, w>>] = <<>> <=> sender[u].paused /\ chan[<<u, w>>] = <<>>
    <3>1. u \in Upstreams /\ LinkInv(u, w) /\ On(u, w)
      BY <1>1, <2>3, AllConnected, Zenon DEF TypeInv, ProtocolInv, Changing
    <3>2. CASE u = x /\ w = z
      BY <1>8, <3>1, <3>2, EmptyChannel, Zenon DEF LinkInv
    <3>3. CASE u # x \/ w # z
      BY <1>3, <3>1, <3>3, Zenon DEF Takes
    <3> QED BY <3>2, <3>3, Zenon
  <2>4. step \in {"pause", "drain"} /\ w \in Tasks => Passed(w)' = Passed(w)
    BY <1>2, <2>3, Zenon DEF Passed
  <2> QED BY <1>2, <1>4, <2>1, <2>2, <2>4, Zenon DEF SupplierInv, BarrierInv
<1> QED BY <1>5, <1>6, <1>7, <1>9, <1>10, Zenon DEF ProtocolInv

LEMMA HandleDrainBarrierInv ==
  ASSUME PlanFacts, ProtocolInv, NEW x \in Upstreams, NEW z \in Workers, HandleDrainBarrier(x, z)
  PROVE  ProtocolInv'
<1> DEFINE drains == sup[z].drains + 1
           connected == Cardinality(Connected(z))
<1>1. TypeInv /\ TodoInv /\ TaskInv /\ StillInv /\ OpenInv
  BY Zenon DEF ProtocolInv
<1>2. /\ UNCHANGED <<step, todo, plan, change, sender, conn, assigned, emitted>>
      /\ Require(drains = connected \/ drains < connected, "drain barriers")
      /\ sup' = [sup EXCEPT ![z].drains = IF drains = connected THEN 0 ELSE drains]
      /\ reported' = [reported EXCEPT ![z] = IF drains = connected THEN @ + 1 ELSE @]
  BY Zenon DEF HandleDrainBarrier, Aligned, coordVars, pastVars
<1>3. Takes(x, z) /\ Head(chan[<<x, z>>]).type = "barrier"
  BY <1>1, ConsumedTakes, Zenon DEF HandleDrainBarrier
<1>4. Tasks' = Tasks
  BY <1>2, Zenon DEF Tasks
<1>5. On(x, z) /\ sender[x].paused /\ step \in {"pause", "drain"} /\ EndsIn(chan[<<x, z>>], "barrier")
  <2>1. ~ Data(chan[<<x, z>>]) /\ ~ EndsIn(chan[<<x, z>>], "termination") /\ chan[<<x, z>>] # <<>>
    BY <1>3, DataShrinks, EndShrinks, Zenon DEF Takes
  <2>2. LinkInv(x, z)
    BY Zenon DEF ProtocolInv
  <2> QED BY <2>1, <2>2, Zenon DEF LinkInv
<1>6. chan[<<x, z>>] # <<>> /\ chan'[<<x, z>>] = <<>>
  BY <1>3, <1>5, EndShrinks, ZenonT(30) DEF Takes
<1>7. x \in plan.ups /\ z \in Tasks
  <2>1. SenderInv(x)
    BY Zenon DEF ProtocolInv
  <2> QED BY <1>5, <2>1, Zenon DEF SenderInv, On, Pending
<1>8. /\ Passed(z)' = Passed(z) \cup {x} /\ x \notin Passed(z)
      /\ Passed(z) \subseteq plan.ups /\ Passed(z) # plan.ups
      /\ \A w \in Workers : w # z => Passed(w)' = Passed(w)
  <2>1. ASSUME NEW u \in plan.ups, NEW w \in Workers, u # x \/ w # z
        PROVE  chan'[<<u, w>>] = chan[<<u, w>>]
    BY <1>1, <1>3, <2>1, Zenon DEF Takes, TypeInv
  <2>2. Passed(z)' = Passed(z) \cup {x}
    BY <1>2, <1>5, <1>6, <1>7, <2>1, ZenonT(30) DEF Passed
  <2>3. \A w \in Workers : w # z => Passed(w)' = Passed(w)
    BY <1>2, <2>1, Zenon DEF Passed
  <2> QED BY <1>6, <1>7, <2>2, <2>3, Zenon DEF Passed
<1>9. /\ sup[z].drains = Cardinality(Passed(z)) /\ reported[z] = 0
      /\ step = "drain" => z \in todo
  <2>1. BarrierInv(z)
    BY Zenon DEF ProtocolInv
  <2> QED BY <1>5, <1>7, <1>8, <2>1, Zenon DEF BarrierInv
<1>10. connected = Cardinality(plan.ups)
  BY <1>5, <1>7, AllConnected, Zenon DEF Changing
<1>11. /\ drains = Cardinality(Passed(z)') /\ drains \in Nat /\ connected \in Nat
       /\ drains <= connected
       /\ drains = connected <=> Passed(z)' = plan.ups
  <2> DEFINE ps == Passed(z)
             qs == Passed(z)'
             us == plan.ups
  <2>1. IsFiniteSet(us) /\ qs = ps \cup {x} /\ x \notin ps /\ ps \subseteq us /\ x \in us
    BY <1>1, <1>7, <1>8, UpsFinite, Zenon
  <2> HIDE DEF ps, qs, us
  <2>2. IsFiniteSet(ps) /\ IsFiniteSet(qs) /\ qs \subseteq us
    BY <2>1, FS_Subset, Zenon
  <2>3. Cardinality(qs) = Cardinality(ps) + 1
    BY <2>1, <2>2, FS_AddElement, Zenon
  <2>4. /\ Cardinality(qs) <= Cardinality(us)
        /\ Cardinality(us) = Cardinality(qs) => us = qs
        /\ Cardinality(qs) \in Nat /\ Cardinality(us) \in Nat
    BY <2>1, <2>2, FS_Subset, FS_CardinalityType, Zenon
  <2> QED BY <1>9, <1>10, <2>3, <2>4, Zenon DEF ps, qs, us
<1> HIDE DEF drains, connected
<1>12. fatal' = fatal
  <2>1. drains = connected \/ drains < connected
    BY <1>11
  <2>2. Require(drains = connected \/ drains < connected, "drain barriers")
    BY <1>2, Zenon
  <2> QED BY <2>1, <2>2, Zenon DEF Require
<1>13. /\ sup' \in [Workers -> Suppliers] /\ reported' \in [Workers -> Nat]
       /\ sup'[z].drains = IF drains = connected THEN 0 ELSE drains
       /\ sup'[z].deployed = sup[z].deployed /\ sup'[z].shuttingDown = sup[z].shuttingDown
       /\ sup'[z].expected = sup[z].expected
       /\ reported'[z] = IF drains = connected THEN 1 ELSE 0
       /\ \A w \in Workers : w # z => sup'[w] = sup[w] /\ reported'[w] = reported[w]
  <2> DEFINE d == IF drains = connected THEN 0 ELSE drains
  <2>1. d \in Nat /\ sup' = [sup EXCEPT ![z].drains = d]
    BY <1>2, <1>11, Zenon
  <2>2. /\ reported' \in [Workers -> Nat] /\ reported'[z] = IF drains = connected THEN 1 ELSE 0
        /\ \A w \in Workers : w # z => reported'[w] = reported[w]
    <3> DEFINE n == IF drains = connected THEN reported[z] + 1 ELSE reported[z]
    <3>1. reported \in [Workers -> Nat] /\ reported' = [reported EXCEPT ![z] = n]
      BY <1>1, <1>2, Zenon DEF TypeInv
    <3>2. n = (IF drains = connected THEN 1 ELSE 0) /\ n \in Nat
      BY <1>9
    <3> HIDE DEF n
    <3> QED BY <3>1, <3>2, Zenon
  <2> HIDE DEF d
  <2>3. /\ sup' \in [Workers -> Suppliers] /\ sup'[z].drains = d
        /\ sup'[z].deployed = sup[z].deployed /\ sup'[z].shuttingDown = sup[z].shuttingDown
        /\ sup'[z].expected = sup[z].expected
        /\ \A w \in Workers : w # z => sup'[w] = sup[w]
    BY <1>1, <2>1, ZenonT(30) DEF TypeInv, Suppliers
  <2> QED BY <2>2, <2>3, Zenon DEF d
<1>14. TypeInv'
  BY <1>1, <1>2, <1>3, <1>12, <1>13, Zenon DEF TypeInv, Takes
<1>15. ASSUME NEW u \in Upstreams
       PROVE  SenderInv(u)' /\ Still(u)' = Still(u) /\ \A w \in Workers : On(u, w)' = On(u, w)
  <2>1. SenderInv(u)
    BY Zenon DEF ProtocolInv
  <2> QED BY <1>2, <1>4, <2>1, Zenon DEF SenderInv, Pending, On, Still
<1>16. TodoInv' /\ TaskInv' /\ StillInv' /\ OpenInv'
  BY <1>1, <1>2, <1>4, <1>15, ZenonT(30) DEF TodoInv, TaskInv, StillInv, OpenInv
<1>17. ASSUME NEW u \in Upstreams, NEW w \in Workers
       PROVE  LinkInv(u, w)'
  <2>1. LinkInv(u, w)
    BY Zenon DEF ProtocolInv
  <2>2. CASE u = x /\ w = z
    BY <1>2, <1>4, <1>5, <1>6, <1>15, <2>1, <2>2, EmptyChannel, ZenonT(30) DEF LinkInv
  <2>3. CASE u # x \/ w # z
    BY <1>2, <1>3, <1>4, <1>15, <2>1, <2>3, ZenonT(30) DEF LinkInv, Takes
  <2> QED BY <2>2, <2>3, Zenon
<1>18. ASSUME NEW w \in Workers
       PROVE  SupplierInv(w)' /\ BarrierInv(w)'
  <2>1. SupplierInv(w) /\ BarrierInv(w)
    BY Zenon DEF ProtocolInv
  <2>2. Connected(w)' = Connected(w)
    BY <1>2, Zenon DEF Connected
  <2>3. CASE w = z
    <3>1. SupplierInv(z)'
      BY <1>2, <1>4, <1>13, <2>1, <2>2, <2>3, ZenonT(30) DEF SupplierInv
    <3>2. BarrierInv(z)'
      BY <1>2, <1>4, <1>5, <1>7, <1>9, <1>11, <1>13, ZenonT(30) DEF BarrierInv
    <3> QED BY <2>3, <3>1, <3>2, Zenon
  <2>4. CASE w # z
    BY <1>2, <1>4, <1>8, <1>13, <2>1, <2>2, <2>4, ZenonT(30) DEF SupplierInv, BarrierInv
  <2> QED BY <2>3, <2>4, Zenon
<1> QED BY <1>14, <1>15, <1>16, <1>17, <1>18, Zenon DEF ProtocolInv

LEMMA RemoveUpstreamInv ==
  ASSUME PlanFacts, ProtocolInv, NEW x \in Upstreams, NEW z \in Workers, RemoveUpstream(x, z)
  PROVE  ProtocolInv'
<1>1. TypeInv /\ TodoInv /\ TaskInv /\ StillInv /\ OpenInv
  BY Zenon DEF ProtocolInv
<1>2. /\ UNCHANGED <<step, todo, plan, change, sender, sup, reported, assigned, emitted>>
      /\ Require(/\ sup[z].deployed
                 /\ Cardinality(Connected(z)) > 1 \/ sup[z].shuttingDown, "remove upstream")
      /\ conn' = [conn EXCEPT ![<<x, z>>] = "closed"]
  BY Zenon DEF RemoveUpstream, coordVars, pastVars
<1>3. Takes(x, z) /\ Head(chan[<<x, z>>]).type = "termination" /\ conn[<<x, z>>] = "open"
  BY <1>1, ConsumedTakes, Zenon DEF RemoveUpstream
<1>4. Tasks' = Tasks
  BY <1>2, Zenon DEF Tasks
<1>5. /\ ~ On(x, z) /\ EndsIn(chan[<<x, z>>], "termination")
      /\ x \notin plan.ups \/ z \notin Tasks
      /\ z \in Tasks => \A v \in plan.ups : conn[<<v, z>>] = "open"
  <2>1. ~ Data(chan[<<x, z>>]) /\ ~ EndsIn(chan[<<x, z>>], "barrier") /\ chan[<<x, z>>] # <<>>
    BY <1>3, DataShrinks, EndShrinks, Zenon DEF Takes
  <2>2. LinkInv(x, z)
    BY Zenon DEF ProtocolInv
  <2> QED BY <2>1, <2>2, Zenon DEF LinkInv
<1>6. chan'[<<x, z>>] = <<>>
  BY <1>3, <1>5, EndShrinks, ZenonT(30) DEF Takes
<1>7. ~ Still(x) /\ step \notin {"pause", "drain", "migrate", "tasks"}
  BY <1>1, <1>3, <1>5, Zenon DEF Still, StillInv
<1>8. sup[z].deployed /\ (z \notin Tasks => sup[z].shuttingDown) /\ z \in assigned
  <2>1. SupplierInv(z) /\ z \in assigned
    BY <1>1, <1>3, Zenon DEF ProtocolInv, OpenInv
  <2>2. x \in Connected(z)
    BY <1>3, Zenon DEF Connected
  <2> QED BY <1>5, <1>7, <2>1, <2>2, Zenon DEF SupplierInv
<1>9. fatal' = fatal
  <2>1. z \in Tasks => Cardinality(Connected(z)) > 1
    <3>1. SUFFICES ASSUME z \in Tasks PROVE Cardinality(Connected(z)) > 1
      BY Zenon
    <3>2. PICK v \in plan.ups : TRUE
      BY <1>1, Zenon DEF TypeInv
    <3>3. {x, v} \subseteq Connected(z) /\ x # v
      BY <1>1, <1>3, <1>5, <3>1, Zenon DEF Connected, TypeInv
    <3>4. IsFiniteSet(Connected(z))
      BY ConstantsAssumption, FS_Subset, Zenon DEF Connected
    <3>5. Cardinality({x, v}) = 2
      <4>1. IsFiniteSet({x}) /\ Cardinality({x}) = 1
        BY FS_Singleton, Zenon
      <4>2. Cardinality({x} \cup {v}) = Cardinality({x}) + 1
        BY <3>3, <4>1, FS_AddElement, Zenon
      <4>3. {x} \cup {v} = {x, v}
        BY Zenon
      <4> QED BY <4>1, <4>2, <4>3
    <3>6. Cardinality({x, v}) <= Cardinality(Connected(z)) /\ Cardinality(Connected(z)) \in Nat
      BY <3>3, <3>4, FS_Subset, FS_CardinalityType, Zenon
    <3> QED BY <3>5, <3>6
  <2> QED BY <1>2, <1>8, <2>1, Zenon DEF Require
<1>10. /\ conn' \in [Links -> {"closed", "dialing", "open"}] /\ conn'[<<x, z>>] = "closed"
       /\ \A v \in Upstreams, w \in Workers :
            v # x \/ w # z => conn'[<<v, w>>] = conn[<<v, w>>]
  BY <1>1, <1>2, ZenonT(30) DEF TypeInv, Links
<1>11. TypeInv'
  BY <1>1, <1>2, <1>3, <1>9, <1>10, ZenonT(30) DEF TypeInv, Takes
<1>12. ASSUME NEW u \in Upstreams
       PROVE  SenderInv(u)' /\ \A w \in Workers : On(u, w)' = On(u, w)
  <2>1. SenderInv(u)
    BY Zenon DEF ProtocolInv
  <2> QED BY <1>2, <1>4, <2>1, ZenonT(30) DEF SenderInv, Pending, On
<1>13. ASSUME NEW u \in Upstreams, u # x
       PROVE  Still(u)' = Still(u)
  BY <1>10, <1>12, <1>13, Zenon DEF Still
<1>14. StillInv'
  BY <1>1, <1>2, <1>7, <1>13, ZenonT(30) DEF StillInv
<1>15. TodoInv' /\ TaskInv' /\ OpenInv'
  BY <1>1, <1>2, <1>4, <1>10, ZenonT(30) DEF TodoInv, TaskInv, OpenInv
<1>16. ASSUME NEW u \in Upstreams, NEW w \in Workers
       PROVE  LinkInv(u, w)'
  <2>1. LinkInv(u, w)
    BY Zenon DEF ProtocolInv
  <2>2. CASE u = x /\ w = z
    BY <1>2, <1>5, <1>6, <1>10, <1>12, <2>1, <2>2, ZenonT(30) DEF LinkInv
  <2>3. CASE u # x \/ w # z
    <3>1. w \in Tasks => \A v \in plan.ups : conn[<<v, w>>] = "open" => conn'[<<v, w>>] = "open"
      BY <1>1, <1>5, <1>10, Zenon DEF TypeInv
    <3> QED BY <1>2, <1>3, <1>4, <1>10, <1>12, <2>1, <2>3, <3>1, ZenonT(30) DEF LinkInv, Takes
  <2> QED BY <2>2, <2>3, Zenon
<1>17. ASSUME NEW w \in Workers
       PROVE  SupplierInv(w)' /\ BarrierInv(w)'
  <2>1. SupplierInv(w) /\ BarrierInv(w)
    BY Zenon DEF ProtocolInv
  <2>2. BarrierInv(w)'
    BY <1>2, <1>4, <1>7, <2>1, Zenon DEF BarrierInv
  <2>3. w # z => Connected(w)' = Connected(w)
    BY <1>10, Zenon DEF Connected
  <2> QED BY <1>2, <1>4, <1>8, <2>1, <2>2, <2>3, ZenonT(30) DEF SupplierInv
<1> QED BY <1>11, <1>12, <1>14, <1>15, <1>16, <1>17, Zenon DEF ProtocolInv

-----------------------------------------------------------------------------
(* Every step keeps the invariant.                                         *)

LEMMA ProtocolSame ==
  ASSUME ProtocolInv, UNCHANGED vars
  PROVE  ProtocolInv'
<1>1. UNCHANGED <<step, todo, plan, change, sender, conn, chan, assigned, sup, reported, emitted, fatal>>
  BY Zenon DEF vars, coordVars, netVars, pastVars
<1>2. UNCHANGED <<TypeInv, TodoInv, TaskInv, StillInv, OpenInv>>
  BY <1>1, Zenon DEF TypeInv, TodoInv, TaskInv, StillInv, OpenInv, Tasks, Still, On
<1>3. ASSUME NEW u \in Upstreams
      PROVE  SenderInv(u)'
  <2>1. SenderInv(u)
    BY Zenon DEF ProtocolInv
  <2> QED BY <1>1, <2>1, Zenon DEF SenderInv, Pending, Tasks
<1>4. ASSUME NEW u \in Upstreams, NEW w \in Workers
      PROVE  LinkInv(u, w)'
  <2>1. LinkInv(u, w)
    BY Zenon DEF ProtocolInv
  <2> QED BY <1>1, <2>1, Zenon DEF LinkInv, On, Tasks
<1>5. ASSUME NEW w \in Workers
      PROVE  SupplierInv(w)' /\ BarrierInv(w)'
  <2>1. SupplierInv(w) /\ BarrierInv(w)
    BY Zenon DEF ProtocolInv
  <2> QED BY <1>1, <2>1, Zenon DEF SupplierInv, BarrierInv, Passed, Connected, Tasks
<1> QED BY <1>2, <1>3, <1>4, <1>5, Zenon DEF ProtocolInv

LEMMA ProtocolNext ==
  ASSUME Spaced, PlanFacts, PlanFacts', PlanStep, ProtocolInv, [Next]_vars
  PROVE  ProtocolInv'
<1>1. CASE UNCHANGED vars
  BY <1>1, ProtocolSame, Zenon
<1>2. CASE CoordinatorStep
  <2>1. ASSUME NEW n \in 1 .. Len(Pool), Rescale(n)
        PROVE  ProtocolInv'
    BY <2>1, RescaleInv, Zenon
  <2>2. ASSUME NEW w \in Workers, WaitDataDrain(w)
        PROVE  ProtocolInv'
    BY <2>2, WaitDataDrainInv, Zenon
  <2> QED BY <1>2, <2>1, <2>2, StartJobDoneInv, DrainInflightDataInv, ReconfigureInv,
             RescaleTasksInv, NotifyInv, ResumeUpstreamsInv, RescaleDoneInv, Zenon DEF CoordinatorStep
<1>3. CASE ControlStep
  <2>1. ASSUME NEW x \in Upstreams \cup Workers, HandleTaskAssignment(x)
        PROVE  ProtocolInv'
    BY <2>1, StartCollectorInv, StartTaskInv, Zenon
  <2>2. ASSUME NEW w \in Workers, HandleTerminate(w)
        PROVE  ProtocolInv'
    BY <2>2, HandleTerminateInv, Zenon
  <2>3. ASSUME step = "migrate", NEW m \in todo, MigrateTaskMetadata(m) \/ PullStatePartition(m)
        PROVE  ProtocolInv'
    BY <2>3, MoveStepInv, Zenon
  <2> QED BY <1>3, <2>1, <2>2, <2>3, Zenon DEF ControlStep
<1>4. ASSUME NEW u \in Upstreams, UpstreamStep(u)
      PROVE  ProtocolInv'
  <2>1. ASSUME NEW k \in Keys, NEW kind \in Kinds, Emit(u, k, kind)
        PROVE  ProtocolInv'
    BY <2>1, EmitInv, Zenon
  <2> QED BY <1>4, <2>1, FlushInv, PauseEmitInv, UpdateRoutingInv, ResumeEmitInv,
             RescaleUpstreamInv, Zenon DEF UpstreamStep
<1>5. ASSUME NEW u \in Upstreams, NEW w \in Workers, ChannelStep(u, w)
      PROVE  ProtocolInv'
  BY <1>5, InitNewUpstreamInv, ProcessBatchInv, HandleDrainBarrierInv, RemoveUpstreamInv, Zenon
     DEF ChannelStep
<1> QED BY <1>1, <1>2, <1>3, <1>4, <1>5, Zenon DEF Next

\* What is still on its way when a task has to move its state.
LEMMA NothingInFlight ==
  ASSUME PlanFacts, ProtocolInv
  PROVE  Drained
<1>1. SUFFICES ASSUME step \in {"migrate", "tasks", "routing"}
               PROVE  /\ InFlight = {}
                      /\ \A w \in Workers : reported[w] = 0 /\ sup[w].drains = 0
                      /\ \A l \in Links : \A i \in DOMAIN chan[l] : chan[l][i].type # "barrier"
  BY Zenon DEF Drained
<1>2. TypeInv /\ StillInv
  BY Zenon DEF ProtocolInv
<1>3. ASSUME NEW w \in Workers
      PROVE  reported[w] = 0 /\ sup[w].drains = 0
  <2>1. BarrierInv(w)
    BY Zenon DEF ProtocolInv
  <2> QED BY <1>1, <2>1, Zenon DEF BarrierInv
<1>4. ASSUME NEW u \in Upstreams, NEW w \in Workers
      PROVE  /\ sender[u].batches[w] = <<>>
             /\ chan[<<u, w>>] = <<>> \/ chan[<<u, w>>] = <<Termination>>
  <2>1. LinkInv(u, w) /\ SenderInv(u)
    BY Zenon DEF ProtocolInv
  <2>2. u \in plan.ups => sender[u].paused
    BY <1>1, <2>1, Zenon DEF SenderInv
  <2>3. step # "routing" => Still(u)
    BY <1>1, <1>2, Zenon DEF StillInv
  <2> QED BY <1>1, <2>1, <2>2, <2>3, Zenon DEF LinkInv, On, Still
<1>5. ASSUME NEW l \in Links
      PROVE  /\ UNION {Range(chan[l][i].recs) : i \in DOMAIN chan[l]} = {}
             /\ \A i \in DOMAIN chan[l] : chan[l][i].type # "barrier"
  <2>1. PICK u \in Upstreams, w \in Workers : l = <<u, w>>
    BY DEF Links
  <2>2. CASE chan[l] = <<>>
    BY <2>2
  <2>3. CASE chan[l] # <<>>
    <3>1. chan[l] = <<Termination>>
      BY <1>4, <2>1, <2>3, Zenon
    <3>2. \A i \in DOMAIN chan[l] : i = 1 /\ chan[l][i] = Termination
      BY <3>1
    <3>3. Termination.type = "termination" /\ Range(Termination.recs) = {}
      BY DEF Termination, Range
    <3> QED BY <3>2, <3>3, Zenon
  <2> QED BY <2>2, <2>3, Zenon
<1>6. InFlight = {}
  <2>1. UNION {Range(sender[u].batches[w]) : u \in Upstreams, w \in Workers} = {}
    <3>1. \A u \in Upstreams, w \in Workers : sender[u].batches[w] = <<>>
      BY <1>4, Zenon
    <3>2. ASSUME NEW r, r \in UNION {Range(sender[u].batches[w]) : u \in Upstreams, w \in Workers}
          PROVE  FALSE
      <4>1. PICK u \in Upstreams, w \in Workers : r \in Range(sender[u].batches[w])
        BY <3>2
      <4>2. sender[u].batches[w] = <<>>
        BY <3>1, Zenon
      <4> QED BY <4>1, <4>2 DEF Range
    <3> QED BY <3>2
  <2>2. UNION {UNION {Range(chan[l][i].recs) : i \in DOMAIN chan[l]} : l \in Links} = {}
    BY <1>5, Zenon
  <2> QED BY <2>1, <2>2 DEF InFlight
<1> QED BY <1>3, <1>5, <1>6, Zenon

=============================================================================
