--------------------------- MODULE StopRestartInv ---------------------------
(***************************************************************************)
(* The inductive invariant of the protocol of a stop-and-restart rescale.  *)
(*                                                                         *)
(* It follows the coordinator: what the collectors send and to whom        *)
(* (SenderInv), in what state a connection and the units on it are         *)
(* (LinkInv), which tasks run (TaskInv), and how many barriers a task has  *)
(* counted (BarrierInv).                                                   *)
(***************************************************************************)
EXTENDS StopRestart

-----------------------------------------------------------------------------
\* There is a change that is not yet in the plan.
Changing == step \in {"pause", "drain", "migrate", "tasks"}

(***************************************************************************)
(* What the proofs about the protocol and the data use of the plan, in a   *)
(* state and in a step; PlanProofs proves it.                              *)
(***************************************************************************)
PlanFacts ==
  /\ step \in Steps /\ job \in Jobs
  /\ plan = [tasks |-> plan.tasks, free |-> plan.free, ups |-> plan.ups, table |-> plan.table]
  /\ Tasks \subseteq Workers /\ Tasks # {} /\ Tasks \cap Range(plan.free) = {}
  /\ plan.table \in [Buckets -> Range(Owners)] /\ Range(Owners) \subseteq Workers
  /\ Deserialize(Serialize(plan.table)) = plan.table
  /\ Changing => /\ change.added \cap Tasks = {} /\ change.removed \subseteq Tasks
                 /\ change.added \subseteq Workers
                 /\ Range(change.updated) = (Tasks \cup change.added) \ change.removed
                 /\ Range(change.updated) \cap Range(plan.free) = {}
  /\ step = "drain" => ~ Refuses(job.policy, change.updated, plan.table)

PlanStep ==
  step = "idle" /\ step' = "pause" =>
    change'.added \subseteq Range(plan.free) /\ Range(plan'.free) \subseteq Range(plan.free)

-----------------------------------------------------------------------------
\* A channel on which there are only batches, and one that ends with another unit.
Data(s) == \A i \in 1 .. Len(s) : s[i].type = "batch"

EndsIn(s, t) ==
  /\ Len(s) > 0 /\ s[Len(s)].type = t
  /\ \A i \in 1 .. Len(s) - 1 : s[i].type = "batch"

\* The collector of u sends to w.
On(u, w) == u \in plan.ups /\ w \in sender[u].downs

\* The collector of u has not handled the message of this step.
Pending(u, s) == step = s /\ u \in todo

Units == {x \in [type : {"batch", "barrier", "termination"}, recs : Seq(Records)] :
            x.type # "batch" => x.recs = <<>>}
Senders == [downs : SUBSET Workers, table : [Buckets -> Workers \cup {Moving}],
            paused : BOOLEAN, batches : [Workers -> Seq(Records)]]
Suppliers == [expected : Nat, deployed : BOOLEAN, drains : Nat, shuttingDown : BOOLEAN]

MoveType == [src : Workers, dst : Workers, ranges : SUBSET (Buckets \X Buckets), taken : BOOLEAN]

TypeInv ==
  /\ sender \in [Upstreams -> Senders]
  /\ conn \in [Links -> {"closed", "dialing", "open"}]
  /\ chan \in [Links -> Seq(Units)]
  /\ sup \in [Workers -> Suppliers]
  /\ reported \in [Workers -> Nat]
  /\ plan.ups \subseteq Upstreams /\ plan.ups # {}
  /\ emitted \in 0 .. MaxRecords
  /\ fatal \in {"none", "repartition"}

\* What a step of the coordinator waits for.
TodoInv ==
  /\ step = "deploy" => todo \subseteq plan.ups \cup Tasks
  /\ step = "idle" => todo = {}
  /\ step \in {"pause", "routing", "resume"} => todo \subseteq plan.ups
  /\ step = "drain" => todo \subseteq Tasks
  /\ step = "migrate" => todo \subseteq MoveType
  /\ step = "tasks" => todo \subseteq change.added \cup change.removed
  /\ step = "routing" => /\ change.added \subseteq Tasks /\ change.removed \subseteq Workers
                         /\ change.removed \cap Tasks = {}

SenderInv(u) ==
  /\ u \notin plan.ups => sender[u].downs = {} \/ sender[u].paused
  /\ u \in plan.ups =>
       /\ Pending(u, "deploy") => sender[u].downs = {}
       /\ Pending(u, "routing") => sender[u].downs = (Tasks \cup change.removed) \ change.added
       /\ ~ Pending(u, "deploy") /\ ~ Pending(u, "routing") =>
            /\ sender[u].downs = Tasks
            /\ step \notin {"migrate", "tasks"} => sender[u].table = plan.table
       /\ sender[u].paused <=> \/ step \in {"drain", "migrate", "tasks", "routing"}
                               \/ step = "pause" /\ u \notin todo
                               \/ step = "resume" /\ u \in todo

\* Connections stand still.
Still(u) == \A w \in Workers : conn[<<u, w>>] = IF On(u, w) THEN "open" ELSE "closed"

LinkInv(u, w) ==
  /\ On(u, w) =>
       /\ conn[<<u, w>>] # "closed"
       /\ \/ Data(chan[<<u, w>>]) /\ (sender[u].paused => chan[<<u, w>>] = <<>>)
          \/ /\ EndsIn(chan[<<u, w>>], "barrier") /\ sender[u].paused
             /\ step \in {"pause", "drain"}
  /\ ~ On(u, w) =>
       \/ conn[<<u, w>>] = "closed" /\ chan[<<u, w>>] = <<>>
       \/ /\ conn[<<u, w>>] = "open" /\ EndsIn(chan[<<u, w>>], "termination")
          /\ u \notin plan.ups \/ w \notin Tasks
          /\ w \in Tasks => \A v \in plan.ups : conn[<<v, w>>] = "open"
          /\ step # "deploy"
          /\ step = "routing" => chan[<<u, w>>] = <<Termination>>
  /\ sender[u].batches[w] # <<>> => On(u, w) /\ ~ sender[u].paused

StillInv ==
  /\ step \in {"pause", "drain", "migrate", "tasks"} => \A u \in Upstreams : Still(u)
  /\ step = "routing" => \A u \in Upstreams : u \in todo \/ u \notin plan.ups => Still(u)

TaskInv ==
  /\ assigned \subseteq Workers /\ assigned \cap Range(plan.free) = {}
  /\ step = "deploy" => assigned = Tasks \ todo
  /\ step # "deploy" => Tasks \subseteq assigned
  /\ step \in {"pause", "drain", "migrate"} => change.added \cap assigned = {}
  /\ step = "tasks" => change.added \cap assigned = change.added \ todo

SupplierInv(w) ==
  w \in assigned =>
    /\ w \in Tasks \/ (step = "tasks" /\ w \in change.added)
         \/ (sup[w].deployed /\ sup[w].shuttingDown)
    /\ step = "tasks" /\ w \in change.removed \ todo => sup[w].shuttingDown
    /\ ~ sup[w].deployed => /\ sup[w].expected = Cardinality(plan.ups)
                            /\ Connected(w) \subseteq plan.ups /\ Connected(w) # plan.ups

OpenInv == \A u \in Upstreams, w \in Workers : conn[<<u, w>>] = "open" => w \in assigned

\* The upstream tasks whose barrier w has counted.
Passed(w) == {u \in plan.ups : sender[u].paused /\ chan[<<u, w>>] = <<>>}

BarrierInv(w) ==
  IF step \in {"pause", "drain"} /\ w \in Tasks
    THEN IF Passed(w) = plan.ups
           THEN /\ sup[w].drains = 0
                /\ reported[w] = IF step = "drain" /\ w \notin todo THEN 0 ELSE 1
           ELSE /\ sup[w].drains = Cardinality(Passed(w)) /\ reported[w] = 0
                /\ step = "drain" => w \in todo
    ELSE sup[w].drains = 0 /\ reported[w] = 0

ProtocolInv ==
  /\ TypeInv /\ TodoInv /\ TaskInv /\ StillInv /\ OpenInv
  /\ \A u \in Upstreams : SenderInv(u)
  /\ \A u \in Upstreams, w \in Workers : LinkInv(u, w)
  /\ \A w \in Workers : SupplierInv(w) /\ BarrierInv(w)

=============================================================================
