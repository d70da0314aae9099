------------------------------ MODULE JobStart ------------------------------
(***************************************************************************)
(* From the registration of the workers to a running job: a worker joins   *)
(* the pool, a client submits the job with RunJob, the coordinator places  *)
(* its tasks, makes the partition tables and deploys every task, and the   *)
(* tasks connect to each other while others are still being set up.        *)
(*                                                                         *)
(* A worker is its id, its position in the pool.  The dataflow is built by *)
(* the same program everywhere (Dataflow, Queries), so it is part of the   *)
(* job.                                                                    *)
(***************************************************************************)
EXTENDS KeyPartition, Queries

CONSTANT Jobs   \* what a client may want to run, on which machines, and if it waits for them

VARIABLES job,        \* the dataflow, the configuration and the machines
          pool,       \* WorkerManager.Workers: a registered machine for each id
          available,  \* the workers with IsAvailable
          listening,  \* the machines whose servers accept connections
          inbox,      \* the control stream to each worker
          joined,     \* the workers that read their registration ACK
          rpc,        \* where RunJob is
          counted,    \* the number of workers it saw when it began
          plan,       \* TaskPlacementPlan, and the tables made from it
          tables,
          todo,       \* the tasks whose DeployTask routine has not sent yet
          task,       \* AssignedTask of each worker, once it is set up
          arrived,    \* connections accepted, waiting in RequestHandler
          conns,      \* the upstreams in the supplier of each worker
          acks,       \* the workers whose task is ready to run
          fatal       \* a process ended in log.Fatal or a nil dereference

poolVars == <<pool, listening, joined>>
planVars == <<available, plan, tables>>
taskVars == <<task, arrived, conns, acks>>
vars == <<job, poolVars, planVars, taskVars, inbox, rpc, counted, todo, fatal>>

Machines == Range(job.early) \cup job.late
Ids == 1 .. Cardinality(Machines)
Ops == job.df.operators
Op(o) == job.df.objects[o]
NoTask == [op |-> "none", ready |-> FALSE]

ASSUME JobsAssumption ==
  \A j \in Jobs :
    /\ WellFormed(j.df) /\ j.protocol \in {"lazy", "stop-and-restart"}
    /\ j.policy \in Policies /\ Range(j.order) = j.df.operators
    /\ Range(j.early) \cap j.late = {} /\ j.patient \in BOOLEAN
    /\ \A w \in DOMAIN j.files : DOMAIN j.files[w] \in {{}, Buckets}

\* The workers of job.early registered before the client shows up.
Init ==
  /\ job \in Jobs
  /\ pool = job.early /\ available = DOMAIN pool /\ joined = DOMAIN pool
  /\ listening = Range(job.early)
  /\ inbox = [w \in Ids |-> <<>>]
  /\ rpc = "none" /\ counted = 0 /\ plan = <<>> /\ tables = <<>> /\ todo = {}
  /\ task = [w \in Ids |-> NoTask] /\ arrived = {} /\ conns = [w \in Ids |-> {}] /\ acks = {}
  /\ fatal = FALSE

-----------------------------------------------------------------------------
(***************************************************************************)
(* A worker starts its servers and registers, concurrently.  The           *)
(* coordinator puts it into the pool before it sends the ACK.              *)
(***************************************************************************)
Listen(m) ==
  /\ ~fatal /\ m \in Machines \ listening
  /\ listening' = listening \cup {m}
  /\ UNCHANGED <<job, counted, pool, joined, planVars, taskVars, inbox, rpc, todo, fatal>>

AddWorker(m) ==
  /\ ~fatal /\ m \in Machines \ Range(pool)
  /\ pool' = Append(pool, m)
  /\ available' = available \cup {Len(pool')}
  /\ UNCHANGED <<job, counted, listening, joined, plan, tables, taskVars, inbox, rpc, todo, fatal>>

Unacknowledged(w) == w \in DOMAIN pool \ joined /\ [type |-> "registered"] \notin Range(inbox[w])

AckRegistration(w) ==
  /\ ~fatal /\ Unacknowledged(w)
  /\ inbox' = [inbox EXCEPT ![w] = Append(@, [type |-> "registered"])]
  /\ UNCHANGED <<job, counted, poolVars, planVars, taskVars, rpc, todo, fatal>>

\* The first message on the stream has to be the ACK.
WaitRegistrationAck(w) ==
  /\ ~fatal /\ w \notin joined /\ inbox[w] # <<>>
  /\ inbox' = [inbox EXCEPT ![w] = Tail(@)]
  /\ LET isAck == Head(inbox[w]).type = "registered" IN
     /\ joined' = IF isAck THEN joined \cup {w} ELSE joined
     /\ fatal' = (fatal \/ ~isAck)
  /\ UNCHANGED <<job, counted, pool, listening, planVars, taskVars, rpc, todo>>

-----------------------------------------------------------------------------
(* RunJob on the coordinator                                               *)

\* A line of the custom placement file is an operator and an address: how many
\* workers of each address every operator is to have.
loadCustomTaskPlacementPlan(lines) ==
  [o \in {l[1] : l \in Range(lines)} |->
     [ip \in {l[2] : l \in {k \in Range(lines) : k[1] = o}} |->
        Cardinality({i \in DOMAIN lines : lines[i] = <<o, ip>>})]]

Custom == job.placement # <<>>
AtAddress(ip) == {w \in DOMAIN pool : pool[w].ip = ip}
Asked(ip) == Cardinality({i \in DOMAIN job.placement : job.placement[i][2] = ip})

\* What a careful client waits for: RunJob itself counts the workers only.
Ready ==
  /\ joined = DOMAIN pool /\ Range(pool) \subseteq listening
  /\ \A l \in Range(job.placement) : Cardinality(AtAddress(l[2])) >= Asked(l[2])

RunJob ==
  /\ ~fatal /\ rpc \in {"none", "rejected"}
  /\ job.patient => Ready
  /\ counted' = Len(pool)
  /\ rpc' = IF GetTotalNumTasks(job.df) > counted' THEN "rejected" ELSE "placing"
  /\ UNCHANGED <<job, poolVars, planVars, taskVars, inbox, todo, fatal>>

Allocate(o, selected, failed) ==
  /\ ~fatal
  /\ plan' = (o :> selected) @@ plan
  /\ available' = available \ Range(selected)
  /\ fatal' = (fatal \/ failed)
  /\ UNCHANGED <<job, counted, poolVars, tables, taskVars, inbox, rpc, todo>>

\* Equal ports come in any order: the map has none, and the sort is not stable.
ByPort(ws) ==
  {s \in SetToSeqs(ws) : \A i \in 1 .. Len(s) - 1 : pool[s[i]].port <= pool[s[i + 1]].port}

\* The first of the available workers by port.
AllocateRandomWorkers(o) ==
  LET n == Op(o).parallelism
  IN /\ rpc = "placing" /\ ~ Custom /\ o \in Ops \ DOMAIN plan
     /\ \E sorted \in ByPort(available) :
          Allocate(o, SubSeq(sorted, 1, Min({n, Len(sorted)})), n > Len(sorted))

FaultOmitsTheLast(o) ==
  /\ rpc = "placing" /\ Custom
  /\ Cardinality(DOMAIN plan) < Len(job.order) - 1 /\ o = job.order[Cardinality(DOMAIN plan) + 1]

\* A custom plan is gone through in the order of the operators' names.
setCustomTaskPlacementPlan(o) ==
  /\ rpc = "placing" /\ Custom
  /\ Cardinality(DOMAIN plan) < Len(job.order) /\ o = job.order[Cardinality(DOMAIN plan) + 1]

\* For each address in order, its first available workers by registration.
AllocateSpecifiedWorkers(o) ==
  LET loadedPlan == loadCustomTaskPlacementPlan(job.placement)
      wanted == IF o \in DOMAIN loadedPlan THEN loadedPlan[o] ELSE <<>>
      Left(ip) == SetToSortSeq(AtAddress(ip) \cap available, LAMBDA v, w : v < w)
      Taken(ip) == SubSeq(Left(ip), 1, Min({wanted[ip], Len(Left(ip))}))
      ips == SetToSortSeq(DOMAIN wanted, LAMBDA a, b : a < b)
      selected == FlattenSeq([i \in DOMAIN ips |-> Taken(ips[i])])
  IN /\ setCustomTaskPlacementPlan(o)
     /\ Allocate(o, selected, \/ o \notin DOMAIN loadedPlan
                              \/ Len(selected) # Op(o).parallelism
                              \/ MapThenSumSet(LAMBDA ip : wanted[ip], DOMAIN wanted) # Op(o).parallelism)

\* The partition table, the lookup table and the first owner of each bucket.
NewTables(o) ==
  LET table == GenerateBuckets(job.policy, plan[o])
  IN [routing |-> table,
      lookup |-> IF job.protocol = "lazy" THEN GenerateBuckets(job.policy, plan[o]) ELSE <<>>,
      history |-> [b \in Buckets |-> {table[b]}]]

InitKeyPartitions ==
  LET stateful == {o \in Ops : Op(o).stateful}
  IN /\ ~fatal /\ rpc = "placing" /\ DOMAIN plan = Ops
     /\ fatal' = (fatal \/ \E o \in stateful : Len(plan[o]) \notin 1 .. NumBuckets)
     /\ tables' = IF fatal' THEN tables ELSE [o \in stateful |-> NewTables(o)]
     /\ rpc' = "starting"
     /\ todo' = UNION {{<<o, i>> : i \in DOMAIN plan[o]} : o \in Ops}
     /\ UNCHANGED <<job, counted, poolVars, available, plan, taskVars, inbox>>

FaultCountsOperators(o) == Cardinality(Upstreams(job.df, o))

numUpstream(o) == MapThenSumSet(LAMBDA u : Op(u).parallelism, Upstreams(job.df, o))

\* An operator has one downstream operator at most.
downstreamInfoList(o) == UNION {Range(plan[d]) : d \in Downstreams(job.df, o)}

TaskAssignment(o, i) ==
  LET keyed == {d \in Downstreams(job.df, o) : Op(d).stateful}
      lookup == job.protocol = "lazy" /\ Op(o).stateful
  IN [type |-> "assignment", op |-> o, downstreams |-> downstreamInfoList(o),
      expected |-> numUpstream(o),
      routing |-> IF keyed = {} THEN <<>> ELSE Serialize(tables[CHOOSE d \in keyed : TRUE].routing),
      lookup |-> IF lookup THEN Serialize(tables[o].lookup) ELSE <<>>,
      peers |-> IF lookup THEN Range(plan[o]) ELSE {},
      replica |-> IF IsSource(Op(o)) THEN i - 1 ELSE -1]

\* StartJob has one routine for each task, which sends and awaits the ACK.
DeployTask(o, i) ==
  /\ ~fatal /\ rpc = "starting" /\ <<o, i>> \in todo
  /\ todo' = todo \ {<<o, i>>}
  /\ inbox' = [inbox EXCEPT ![plan[o][i]] = Append(@, TaskAssignment(o, i))]
  /\ UNCHANGED <<job, counted, poolVars, planVars, taskVars, rpc, fatal>>

StartJobDone ==
  /\ ~fatal /\ rpc = "starting" /\ todo = {}
  /\ acks = UNION {Range(plan[o]) : o \in Ops}
  /\ rpc' = "running"
  /\ UNCHANGED <<job, counted, poolVars, planVars, taskVars, inbox, todo, fatal>>

-----------------------------------------------------------------------------
(***************************************************************************)
(* HandleTaskAssignment on a worker, up to and with Setup, which starts    *)
(* the network routines of the collector; then the signal and the ACK.     *)
(***************************************************************************)
Decoded(ranges) == IF ranges = <<>> THEN <<>> ELSE Deserialize(ranges)

\* The state services of the other tasks are dialled at once.
EstablishFails(w, a) == \E p \in a.peers \ {w} : pool[p] \notin listening

\* The checks of the constructors' Setup methods.
SetupFails(a) ==
  LET op == Op(a.op) IN
  \/ Cardinality(op.subs) # op.inputs
  \/ op.collector.assigner > 0 /\ a.routing = <<>>
  \/ IsSource(op) /\ a.replica < 0

\* LoadWarmupData: a file that another run of this worker may have left has a
\* lookup table, or cannot be decoded.
HasFile(w) == job.protocol = "lazy" /\ w \in DOMAIN job.files
Garbled(w) == HasFile(w) /\ job.files[w] = <<>>

\* The handler gives up on a file that it cannot decode: no Setup, no ACK.  The
\* table of a file needs one that it replaces.
HandleTaskAssignment(w) ==
  /\ ~fatal /\ w \in joined /\ inbox[w] # <<>> /\ task[w] = NoTask
  /\ LET a == Head(inbox[w])
         loaded == HasFile(w) /\ ~Garbled(w)
     IN
     /\ task' = [task EXCEPT ![w] =
          [op |-> a.op, ready |-> FALSE, expected |-> a.expected, passed |-> FALSE,
           replica |-> a.replica, routing |-> Decoded(a.routing),
           lookup |-> IF loaded THEN job.files[w] ELSE Decoded(a.lookup),
           setup |-> ~Garbled(w), dials |-> IF Garbled(w) THEN {} ELSE a.downstreams]]
     /\ fatal' = \/ fatal
                 \/ EstablishFails(w, a)
                 \/ loaded /\ a.lookup = <<>>
                 \/ ~Garbled(w) /\ SetupFails(a)
  /\ inbox' = [inbox EXCEPT ![w] = Tail(@)]
  /\ UNCHANGED <<job, counted, poolVars, planVars, arrived, conns, acks, rpc, todo>>

TaskAssigned(w) ==
  /\ ~fatal /\ task[w].op \in Ops /\ task[w].setup /\ ~task[w].ready
  /\ task' = [task EXCEPT ![w].ready = TRUE]
  /\ acks' = acks \cup {w}
  /\ UNCHANGED <<job, counted, poolVars, planVars, arrived, conns, inbox, rpc, todo, fatal>>

\* The routine of one downstream connects and sends its operator's name.
ConsumeOutputBuffer(w, d) ==
  /\ ~fatal /\ task[w].op \in Ops /\ d \in task[w].dials
  /\ task' = [task EXCEPT ![w].dials = @ \ {d}]
  /\ arrived' = arrived \cup {[from |-> w, to |-> d, op |-> task[w].op]}
  /\ fatal' = (fatal \/ pool[d] \notin listening)
  /\ UNCHANGED <<job, counted, poolVars, planVars, conns, acks, inbox, rpc, todo>>

FaultServesAtOnce(d) == TRUE

\* RequestHandler waits until the task is assigned: its fields are set then.
Assigned(d) == task[d].ready

InitNewUpstream(c) ==
  LET t == task[c.to]
      added == conns[c.to] \cup {c.from}
  IN /\ ~fatal /\ c \in arrived /\ Assigned(c.to)
     /\ arrived' = arrived \ {c}
     /\ conns' = [conns EXCEPT ![c.to] = added]
     /\ task' = IF t.ready /\ Cardinality(added) = t.expected
                  THEN [task EXCEPT ![c.to].passed = TRUE] ELSE task
     /\ fatal' = (fatal \/ ~t.ready \/ c.op \notin Op(t.op).subs)
     /\ UNCHANGED <<job, counted, poolVars, planVars, acks, inbox, rpc, todo>>

-----------------------------------------------------------------------------
WorkerStep(w) ==
  \/ HandleTaskAssignment(w)
  \/ TaskAssigned(w)
  \/ \E d \in Ids : ConsumeOutputBuffer(w, d)

\* What a worker that started, or registered, goes on with.
RegistrationStep ==
  \/ \E m \in Machines : Listen(m)
  \/ \E w \in Ids : AckRegistration(w) \/ WaitRegistrationAck(w)

JobStep ==
  \/ \E o \in Ops : AllocateRandomWorkers(o) \/ AllocateSpecifiedWorkers(o)
  \/ InitKeyPartitions
  \/ \E t \in todo : DeployTask(t[1], t[2])
  \/ StartJobDone
  \/ \E w \in Ids : WorkerStep(w)
  \/ \E c \in arrived : InitNewUpstream(c)

Next == (\E m \in Machines : AddWorker(m)) \/ RegistrationStep \/ RunJob \/ JobStep

Spec == Init /\ [][Next]_vars

\* Every routine that can proceed does: each of their steps happens once, so
\* it is enough that they do not all stop.  Nobody has to start a worker, or
\* to submit a job.
FairSpec == Spec /\ WF_vars(RegistrationStep \/ JobStep)

-----------------------------------------------------------------------------
Up(w) == w \in joined /\ pool[w] \in listening

\* A worker has a place in the plan before its ACK is read and its servers
\* listen.  With a client who waited, it joined after RunJob began.
Premature ==
  \E o \in DOMAIN plan : \E w \in Range(plan[o]) : ~Up(w) /\ (job.patient => w > counted)

\* A worker with a lookup table in its warm-up file has a task without state.
Misplaced ==
  \E o \in DOMAIN plan : \E w \in Range(plan[o]) : HasFile(w) /\ ~Garbled(w) /\ ~Op(o).stateful

(***************************************************************************)
(* A process of a job ends in log.Fatal or in a nil dereference only when  *)
(* a worker is given a task that is not up yet, or one that its warm-up    *)
(* file does not fit.  Otherwise there are workers for every operator,     *)
(* whatever the order in which the map gives them and whoever joins        *)
(* meanwhile, no ACK is mistaken for another message, no worker is dialled *)
(* before it listens, and no connection reaches a task that does not exist *)
(* yet or does not expect that upstream (RunJob, RegisterToCoordinator,    *)
(* HandleTaskAssignment, RequestHandler).                                  *)
(***************************************************************************)
NoFatal == fatal => Premature \/ Misplaced

Tasks(o) == IF o \in DOMAIN plan THEN Range(plan[o]) ELSE {}
UpstreamTasks(o) == UNION {Tasks(u) : u \in Upstreams(job.df, o)}

(***************************************************************************)
(* The tasks are wired as the dataflow says.  No worker gets two tasks; a  *)
(* task that passed its deployment has exactly one connection from each    *)
(* task of each upstream operator, and no task has any other; the replicas *)
(* of a source are numbered; all upstream tasks of a stateful operator     *)
(* route every key alike, to one of its tasks, and that is where the       *)
(* lookup tables of these tasks say its state is.                          *)
(***************************************************************************)
Wired ==
  /\ \A o, p \in DOMAIN plan : o # p => Tasks(o) \cap Tasks(p) = {}
  /\ \A w \in Ids : task[w] # NoTask =>
       LET t == task[w]
           o == t.op
       IN /\ w \in Tasks(o)
          /\ conns[w] \subseteq UpstreamTasks(o)
          /\ t.passed => conns[w] = UpstreamTasks(o)
          /\ IsSource(Op(o)) => plan[o][t.replica + 1] = w
          /\ \A d \in Downstreams(job.df, o) : Op(d).stateful =>
               /\ DOMAIN t.routing = Buckets
               /\ \A b \in Buckets : t.routing[b] \in Tasks(d)
               /\ \A v \in Tasks(d) : task[v] # NoTask /\ job.protocol = "lazy"
                                        => task[v].lookup = t.routing

\* Every task has the connections it waits for.
Complete ==
  \A o \in Ops : \A w \in Tasks(o) : IsSource(Op(o)) \/ (task[w].ready /\ task[w].passed)

Unreadable == \E o \in DOMAIN plan : \E w \in Range(plan[o]) : Garbled(w)

(***************************************************************************)
(* A job that RunJob accepts is started: RunJob returns, and every task    *)
(* that is not a source sees the upstreams it was told to expect, so that  *)
(* its deployment phase ends and watermarks can advance.  Otherwise a      *)
(* process stopped, as NoFatal says, or a warm-up file could not be read.  *)
(***************************************************************************)
JobStarts == (rpc = "placing") ~> (fatal \/ Unreadable \/ (rpc = "running" /\ Complete))
=============================================================================
