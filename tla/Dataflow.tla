------------------------------ MODULE Dataflow ------------------------------
(***************************************************************************)
(* How a dataflow is put together: the operators of the API, what each     *)
(* stream does to the operators at its two ends, and the checks of the     *)
(* graph construction.  The coordinator and every worker run this code     *)
(* before anything else, and get the same graph.                           *)
(*                                                                         *)
(* A collector is the round robin collector of the constructor until a     *)
(* stream to a stateful operator replaces it by a keyby collector, with    *)
(* the number of the key assigner it uses.  The user's functions are the   *)
(* sets of calls they may make on the states of a key, in order.           *)
(***************************************************************************)
EXTENDS Integers, Sequences, FiniteSets, FiniteSetsExt, SequencesExt, TLC

RoundRobin == [assigner |-> 0, stamped |-> FALSE]
Keyby(i, stamped) == [assigner |-> i, stamped |-> stamped]
NoCollector == [assigner |-> -1, stamped |-> FALSE]

\* NewOperatorBase with the supplier for so many upstream operators.
NewOperatorBase(name, kind, inputs) ==
  [name |-> name, kind |-> kind, stateful |-> FALSE, parallelism |-> 1,
   inputs |-> inputs, collector |-> RoundRobin, upstreams |-> <<>>, subs |-> {},
   f |-> <<>>, period |-> <<>>, valid |-> TRUE]

IsSource(op) == op.inputs = 0
IsSink(op) == op.collector = NoCollector
SetParallelism(op, n) == [op EXCEPT !.parallelism = n]

NewSource(name) == NewOperatorBase(name, "source", 0)
NewKafkaSource(name) == [NewSource(name) EXCEPT !.kind = "kafka"]
NewMapper(name) == NewOperatorBase(name, "mapper", 1)
NewFlatmap(name) == NewOperatorBase(name, "flatmap", 1)
NewFilter(name) == [NewFlatmap(name) EXCEPT !.kind = "filter"]
NewSink(name) == [NewOperatorBase(name, "sink", 1) EXCEPT !.collector = NoCollector]

NewStatefulOperatorBase(name, kind, inputs) ==
  [NewOperatorBase(name, kind, inputs) EXCEPT !.stateful = TRUE]

NewStatefulMapper(name, f) ==
  [NewStatefulOperatorBase(name, "statefulMapper", 1) EXCEPT !.f = <<f>>]
NewStatefulMapper2(name, f) ==
  [NewStatefulOperatorBase(name, "statefulMapper2", 1) EXCEPT !.f = <<f>>]
NewStatefulFlatmap(name, f) ==
  [NewStatefulOperatorBase(name, "statefulFlatmap", 1) EXCEPT !.f = <<f>>]

NewTumblingWindow(name, duration) ==
  [NewStatefulOperatorBase(name, "tumblingWindow", 1) EXCEPT
     !.period = <<duration>>, !.valid = duration > 0]
NewSlidingWindow(name, duration, slide) ==
  [NewStatefulOperatorBase(name, "slidingWindow", 1) EXCEPT
     !.period = <<duration, slide>>,
     !.valid = duration > 0 /\ slide > 0 /\ duration % slide = 0]

NewJoin(name, up1, f1, up2, f2) ==
  [NewStatefulOperatorBase(name, "join", 2) EXCEPT
     !.upstreams = <<up1, up2>>, !.f = <<f1, f2>>]
NewCustomWindowJoin(name, up1, f1, up2, f2, onTimer) ==
  [NewStatefulOperatorBase(name, "customWindowJoin", 2) EXCEPT
     !.upstreams = <<up1, up2>>, !.f = <<f1, f2, onTimer>>]

\* The assigner and the generator are kept by the collector.
AssignTimestampAndWatermark(source) == [source EXCEPT !.collector.stamped = TRUE]

EventTimeKinds == {"tumblingWindow", "slidingWindow", "customWindowJoin"}

-----------------------------------------------------------------------------
(***************************************************************************)
(* objects: every operator the user made; operators: those that were added *)
(* to the dataflow; streams: the neighbours of a connected operator.  A    *)
(* log.Fatal leaves failed behind.                                         *)
(***************************************************************************)
NewDataflow == [objects |-> <<>>, operators |-> {}, streams |-> <<>>, failed |-> FALSE]

Failing(df, condition) == [df EXCEPT !.failed = @ \/ condition]

\* An operator that is made and connected, but not added.
Made(df, op) == Failing([df EXCEPT !.objects = (op.name :> op) @@ @], ~op.valid)

AddOperator(df, op) ==
  Failing([Made(df, op) EXCEPT !.operators = @ \cup {op.name}], op.name \in df.operators)

GetTotalNumTasks(df) ==
  MapThenSumSet(LAMBDA o : df.objects[o].parallelism, df.operators)

\* The new collector of a source takes over its timestamps and watermarks.
setKeybyCollectorForUpstream(df, up, i) ==
  [df EXCEPT !.objects[up].collector =
     Keyby(i, IsSource(df.objects[up]) /\ df.objects[up].collector.stamped)]

\* With two inputs, the key assigner is found by the name of the upstream.
SetKeyedOutputStreamForUpstream(df, down, ups) ==
  LET op == df.objects[down]
      Assigner(i) == CASE op.inputs = 1 -> 1
                       [] op.inputs = 2 /\ ups[i] = op.upstreams[i] -> i
                       [] OTHER -> 3 - i
      Expected(i) == op.inputs = 1 \/ ups[i] \in Range(op.upstreams)
      Keyed(d, i) == setKeybyCollectorForUpstream(d, ups[i], Assigner(i))
  IN IF Len(ups) # op.inputs \/ \E i \in DOMAIN ups : ~Expected(i)
     THEN Failing(df, TRUE)
     ELSE FoldLeftDomain(LAMBDA d, i : Keyed(d, i), df, ups)

AddSubSupplier(df, down, up) ==
  LET op == df.objects[down]
  IN Failing([df EXCEPT !.objects[down].subs = @ \cup {up}],
             IsSource(op) \/ Cardinality(op.subs) >= op.inputs \/ up \in op.subs)

AddSubSupplierToDownstream(df, up, down) ==
  Failing(AddSubSupplier(df, down, up), IsSink(df.objects[up]))

Dependencies(df, o) ==
  IF o \in DOMAIN df.streams THEN df.streams[o] ELSE [up |-> <<>>, down |-> <<>>]

ConnectUpstreamToDownstream(df, up, down) ==
  LET from == [Dependencies(df, up) EXCEPT !.down = Append(@, down)]
      to == [Dependencies(df, down) EXCEPT !.up = Append(@, up)]
  IN Failing([df EXCEPT !.streams = (up :> from) @@ (down :> to) @@ @], Len(from.down) > 1)

Keyed(df, ups, down) ==
  IF df.objects[down].stateful THEN SetKeyedOutputStreamForUpstream(df, down, ups) ELSE df

Add1To1Stream(df, up, down) ==
  ConnectUpstreamToDownstream(
    AddSubSupplierToDownstream(Keyed(df, <<up>>, down), up, down), up, down)

Add2To1Stream(df, up1, up2, down) ==
  LET supplied == AddSubSupplierToDownstream(
                    AddSubSupplierToDownstream(Keyed(df, <<up1, up2>>, down), up1, down),
                    up2, down)
  IN ConnectUpstreamToDownstream(ConnectUpstreamToDownstream(supplied, up1, down), up2, down)

\* A user's program: its operators, then its streams.
AddStream(df, s) ==
  IF Len(s) = 2 THEN Add1To1Stream(df, s[1], s[2]) ELSE Add2To1Stream(df, s[1], s[2], s[3])
Graph(ops, streams) == FoldLeft(AddStream, FoldLeft(AddOperator, NewDataflow, ops), streams)

-----------------------------------------------------------------------------
Upstreams(df, o) == Range(Dependencies(df, o).up)
Downstreams(df, o) == Range(Dependencies(df, o).down)

\* The operators of df that o gets records from, itself included.
Above(df, o) ==
  LET Step(os, n) == os \cup UNION {Upstreams(df, p) : p \in os}
  IN FoldLeft(Step, {o}, [n \in 1 .. Cardinality(DOMAIN df.objects) |-> n])

(***************************************************************************)
(* What every shipped program should come to: no check of the construction *)
(* fails; every operator that is connected was added and has the inputs it *)
(* needs; a stateful operator gets its input by key, with the key assigner *)
(* made for that upstream; event time reaches the operators that wait for  *)
(* it; and no user function clears a state that it writes in one batch,    *)
(* which the lookup table of the lazy protocol does not survive.           *)
(***************************************************************************)
WellFormed(df) ==
  /\ ~df.failed
  /\ df.operators = DOMAIN df.objects
  /\ \A o \in df.operators :
       LET op == df.objects[o] IN
       /\ op.subs = Upstreams(df, o) /\ Cardinality(op.subs) = op.inputs
       /\ IsSink(op) <=> Downstreams(df, o) = {}
       /\ op.stateful => \A i \in 1 .. op.inputs :
            LET up == IF op.inputs = 1 THEN CHOOSE u \in op.subs : TRUE ELSE op.upstreams[i]
            IN df.objects[up].collector.assigner = i
       /\ op.kind \in EventTimeKinds =>
            \A s \in Above(df, o) : IsSource(df.objects[s]) => df.objects[s].collector.stamped
       /\ \A i \in DOMAIN op.f, n \in 1 .. 2 :
            LET Calls(c) == \E run \in op.f[i] : \E j \in DOMAIN run : run[j] = <<c, n>>
            IN ~(Calls("clear") /\ (Calls("set") \/ Calls("add")))
=============================================================================
