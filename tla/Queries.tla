------------------------------ MODULE Queries -------------------------------
(***************************************************************************)
(* The dataflows that ship with the system: the example programs, the      *)
(* Nexmark queries on generated events and on Kafka, and the taxi, Twitch, *)
(* Borg and Azure pipelines.  Of a configuration file this keeps what      *)
(* shapes the graph: the parallelism of each operator, the number of       *)
(* producers, which is the parallelism of the sources, and the periods, in *)
(* units of 10 ms; a missing field has its default.                        *)
(*                                                                         *)
(* Of a user function it keeps the calls on the states of the record's     *)
(* key, one sequence for each way through the function, and not the values *)
(* it computes.                                                            *)
(***************************************************************************)
EXTENDS Dataflow

Get(i) == <<"get", i>>
Set(i) == <<"set", i>>     \* Set of a value, Update of a list
Add(i) == <<"add", i>>
Clear(i) == <<"clear", i>>
Count == {<<Get(1), Set(1)>>}

Source(name, n) == SetParallelism(NewSource(name), n)
KafkaSource(name, c) == SetParallelism(NewKafkaSource(name), c.Producers)
NexmarkSource(name) == NewSource(name)
Sink(n) == SetParallelism(NewSink("sink"), n)
Stamped(source) == AssignTimestampAndWatermark(source)
Chain(ops) == Graph(ops, [i \in 1 .. Len(ops) - 1 |-> <<ops[i].name, ops[i + 1].name>>])

-----------------------------------------------------------------------------
(* query/examples                                                          *)

Example_Count_Query ==
  Chain(<<Source("source", 1), SetParallelism(NewStatefulMapper("statefulMapper", Count), 2), Sink(1)>>)

Counter_Composite_Key ==
  Chain(<<Source("source", 1), SetParallelism(NewStatefulMapper("statefulMapper", Count), 2), Sink(1)>>)

Example_Counter_Watermark_Query ==
  Chain(<<Stamped(Source("source", 2)),
          SetParallelism(NewStatefulMapper("statefulMapper", Count), 2), Sink(1)>>)

\* The filter is connected, but not added to the dataflow.
Example_Filter_Query ==
  LET added == FoldLeft(AddOperator, NewDataflow, <<Source("source", 1), Sink(1)>>)
  IN FoldLeft(AddStream, Made(added, NewFilter("filter")), <<<<"source", "filter">>, <<"filter", "sink">>>>)

Example_Kafka_Query ==
  Chain(<<NewKafkaSource("s1"), NewStatefulMapper("statefulMapper", Count), Sink(1)>>)

Example_Kafka_Query1 == Chain(<<NewKafkaSource("q1k"), NewMapper("mapper"), Sink(1)>>)

Example_Simple_Query ==
  Chain(<<Source("source", 1), SetParallelism(NewMapper("mapper"), 2), Sink(1)>>)

Example_Simple_Watermark_Query ==
  Chain(<<Stamped(Source("source", 2)), SetParallelism(NewMapper("mapper"), 2), Sink(1)>>)

Example_TumblingWindow_Query ==
  Chain(<<Stamped(Source("source", 1)),
          SetParallelism(NewTumblingWindow("tumblingWindow", 50), 2), Sink(1)>>)

WarmUpDbExample ==
  Chain(<<Source("source", 1),
          SetParallelism(NewStatefulMapper("statefulMapper", {<<Set(1)>>}), 2), Sink(1)>>)

-----------------------------------------------------------------------------
(* query/nexmark                                                           *)

Query1Mapper == NewMapper("mapper")
Query2Filter == NewFilter("filter")

Query3Join(up1, up2) ==
  NewJoin("join", up1, {<<Set(1), Get(2), Clear(2)>>},
                  up2, {<<Get(1)>>, <<Get(1), Add(2)>>})

ClosedAuction(up1, up2) ==
  NewCustomWindowJoin("closedAuction", up1, {<<Set(1)>>}, up2, {<<Add(2)>>},
                      {<<Get(2), Clear(1), Clear(2)>>, <<Get(2), Get(1), Clear(1), Clear(2)>>})

Query4StatefulMapper == NewStatefulMapper("statefulMapper", Count)
Query4StatefulMapperDummy == NewStatefulMapper("statefulMapper", Count)
Query5SlidingWindow(duration, slide) == NewSlidingWindow("slidingWindow", duration, slide)
Query6StatefulMapper == NewStatefulMapper("statefulMapper", Count)
Query7TumblingWindow(duration) == NewTumblingWindow("tumblingWindow", duration)

Query8CustomWindowJoin(up1, up2) ==
  NewCustomWindowJoin("windowJoin", up1, {<<Set(1)>>}, up2, {<<Add(2)>>},
                      {<<Get(2), Clear(1), Clear(2)>>, <<Get(2), Get(1), Clear(1), Clear(2)>>})

Query1 == Chain(<<NexmarkSource("source"), Query1Mapper, Sink(1)>>)
Query2 == Chain(<<NexmarkSource("source"), Query2Filter, Sink(1)>>)
Query3 ==
  Graph(<<NexmarkSource("personSource"), NexmarkSource("auctionSource"),
          NewFilter("personFilter"), NewFilter("auctionFilter"),
          Query3Join("personFilter", "auctionFilter"), Sink(1)>>,
        <<<<"personSource", "personFilter">>, <<"auctionSource", "auctionFilter">>,
          <<"personFilter", "auctionFilter", "join">>, <<"join", "sink">>>>)
Query4 ==
  Graph(<<Stamped(NexmarkSource("auctionSource")), Stamped(NexmarkSource("bidSource")),
          ClosedAuction("auctionSource", "bidSource"), Query4StatefulMapper, Sink(1)>>,
        <<<<"auctionSource", "bidSource", "closedAuction">>,
          <<"closedAuction", "statefulMapper">>, <<"statefulMapper", "sink">>>>)
Query4Mod == Chain(<<NexmarkSource("closedAuctionSource"), Query4StatefulMapper, Sink(1)>>)
Query5 == Chain(<<Stamped(NexmarkSource("source")), Query5SlidingWindow(10, 1), Sink(1)>>)
Query6 ==
  Graph(<<Stamped(NexmarkSource("auctionSource")), Stamped(NexmarkSource("bidSource")),
          ClosedAuction("auctionSource", "bidSource"), Query6StatefulMapper, Sink(1)>>,
        <<<<"auctionSource", "bidSource", "closedAuction">>,
          <<"closedAuction", "statefulMapper">>, <<"statefulMapper", "sink">>>>)
Query6Mod == Chain(<<NexmarkSource("closedAuctionSource"), Query6StatefulMapper, Sink(1)>>)
Query7 == Chain(<<Stamped(NexmarkSource("source")), Query7TumblingWindow(5), Sink(1)>>)
Query8 ==
  Graph(<<Stamped(NexmarkSource("personSource")), Stamped(NexmarkSource("auctionSource")),
          Query8CustomWindowJoin("personSource", "auctionSource"), Sink(1)>>,
        <<<<"personSource", "auctionSource", "windowJoin">>, <<"windowJoin", "sink">>>>)

-----------------------------------------------------------------------------
(* The same queries on Kafka, with their configuration.                    *)

Q1Config == [Mapper |-> 1, Sink |-> 1, Producers |-> 1]
Q2Config == [Filter |-> 1, Sink |-> 1, Producers |-> 1]
Q3Config == [PersonFilter |-> 1, AuctionFilter |-> 1, Join |-> 1, Sink |-> 1, Producers |-> 1]
Q4Config == [ClosedAuction |-> 1, StatefulMapper |-> 1, Sink |-> 1, Producers |-> 1]
Q4ModConfig == [StatefulMapper |-> 1, Sink |-> 1, Producers |-> 1]
Q5Config == [SlidingWindow |-> 1, HottestItem |-> 1, Sink |-> 1, Producers |-> 1,
             WindowDuration |-> 10, WindowSlide |-> 1]
Q5ModConfig == [SlidingWindow |-> 1, Sink |-> 1, Producers |-> 1,
                WindowDuration |-> 10, WindowSlide |-> 1]
Q6Config == [ClosedAuction |-> 1, StatefulMapper |-> 1, Sink |-> 1, Producers |-> 1]
Q6ModConfig == [StatefulMapper |-> 1, Sink |-> 1, Producers |-> 1]
Q7Config == [TumblingWindow |-> 1, HighestBid |-> 1, Sink |-> 1, Producers |-> 1, WindowDuration |-> 10]
Q7ModConfig == [TumblingWindow |-> 1, Sink |-> 1, Producers |-> 1, WindowDuration |-> 10]
Q8Config == [CustomWindowJoin |-> 1, Sink |-> 1, Producers |-> 1]

Query1Kafka(c) ==
  Chain(<<KafkaSource("source", c), SetParallelism(Query1Mapper, c.Mapper), Sink(c.Sink)>>)

Query2Kafka(c) ==
  Chain(<<KafkaSource("source", c), SetParallelism(NewFilter("filter"), c.Filter), Sink(c.Sink)>>)

Query3Kafka(c) ==
  Graph(<<KafkaSource("personSource", c), KafkaSource("auctionSource", c),
          SetParallelism(NewFilter("personFilter"), c.PersonFilter),
          SetParallelism(NewFilter("auctionFilter"), c.AuctionFilter),
          SetParallelism(Query3Join("personFilter", "auctionFilter"), c.Join), Sink(c.Sink)>>,
        <<<<"personSource", "personFilter">>, <<"auctionSource", "auctionFilter">>,
          <<"personFilter", "auctionFilter", "join">>, <<"join", "sink">>>>)

\* The warm-up stores the persons and does nothing with the auctions.
Query3WarmUp(c) ==
  Graph(<<KafkaSource("personSource", c), KafkaSource("auctionSource", c),
          SetParallelism(NewFilter("personFilter"), c.PersonFilter),
          SetParallelism(NewFilter("auctionFilter"), c.AuctionFilter),
          SetParallelism(NewJoin("join", "personFilter", {<<Set(1)>>}, "auctionFilter", {<<>>}), c.Join),
          Sink(c.Sink)>>,
        <<<<"personSource", "personFilter">>, <<"auctionSource", "auctionFilter">>,
          <<"personFilter", "auctionFilter", "join">>, <<"join", "sink">>>>)

Query4Kafka(c) ==
  Graph(<<Stamped(KafkaSource("auctionSource", c)), Stamped(KafkaSource("bidSource", c)),
          SetParallelism(ClosedAuction("auctionSource", "bidSource"), c.ClosedAuction),
          SetParallelism(Query4StatefulMapper, c.StatefulMapper), Sink(c.Sink)>>,
        <<<<"auctionSource", "bidSource", "closedAuction">>,
          <<"closedAuction", "statefulMapper">>, <<"statefulMapper", "sink">>>>)

Query4ModKafka(c) ==
  Chain(<<KafkaSource("source", c), SetParallelism(Query4StatefulMapperDummy, c.StatefulMapper),
          Sink(c.Sink)>>)

\* Both the duration and the slide are WindowDuration; WindowSlide is unused.
Query5Kafka(c) ==
  Chain(<<Stamped(KafkaSource("source", c)),
          SetParallelism(Query5SlidingWindow(c.WindowDuration, c.WindowDuration), c.SlidingWindow),
          SetParallelism(NewTumblingWindow("HottestItem", c.WindowDuration), c.HottestItem),
          Sink(c.Sink)>>)

Query5ModKafka(c) ==
  Chain(<<Stamped(KafkaSource("source", c)),
          SetParallelism(Query5SlidingWindow(c.WindowDuration, c.WindowSlide), c.SlidingWindow),
          Sink(c.Sink)>>)

Query6Kafka(c) ==
  Graph(<<Stamped(KafkaSource("auctionSource", c)), Stamped(KafkaSource("bidSource", c)),
          SetParallelism(ClosedAuction("auctionSource", "bidSource"), c.ClosedAuction),
          SetParallelism(Query6StatefulMapper, c.StatefulMapper), Sink(c.Sink)>>,
        <<<<"auctionSource", "bidSource", "closedAuction">>,
          <<"closedAuction", "statefulMapper">>, <<"statefulMapper", "sink">>>>)

Query6ModKafka(c) ==
  Chain(<<KafkaSource("source", c), SetParallelism(Query6StatefulMapper, c.StatefulMapper), Sink(c.Sink)>>)

Query7Kafka(c) ==
  Chain(<<Stamped(KafkaSource("source", c)),
          SetParallelism(Query7TumblingWindow(c.WindowDuration), c.TumblingWindow),
          SetParallelism(NewTumblingWindow("highestBid", c.WindowDuration), c.HighestBid),
          Sink(c.Sink)>>)

Query7ModKafka(c) ==
  Chain(<<Stamped(KafkaSource("source", c)),
          SetParallelism(Query7TumblingWindow(c.WindowDuration), c.TumblingWindow), Sink(c.Sink)>>)

Query8Kafka(c) ==
  Graph(<<Stamped(KafkaSource("personSource", c)), Stamped(KafkaSource("auctionSource", c)),
          SetParallelism(Query8CustomWindowJoin("personSource", "auctionSource"), c.CustomWindowJoin),
          Sink(c.Sink)>>,
        <<<<"personSource", "auctionSource", "windowJoin">>, <<"windowJoin", "sink">>>>)

-----------------------------------------------------------------------------
(* query/taxi, query/twitch, query/borg, query/azure.  By default these    *)
(* have no producer, so their configuration file has to list them.         *)

TaxiConfig == [CalculateCellId |-> 1, MovingMedianTripTime |-> 1, Sink |-> 1, Producers |-> 0]
TwitchConfig == [RetentionAnalyzer |-> 1, ViewerLoyaltyCalculator |-> 1,
                 LoyaltyTrendAnalyzer |-> 1, Sink |-> 1, Producers |-> 0]
BorgConfig == [JobEventStats |-> 1, Sink |-> 1, Producers |-> 0]
AzureConfig == [CpuReadingStats |-> 1, Sink |-> 1, Producers |-> 0]

Taxi(c) ==
  Chain(<<KafkaSource("source", c),
          SetParallelism(NewFlatmap("calculateCellId"), c.CalculateCellId),
          SetParallelism(NewStatefulMapper("movingMedianTripTime", Count), c.MovingMedianTripTime),
          Sink(c.Sink)>>)

TaxiWarmup(c) ==
  Chain(<<KafkaSource("source", c),
          SetParallelism(NewFlatmap("calculateCellId"), c.CalculateCellId),
          SetParallelism(NewStatefulMapper("movingMedianTripTime", Count), c.MovingMedianTripTime),
          Sink(c.Sink)>>)

retentionAnalyzer == NewStatefulFlatmap("retention-Analyzer", Count)
viewerLoyaltyCalculator ==
  NewStatefulMapper2("viewer-Loyalty-Calculator", {<<Get(1), Set(1)>>, <<Get(1), Set(2), Set(1)>>})
loyaltyTrendAnalyzer ==
  NewStatefulMapper("loyalty-Trend-Analyzer", {<<Get(1), Set(1), Set(1)>>})

TwitchPipeline(c) ==
  Chain(<<KafkaSource("twitchFileSource", c),
          SetParallelism(retentionAnalyzer, c.RetentionAnalyzer),
          SetParallelism(viewerLoyaltyCalculator, c.ViewerLoyaltyCalculator),
          SetParallelism(loyaltyTrendAnalyzer, c.LoyaltyTrendAnalyzer), Sink(c.Sink)>>)

\* The warm-up runs fill the list of a new key and skip a key that has one.
BusyMachine(c) ==
  Chain(<<KafkaSource("source", c),
          SetParallelism(NewStatefulMapper("jobEventStats", Count), c.JobEventStats), Sink(c.Sink)>>)
BusyMachineWarmup(c) ==
  Chain(<<KafkaSource("source", c),
          SetParallelism(NewStatefulMapper("jobEventStats", Count \cup {<<Get(1)>>}), c.JobEventStats),
          Sink(c.Sink)>>)
CPUReadings(c) ==
  Chain(<<KafkaSource("source", c),
          SetParallelism(NewStatefulMapper("cpuReadingStats", Count), c.CpuReadingStats), Sink(c.Sink)>>)
CPUReadingsWarmup(c) ==
  Chain(<<KafkaSource("source", c),
          SetParallelism(NewStatefulMapper("cpuReadingStats", Count \cup {<<Get(1)>>}), c.CpuReadingStats),
          Sink(c.Sink)>>)

-----------------------------------------------------------------------------
DefaultDataflow == Example_Count_Query

\* The query of a name on the command line; given has the fields of its file.
DefineDataflow(name, given) ==
  CASE name = "nexmark_query1" -> Query1Kafka(given @@ Q1Config)
    [] name = "nexmark_query2" -> Query2Kafka(given @@ Q2Config)
    [] name = "nexmark_query3" -> Query3Kafka(given @@ Q3Config)
    [] name = "nexmark_query3_warmup" -> Query3WarmUp(given @@ Q3Config)
    [] name = "nexmark_query4" -> Query4Kafka(given @@ Q4Config)
    [] name = "nexmark_query4_modified" -> Query4ModKafka(given @@ Q4ModConfig)
    [] name = "nexmark_query5" -> Query5Kafka(given @@ Q5Config)
    [] name = "nexmark_query6" -> Query6Kafka(given @@ Q6Config)
    [] name = "nexmark_query6_modified" -> Query6ModKafka(given @@ Q6ModConfig)
    [] name = "nexmark_query7" -> Query7Kafka(given @@ Q7Config)
    [] name = "nexmark_query8" -> Query8Kafka(given @@ Q8Config)
    [] name = "taxi" -> Taxi(given @@ TaxiConfig)
    [] name = "taxi_warmup" -> TaxiWarmup(given @@ TaxiConfig)
    [] name = "twitch" -> TwitchPipeline(given @@ TwitchConfig)
    [] name = "borg" -> BusyMachine(given @@ BorgConfig)
    [] name = "borg_warmup" -> BusyMachineWarmup(given @@ BorgConfig)
    [] name = "azure" -> CPUReadings(given @@ AzureConfig)
    [] name = "azure_warmup" -> CPUReadingsWarmup(given @@ AzureConfig)

QueryNames ==
  {"nexmark_query1", "nexmark_query2", "nexmark_query3", "nexmark_query3_warmup", "nexmark_query4",
   "nexmark_query4_modified", "nexmark_query5", "nexmark_query6", "nexmark_query6_modified",
   "nexmark_query7", "nexmark_query8", "taxi", "taxi_warmup", "twitch", "borg", "borg_warmup",
   "azure", "azure_warmup"}

Generated ==
  {Example_Count_Query, Counter_Composite_Key, Example_Counter_Watermark_Query, Example_Kafka_Query,
   Example_Kafka_Query1, Example_Simple_Query, Example_Simple_Watermark_Query,
   Example_TumblingWindow_Query, WarmUpDbExample, Query1, Query2, Query3, Query4, Query4Mod, Query5,
   Query6, Query6Mod, Query7, Query8, Query5ModKafka(Q5ModConfig), Query7ModKafka(Q7ModConfig)}

ASSUME QueriesWellFormed ==
  /\ \A name \in QueryNames, n \in 1 .. 2 : WellFormed(DefineDataflow(name, [Producers |-> n]))
  /\ \A df \in Generated : WellFormed(df)
  /\ ~WellFormed(Example_Filter_Query)
=============================================================================
