----------------------------- MODULE MCJobStart -----------------------------
(***************************************************************************)
(* Seven jobs on three to five workers, some of which register late:       *)
(*   - the default counter, with a keyed stage of two tasks and with ports *)
(*     that the order of the workers does not settle;                      *)
(*   - the same with the lazy protocol, for a client who does not wait;    *)
(*   - Nexmark query 1, stateless, with two sources, by a custom plan;     *)
(*   - the same with one source, placed anywhere, with a machine more than *)
(*     it needs, or with warm-up files of another job, one not readable;   *)
(*   - Nexmark query 8, a join of two sources with two tasks, by a custom  *)
(*     plan on two addresses, with the hash policy and one warm-up file;   *)
(*   - Nexmark query 7, with one window after the other.                   *)
(* The hash values put the tokens of two workers into one bucket.          *)
(***************************************************************************)
EXTENDS JobStart

Machine(ip, port) == [ip |-> ip, port |-> port]
MCTokens == <<{0, 3}, {2, 7}, {1}, {3, 5}, {6}, {4}>>
Anywhere == <<>>
NoFiles == <<>>

Counter ==
  [df |-> DefaultDataflow, policy |-> "consistent-even", protocol |-> "stop-and-restart",
   order |-> <<"sink", "source", "statefulMapper">>, placement |-> Anywhere,
   early |-> <<Machine(1, 2), Machine(1, 1), Machine(1, 3)>>,
   late |-> {Machine(2, 2)}, files |-> NoFiles, patient |-> TRUE]

Hasty ==
  [Counter EXCEPT !.protocol = "lazy", !.patient = FALSE]

Stateless ==
  LET df == DefineDataflow("nexmark_query1", [Producers |-> 2])
  IN [df |-> df, policy |-> "uniform", protocol |-> "lazy", order |-> <<"mapper", "sink", "source">>,
      placement |-> <<<<"source", 1>>, <<"source", 2>>, <<"mapper", 1>>, <<"sink", 1>>>>,
      early |-> <<Machine(1, 1), Machine(2, 1), Machine(1, 2)>>, late |-> {Machine(1, 3)},
      files |-> NoFiles, patient |-> TRUE]

Spare ==
  [Stateless EXCEPT !.df = DefineDataflow("nexmark_query1", [Producers |-> 1]),
                    !.placement = Anywhere, !.late = {Machine(2, 0)}]

Table(ws) == GenerateBuckets("consistent-hashing", ws)
OldFiles == [Spare EXCEPT !.late = {}, !.files = 2 :> <<>> @@ 3 :> Table(<<1, 3>>)]

WindowJoin ==
  LET df == DefineDataflow("nexmark_query8", [CustomWindowJoin |-> 2])
  IN [df |-> df, policy |-> "consistent-hashing", protocol |-> "lazy",
      order |-> <<"auctionSource", "personSource", "sink", "windowJoin">>,
      placement |-> <<<<"personSource", 1>>, <<"windowJoin", 2>>, <<"auctionSource", 1>>, <<"sink", 2>>,
                     <<"windowJoin", 1>>>>,
      early |-> <<Machine(1, 2), Machine(2, 1), Machine(1, 1), Machine(1, 3)>>,
      late |-> {Machine(2, 2)}, files |-> 4 :> Table(<<4, 5>>),
      patient |-> TRUE]

Windows ==
  LET df == DefineDataflow("nexmark_query7", [Producers |-> 1])
  IN [df |-> df, policy |-> "uniform", protocol |-> "lazy",
      order |-> <<"highestBid", "sink", "source", "tumblingWindow">>, placement |-> Anywhere,
      early |-> [i \in 1 .. 4 |-> Machine(1, i)], late |-> {}, files |-> NoFiles, patient |-> TRUE]

MCJobs == {Counter, Hasty, Stateless, Spare, OldFiles, WindowJoin, Windows}
=============================================================================
