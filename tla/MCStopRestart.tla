---------------------------- MODULE MCStopRestart ----------------------------
(***************************************************************************)
(* Instances of StopRestart: jobs with many rescales and no data, and jobs *)
(* with data and few rescales.                                             *)
(***************************************************************************)
EXTENDS StopRestart

CONSTANTS u1, u2, w1, w2, w3, w4, k1, k2

MCPool == <<w1, w2, w3, w4>>
MCBucketOf == [k \in Keys |-> IF k = k1 THEN 1 ELSE 3]
MCTokens == [w \in Workers |-> CASE w = w1 -> {0, 7} [] w = w2 -> {2, 9}
                                 [] w = w3 -> {8, 11} [] w = w4 -> {5, 14}]

Job(policy, n, ups, own, upstream, records, kinds) ==
  [policy |-> policy, parallelism |-> n, ups |-> ups, rescales |-> own,
   upRescales |-> upstream, records |-> records, kinds |-> kinds]

MCJobs ==
  {Job(p, n, {u1}, 3, 0, 0, Kinds) : p \in Policies, n \in 1 .. 3}
    \cup {Job("uniform", 2, {u1, u2}, 1, 1, 2, {"add"}),
          Job("consistent-even", 1, {u1}, 2, 0, 2, Kinds),
          Job("consistent-hashing", 1, {u1, u2}, 2, 0, 1, {"add"}),
          Job("consistent-even", 2, {u1}, 2, 1, 0, {"add"}),
          Job("consistent-even", 2, {u1}, 1, 1, 1, {"add"}),
          Job("consistent-even", 1, {u1}, 1, 0, 3, {"add"})}
=============================================================================
