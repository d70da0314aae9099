--------------------------- MODULE MCStateService ---------------------------
(***************************************************************************)
(* Instances of StateService: three workers, two of them with a bucket.    *)
(* A profile is a class of jobs.  Those that break a property are left     *)
(* out, and section 7 of the README lists them.                            *)
(***************************************************************************)
EXTENDS StateService

CONSTANTS w1, w2, w3, k1, k2, b1, b2

\* Two keys of one bucket, of two buckets of one worker, of two workers.
OneBucket == [tasks |-> <<w1, w2>>, free |-> <<w3>>, bucketOf |-> [k \in Keys |-> b1], table |-> b1 :> w2]
OneWorker == [tasks |-> <<w1>>, free |-> <<w2>>,
              bucketOf |-> (k1 :> b1) @@ (k2 :> b2), table |-> [b \in {b1, b2} |-> w1]]
TwoWorkers == [OneWorker EXCEPT !.tasks = <<w1, w2>>, !.free = <<w3>>, !.table = (b1 :> w1) @@ (b2 :> w2)]
ThreeTasks == [TwoWorkers EXCEPT !.tasks = <<w3, w1, w2>>, !.free = <<>>]

Job(version, layout, rescales, scripts) ==
  [version |-> version, eventual |-> version = "by-key", maxKeys |-> -1, cancels |-> 2,
   incremental |-> TRUE, scripts |-> scripts, returns |-> TRUE, uniform |-> FALSE,
   readOnly |-> FALSE, rescales |-> rescales] @@ layout

Gradual(job) == [job EXCEPT !.maxKeys = 1]
NoReturn(job) == [job EXCEPT !.returns = FALSE]
ScaleUp(job) == [job EXCEPT !.tasks = <<w2>>, !.free = <<w1, w3>>, !.cancels = 0]
Uniform(job) == [job EXCEPT !.uniform = TRUE]

MCProfiles ==
  {Job("by-key", ThreeTasks, 1, {<<"add">>}),
   Gradual(Job("by-key", ThreeTasks, 1, {<<"add">>})),
   Gradual(Job("by-key", OneBucket, 1, {<<"set">>})),
   Gradual(Job("by-key", OneWorker, 2, {<<"add">>})),
   ScaleUp(Job("by-key", OneBucket, 2, {<<"set">>})),
   NoReturn(Job("by-key", OneBucket, 1, {<<"set">>, <<"clear">>})),
   Uniform(Job("basic", OneWorker, 1, {<<"set">>, <<"clear">>})),
   ScaleUp(Job("basic", OneBucket, 2, {<<"add">>})),
   Uniform(Job("optimized", OneBucket, 1, {<<"add">>})),
   Uniform(Job("optimized", OneWorker, 1, {<<"add">>})),
   Uniform(Job("no-migration", TwoWorkers, 1, {<<"add", "set">>, <<"clear">>}))}

\* A batch may change nothing, and then it ends without a flush.
ReadOnlyProfiles == {[job EXCEPT !.readOnly = TRUE] : job \in {Job("by-key", OneWorker, 2, {<<>>})}}
=============================================================================
