------------------------------ MODULE Windows -------------------------------
(***************************************************************************)
(* A window operator in a job that is rescaled: TumblingWindow,            *)
(* SlidingWindow or CustomWindowJoin, as the job says, with the source and *)
(* the changes of key ownership of EventTime.                              *)
(***************************************************************************)
EXTENDS EventTime

Tumbling == INSTANCE TumblingWindow
Sliding == INSTANCE SlidingWindow
Join == INSTANCE CustomWindowJoin

Next ==
  \/ \E k \in job.keys, ts \in Times, input \in 1 .. 2 :
       (job.op = "join" \/ input = 1) /\ Emit(k, ts, input)
  \/ GenerateWatermark
  \/ \E new \in [job.keys -> Workers] : Repartition(new)
  \/ job.op = "tumbling" /\ Tumbling!Next
  \/ job.op = "sliding" /\ Sliding!Next
  \/ job.op = "join" /\ Join!Next

Spec == Init /\ [][Next]_vars

-----------------------------------------------------------------------------
(***************************************************************************)
(* Properties.                                                             *)
(***************************************************************************)
\* The worker that has the state of a key, and the active windows or timers of
\* the key, with its owner or on their way.
Carrier(k) == CHOOSE m \in transit : k \in m.keys
Home(k) == IF owner[k] = Moving THEN Carrier(k).src ELSE owner[k]
Active(k) ==
  LET all == IF owner[k] = Moving THEN Carrier(k).entries ELSE index[owner[k]]
  IN [e \in {x \in DOMAIN all : x[1] = k} |-> all[e]]

\* Types, with what the operators rely on: the windows are windows of the
\* operator, with panes of theirs, and a task watermark is at most the source's
\* (getWindowStartTime, GetPaneStartTime, GenerateWatermark).
TypeOK ==
  /\ job \in Jobs /\ owner \in [job.keys -> Workers \cup {Moving}] /\ target \in [job.keys -> Workers]
  /\ \A w \in Workers : wm[w] \in NoTime .. Max({NoTime, source.last})
  /\ \A k \in job.keys, w \in Workers : \A e \in DOMAIN Active(k) :
       CASE job.op = "tumbling" -> Tumbling!WellFormed(e, Active(k)[e])
         [] job.op = "sliding" -> Sliding!WellFormed(e, Active(k)[e])
         [] job.op = "join" -> Join!WellFormed(e, Active(k)[e])

\* However keys move between its first record and its end, no record is counted
\* twice in the result of a window, late ones included (AddPane: "without
\* worrying about duplicates in the Pane slice").
CountedOnce == \A x \in DOMAIN counted : counted[x] = 1

\* A record that was not late when the source emitted it is in the result of
\* each of its windows, or the window is active and the state has the record:
\* none is lost by firing early, by deleting a pane that is needed again or by a
\* window or a timer that did not move with its key (ProcessProgressedWatermark,
\* ConstructFastForwardMetadata, FetchMetadataForMigration).
OnTimeCounted ==
  \A r \in done : r.late \/
    CASE job.op = "tumbling" -> Tumbling!Secured(r, Active(r.key), store[Home(r.key)])
      [] job.op = "sliding" -> Sliding!Secured(r, Active(r.key), store[Home(r.key)])
      [] job.op = "join" -> Join!Secured(r, Active(r.key), store[Home(r.key)])

\* The active windows of a task, which only it has in memory, and its window
\* state, which the state service has, agree: state without a window would never
\* be deleted, a window without state would fire an empty result.  What a
\* stop-and-restart move left behind matters only if the key returns
\* (DeleteAllAndFlush, DeleteManyAndFlush).
IndexMatchesState ==
  \A k \in job.keys : job.op # "join" =>
    LET filled == {x \in DOMAIN store[Home(k)] : x[1] = k /\ store[Home(k)][x] # {}}
        needed == IF job.op = "tumbling" THEN Tumbling!Needed(Active(k))
                  ELSE Sliding!Needed(Active(k))
    IN /\ needed \subseteq filled
       /\ Lazy \/ ~ job.returns => filled = needed

\* A window or a timer of a key is in the index of one task at most, the owner
\* of the key, and nowhere while it moves: no task fires what it does not own.
FiredByOwner ==
  \A w \in Workers, k \in job.keys : owner[k] # w => \A e \in DOMAIN index[w] : e[1] # k
=============================================================================
