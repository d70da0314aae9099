--------------------------- MODULE SlidingWindow ----------------------------
(***************************************************************************)
(* SlidingWindow: state is kept for panes of one slide; a pane belongs to  *)
(* duration / slide windows, and Index maps an active window to the panes  *)
(* that have state.                                                        *)
(***************************************************************************)
EXTENDS EventTime, Functions

GetPaneStartTime(timestamp) == timestamp - (timestamp % job.slide)
Pane(r) == <<r.key, GetPaneStartTime(r.ts)>>

GetSlidingWindowStartTimes(pane) ==
  {pane - i * job.slide : i \in 0 .. job.duration \div job.slide - 1}
WindowsOfPane(p) == {p[1]} \X GetSlidingWindowStartTimes(p[2])

\* The panes of a window are a Go slice: appending to it makes duplicates.
Panes(ix, e) == IF e \in DOMAIN ix THEN ix[e] ELSE EmptyBag
Add(ix, windows) ==
  [e \in DOMAIN ix \cup DOMAIN windows |-> Panes(ix, e) (+) Panes(windows, e)]
AddPane(ix, ps) ==
  Add(ix, [e \in UNION {WindowsOfPane(p) : p \in ps} |->
             SetToBag({p[2] : p \in {q \in ps : e \in WindowsOfPane(q)}})])
Remove(ix, es) == Restrict(ix, DOMAIN ix \ es)

FaultFiresAtStart(ix, t) == {e \in DOMAIN ix : e[2] <= t}

GetWindowsToBeFired(ix, t) == {e \in DOMAIN ix : e[2] <= t - job.duration}

\* A pane without state is new.
NewPanes(w, rs) == {p \in {Pane(r) : r \in rs} : store[w][p] = {}}

ProcessBatch(w, rs) ==
  /\ Take(w, rs)
  /\ index' = [index EXCEPT ![w] = AddPane(@, NewPanes(w, rs))]
  /\ store' = [store EXCEPT ![w] = Filled(@, [r \in rs |-> Pane(r)])]
  /\ UNCHANGED <<job, source, wm, owner, target, transit, fired, counted, moves>>

\* The panes of window e, and what MergeFunc makes of them: a record counts as
\* often as its pane is listed.
PanesOf(ix, e) == {<<e[1], p>> : p \in DOMAIN ix[e]}
MergeFunc(ix, st, e) ==
  LET listed(id) == CHOOSE p \in PanesOf(ix, e) : id \in st[p]
      ids == UNION {st[p] : p \in PanesOf(ix, e)}
  IN [x \in {e} \X ids |-> ix[e][listed(x[2])[2]]]

FaultKeepsLast(p, t) == p[2] < t - job.duration

\* The last window of a pane starts with it.
NeverNeededAgain(p, t) == p[2] <= t - job.duration

ProcessProgressedWatermark(w, t) ==
  LET closed == GetWindowsToBeFired(index[w], t)
      results == {MergeFunc(index[w], store[w], e) : e \in closed}
      panesToRemove == {p \in UNION {PanesOf(index[w], e) : e \in closed} : NeverNeededAgain(p, t)}
  IN /\ Progressed(w, t)
     /\ fired' = fired \cup closed
     /\ counted' = counted (+) BagUnion(results)
     /\ index' = [index EXCEPT ![w] = Remove(@, closed)]
     /\ store' = [store EXCEPT ![w] = Emptied(@, panesToRemove)]
     /\ UNCHANGED <<job, source, pending, owner, target, transit, done, moves>>

\* Active windows go with their panes.
WindowsOf(w, ks) == Restrict(index[w], {e \in DOMAIN index[w] : e[1] \in ks})

FetchMetadataForMigration(w, dst) ==
  LET es == WindowsOf(w, Leaving(w, dst))
  IN /\ ~ Lazy /\ dst \in Destinations(w)
     /\ Send(w, {Message(w, dst, es)})
     /\ index' = [index EXCEPT ![w] = Remove(@, DOMAIN es)]
     /\ UNCHANGED <<job, source, pending, wm, target, store, done, fired, counted, moves>>

InsertMigratedMetadata(m) ==
  /\ ~ Lazy /\ Receive(m)
  /\ index' = [index EXCEPT ![m.dst] = Add(@, m.entries)]
  /\ UNCHANGED <<job, source, pending, wm, target, done, fired, counted, moves>>

\* One message to each new owner.
ConstructFastForwardMetadata(w) ==
  LET es(dst) == WindowsOf(w, Leaving(w, dst))
  IN /\ Lazy
     /\ Send(w, {Message(w, dst, es(dst)) : dst \in Destinations(w)})
     /\ index' = [index EXCEPT ![w] =
                    Remove(@, UNION {DOMAIN es(dst) : dst \in Destinations(w)})]
     /\ UNCHANGED <<job, source, pending, wm, target, store, done, fired, counted, moves>>

FaultPanesOnly(m) ==
  /\ Lazy /\ Receive(m)
  /\ index' = [index EXCEPT ![m.dst] =
                 AddPane(@, UNION {PanesOf(m.entries, e) : e \in DOMAIN m.entries})]
  /\ UNCHANGED <<job, source, pending, wm, target, done, fired, counted, moves>>

ProcessFastForwardMetadata(m) ==
  /\ Lazy /\ Receive(m)
  /\ index' = [index EXCEPT ![m.dst] = Add(@, m.entries)]
  /\ UNCHANGED <<job, source, pending, wm, target, done, fired, counted, moves>>

Next ==
  \/ \E w \in Workers :
       \/ \E rs \in SUBSET pending : ProcessBatch(w, rs)
       \/ \E t \in Times : ProcessProgressedWatermark(w, t)
       \/ \E dst \in Workers : FetchMetadataForMigration(w, dst)
       \/ ConstructFastForwardMetadata(w)
  \/ \E m \in transit : InsertMigratedMetadata(m) \/ ProcessFastForwardMetadata(m)

-----------------------------------------------------------------------------
\* An active window has panes, none twice, and only its own.
WellFormed(e, attached) ==
  /\ attached # EmptyBag
  /\ \A p \in DOMAIN attached : attached[p] = 1 /\ e \in WindowsOfPane(<<e[1], p>>)

\* The record is in the result of each of its windows, or will be.
Secured(r, active, st) ==
  \A e \in WindowsOfPane(Pane(r)) :
    \/ <<e, r.id>> \in DOMAIN counted
    \/ Pane(r)[2] \in DOMAIN Panes(active, e) /\ r.id \in st[Pane(r)]

\* Slots with state that the active windows of a key call for.
Needed(active) == UNION {PanesOf(active, e) : e \in DOMAIN active}
=============================================================================
