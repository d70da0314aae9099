--------------------------- MODULE TumblingWindow ---------------------------
(***************************************************************************)
(* TumblingWindow: the windows of a key are [n * duration, (n+1) *         *)
(* duration).  A window is active, that is, in Index, from its first       *)
(* record until it fires; its state is with the state service under its    *)
(* key and start time.                                                     *)
(***************************************************************************)
EXTENDS EventTime, Functions

FaultWindowNumber(timestamp) == timestamp \div job.duration

getWindowStartTime(timestamp) == timestamp - (timestamp % job.duration)
Window(r) == <<r.key, getWindowStartTime(r.ts)>>

\* Index holds windows, without anything about them.
Add(ix, es) == [e \in DOMAIN ix \cup es |-> TRUE]
Remove(ix, es) == Restrict(ix, DOMAIN ix \ es)
GetWindowsToBeFired(ix, t) == {e \in DOMAIN ix : e[2] <= t - job.duration}

\* A window without state is new.
ProcessBatch(w, rs) ==
  LET new == {e \in {Window(r) : r \in rs} : store[w][e] = {}}
  IN /\ Take(w, rs)
     /\ index' = [index EXCEPT ![w] = Add(@, new)]
     /\ store' = [store EXCEPT ![w] = Filled(@, [r \in rs |-> Window(r)])]
     /\ UNCHANGED <<job, source, wm, owner, target, transit, fired, counted, moves>>

\* Every window that ends by t fires, and its state is deleted.
ProcessProgressedWatermark(w, t) ==
  LET closed == GetWindowsToBeFired(index[w], t)
  IN /\ Progressed(w, t)
     /\ fired' = fired \cup closed
     /\ counted' = counted (+) SetToBag(UNION {{e} \X store[w][e] : e \in closed})
     /\ index' = [index EXCEPT ![w] = Remove(@, closed)]
     /\ store' = [store EXCEPT ![w] = Emptied(@, closed)]
     /\ UNCHANGED <<job, source, pending, owner, target, transit, done, moves>>

WindowsOf(w, ks) == {e \in DOMAIN index[w] : e[1] \in ks}

FetchMetadataForMigration(w, dst) ==
  LET es == WindowsOf(w, Leaving(w, dst))
  IN /\ ~ Lazy /\ dst \in Destinations(w)
     /\ Send(w, {Message(w, dst, [e \in es |-> TRUE])})
     /\ index' = [index EXCEPT ![w] = Remove(@, es)]
     /\ UNCHANGED <<job, source, pending, wm, target, store, done, fired, counted, moves>>

InsertMigratedMetadata(m) ==
  /\ ~ Lazy /\ Receive(m)
  /\ index' = [index EXCEPT ![m.dst] = Add(@, DOMAIN m.entries)]
  /\ UNCHANGED <<job, source, pending, wm, target, done, fired, counted, moves>>

\* One message to each new owner.
ConstructFastForwardMetadata(w) ==
  LET es(dst) == WindowsOf(w, Leaving(w, dst))
  IN /\ Lazy
     /\ Send(w, {Message(w, dst, [e \in es(dst) |-> TRUE]) : dst \in Destinations(w)})
     /\ index' = [index EXCEPT ![w] = Remove(@, UNION {es(dst) : dst \in Destinations(w)})]
     /\ UNCHANGED <<job, source, pending, wm, target, store, done, fired, counted, moves>>

ProcessFastForwardMetadata(m) ==
  /\ Lazy /\ Receive(m)
  /\ index' = [index EXCEPT ![m.dst] = Add(@, DOMAIN m.entries)]
  /\ UNCHANGED <<job, source, pending, wm, target, done, fired, counted, moves>>

Next ==
  \/ \E w \in Workers :
       \/ \E rs \in SUBSET pending : ProcessBatch(w, rs)
       \/ \E t \in Times : ProcessProgressedWatermark(w, t)
       \/ \E dst \in Workers : FetchMetadataForMigration(w, dst)
       \/ ConstructFastForwardMetadata(w)
  \/ \E m \in transit : InsertMigratedMetadata(m) \/ ProcessFastForwardMetadata(m)

-----------------------------------------------------------------------------
\* Active windows are windows, with nothing attached.
WellFormed(e, attached) == e[2] % job.duration = 0 /\ attached

\* The record is in its window's result, or will be.
Secured(r, active, st) ==
  \/ <<Window(r), r.id>> \in DOMAIN counted
  \/ Window(r) \in DOMAIN active /\ r.id \in st[Window(r)]

\* Slots with state that the active windows of a key call for.
Needed(active) == DOMAIN active
=============================================================================
