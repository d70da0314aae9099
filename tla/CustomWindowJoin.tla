-------------------------- MODULE CustomWindowJoin --------------------------
(***************************************************************************)
(* CustomWindowJoin: two inputs, a state for each, timers by key and a     *)
(* user-defined function when one expires.  The functions are those of     *)
(* Nexmark query 8: a record of input 1 (a person) is stored and registers *)
(* a timer, the records of input 2 (auctions) are listed, and OnTimer      *)
(* looks at the list and clears both.                                      *)
(***************************************************************************)
EXTENDS EventTime, Functions

\* ActiveTimers holds timers, without anything about them.
add(ix, es) == [e \in DOMAIN ix \cup es |-> TRUE]
remove(ix, es) == Restrict(ix, DOMAIN ix \ es)

getExpiredTimers(ix, t) == {e \in DOMAIN ix : e[2] <= t}

\* The two states of a key.
State(k, i) == <<k, i>>
RegisterTimer(r) == <<r.key, r.ts + job.duration>>

\* F1 sets its state: the last record of the batch stays.
F1(w, rs) ==
  /\ index' = [index EXCEPT ![w] = add(@, {RegisterTimer(r) : r \in rs})]
  /\ \E last \in [{r.key : r \in rs} -> rs] :
       /\ \A k \in DOMAIN last : last[k].key = k
       /\ store' = [store EXCEPT ![w] = [x \in DOMAIN @ |->
                      IF x[2] = 1 /\ x[1] \in DOMAIN last THEN {last[x[1]].id} ELSE @[x]]]

\* F2 adds to its list.
F2(w, rs) ==
  /\ store' = [store EXCEPT ![w] = Filled(@, [r \in rs |-> State(r.key, 2)])]
  /\ UNCHANGED index

ProcessBatch(w, rs) ==
  /\ Take(w, rs)
  /\ \/ (\A r \in rs : r.input = 1) /\ F1(w, rs)
     \/ (\A r \in rs : r.input = 2) /\ F2(w, rs)
  /\ UNCHANGED <<job, source, wm, owner, target, transit, fired, counted, moves>>

\* OnTimer of every expired timer.  Clear takes effect when the batch is
\* flushed, so all timers of a key see the same state.
ProcessProgressedWatermark(w, t) ==
  LET expired == getExpiredTimers(index[w], t)
      cleared == UNION {{State(e[1], 1), State(e[1], 2)} : e \in expired}
  IN /\ Progressed(w, t)
     /\ fired' = fired \cup expired
     /\ counted' = counted (+) SetToBag(UNION {{e} \X store[w][State(e[1], 2)] : e \in expired})
     /\ index' = [index EXCEPT ![w] = remove(@, expired)]
     /\ store' = [store EXCEPT ![w] = Emptied(@, cleared)]
     /\ UNCHANGED <<job, source, pending, owner, target, transit, done, moves>>

TimersOf(w, ks) == {e \in DOMAIN index[w] : e[1] \in ks}

FetchMetadataForMigration(w, dst) ==
  LET es == TimersOf(w, Leaving(w, dst))
  IN /\ ~ Lazy /\ dst \in Destinations(w)
     /\ Send(w, {Message(w, dst, [e \in es |-> TRUE])})
     /\ index' = [index EXCEPT ![w] = remove(@, es)]
     /\ UNCHANGED <<job, source, pending, wm, target, store, done, fired, counted, moves>>

InsertMigratedMetadata(m) ==
  /\ ~ Lazy /\ Receive(m)
  /\ index' = [index EXCEPT ![m.dst] = add(@, DOMAIN m.entries)]
  /\ UNCHANGED <<job, source, pending, wm, target, done, fired, counted, moves>>

FaultTimersStay(w) ==
  LET es(dst) == TimersOf(w, Leaving(w, dst))
  IN /\ Lazy
     /\ Send(w, {Message(w, dst, [e \in es(dst) |-> TRUE]) : dst \in Destinations(w)})
     /\ UNCHANGED <<job, source, pending, wm, target, index, store, done, fired, counted, moves>>

\* One message to each new owner.
ConstructFastForwardMetadata(w) ==
  LET es(dst) == TimersOf(w, Leaving(w, dst))
  IN /\ Lazy
     /\ Send(w, {Message(w, dst, [e \in es(dst) |-> TRUE]) : dst \in Destinations(w)})
     /\ index' = [index EXCEPT ![w] = remove(@, UNION {es(dst) : dst \in Destinations(w)})]
     /\ UNCHANGED <<job, source, pending, wm, target, store, done, fired, counted, moves>>

ProcessFastForwardMetadata(m) ==
  /\ Lazy /\ Receive(m)
  /\ index' = [index EXCEPT ![m.dst] = add(@, DOMAIN m.entries)]
  /\ UNCHANGED <<job, source, pending, wm, target, done, fired, counted, moves>>

Next ==
  \/ \E w \in Workers :
       \/ \E rs \in SUBSET pending : ProcessBatch(w, rs)
       \/ \E t \in Times : ProcessProgressedWatermark(w, t)
       \/ \E dst \in Workers : FetchMetadataForMigration(w, dst)
       \/ ConstructFastForwardMetadata(w)
  \/ \E m \in transit : InsertMigratedMetadata(m) \/ ProcessFastForwardMetadata(m)

-----------------------------------------------------------------------------
\* A timer is after the duration, with nothing attached.
WellFormed(e, attached) == e[2] >= job.duration /\ attached

\* The timer of a record of input 1 has expired or is active; a record of input 2
\* was seen by a timer or is still in the list.
Secured(r, active, st) ==
  IF r.input = 1 THEN RegisterTimer(r) \in fired \cup DOMAIN active
  ELSE \/ r.id \in st[State(r.key, 2)]
       \/ \E x \in DOMAIN counted : x[2] = r.id
=============================================================================
