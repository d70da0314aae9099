---------------------------- MODULE KeyOwnership ----------------------------
(***************************************************************************)
(* What a reconfiguration promises to the keyed state: at any moment a key *)
(* is owned by one worker or is moving, only its owner processes its       *)
(* records, and every record is processed at most once and stays in flight *)
(* until then.  How ownership moves and how records find their owner is    *)
(* left open.                                                              *)
(***************************************************************************)
CONSTANTS Workers, Keys, Records,
          Moving     \* not a worker

VARIABLES owner,     \* the worker that owns each key, or Moving
          inFlight,  \* records emitted and not processed
          done       \* records processed

vars == <<owner, inFlight, done>>

Init ==
  /\ owner \in [Keys -> Workers]
  /\ inFlight = {} /\ done = {}

Emit(r) ==
  /\ r \notin inFlight \cup done
  /\ inFlight' = inFlight \cup {r}
  /\ UNCHANGED <<owner, done>>

Process(w, rs) ==
  /\ rs \subseteq inFlight
  /\ \A r \in rs : owner[r.key] = w
  /\ inFlight' = inFlight \ rs
  /\ done' = done \cup rs
  /\ UNCHANGED owner

Release(w, ks) ==
  /\ \A k \in ks : owner[k] = w
  /\ owner' = [k \in Keys |-> IF k \in ks THEN Moving ELSE owner[k]]
  /\ UNCHANGED <<inFlight, done>>

Acquire(w, ks) ==
  /\ \A k \in ks : owner[k] = Moving
  /\ owner' = [k \in Keys |-> IF k \in ks THEN w ELSE owner[k]]
  /\ UNCHANGED <<inFlight, done>>

Next ==
  \/ \E r \in Records : Emit(r)
  \/ \E w \in Workers : \/ \E rs \in SUBSET inFlight : Process(w, rs)
                        \/ \E ks \in SUBSET Keys : Release(w, ks) \/ Acquire(w, ks)

Spec == Init /\ [][Next]_vars
=============================================================================
