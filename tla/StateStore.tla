----------------------------- MODULE StateStore -----------------------------
(***************************************************************************)
(* What the state service promises to the operator tasks: one value per    *)
(* key of the operator, whichever backend holds it.  A task reads the      *)
(* current value of a key, and what it writes back replaces the value it   *)
(* read, with no other write in between.  State that moves between workers *)
(* moves without a trace.                                                  *)
(***************************************************************************)
CONSTANTS Workers, Keys, Values,
          Results,   \* what processing may make of each value
          None       \* not a value

VARIABLES kv,        \* the value of each key
          view       \* what each task read and has not written back

vars == <<kv, view>>

Init ==
  /\ kv \in [Keys -> Values]
  /\ view = [w \in Workers |-> [k \in Keys |-> None]]

Read(w, ks) ==
  /\ view' = [view EXCEPT ![w] = [k \in Keys |-> IF k \in ks THEN kv[k] ELSE @[k]]]
  /\ UNCHANGED kv

\* A write that ends the batch forgets the keys that were only read.
Write(w, ks) ==
  /\ \A k \in ks : view[w][k] = kv[k]
  /\ \A k \in Keys : IF k \in ks THEN kv'[k] \in Results[kv[k]] ELSE kv'[k] = kv[k]
  /\ kv' \in [Keys -> Values]
  /\ \E gone \in SUBSET Keys :
       view' = [view EXCEPT ![w] = [k \in Keys |-> IF k \in ks \cup gone THEN None ELSE @[k]]]

Next ==
  \E w \in Workers, ks \in SUBSET Keys : Read(w, ks) \/ Write(w, ks)

Spec == Init /\ [][Next]_vars
=============================================================================
