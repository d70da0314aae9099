------------------------------ MODULE Channel ------------------------------
(***************************************************************************)
(* What a data channel between two tasks promises: the work units that the *)
(* network routine puts in come out once each, in the order they went in,  *)
(* and never more than Capacity of them wait in between.  Work units are   *)
(* numbered 1, 2, 3, ... in the order in which they are put.               *)
(***************************************************************************)
EXTENDS Naturals, Sequences

CONSTANT Capacity

VARIABLES queue,     \* numbers of the work units that wait, oldest first
          produced,  \* how many work units were put
          taken      \* how many work units were taken

chanVars == <<queue, produced, taken>>

Init == queue = <<>> /\ produced = 0 /\ taken = 0

Put == /\ Len(queue) < Capacity
       /\ queue' = Append(queue, produced + 1)
       /\ produced' = produced + 1
       /\ UNCHANGED taken

Take == /\ queue # <<>>
        /\ Head(queue) = taken + 1
        /\ queue' = Tail(queue)
        /\ taken' = taken + 1
        /\ UNCHANGED produced

Next == Put \/ Take

Spec == Init /\ [][Next]_chanVars
=============================================================================
