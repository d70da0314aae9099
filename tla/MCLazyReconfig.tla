--------------------------- MODULE MCLazyReconfig ---------------------------
(***************************************************************************)
(* Small instances of LazyReconfig.  The workers and keys are model values *)
(* so that an initial partition can be written down; the upstream tasks    *)
(* are interchangeable.                                                    *)
(***************************************************************************)
EXTENDS LazyReconfig, TLC

CONSTANTS u1, u2, w1, w2, w3, k1, k2

\* One task owns every key: only a scale-up can follow.
OneOwner == [k \in Keys |-> w1]

\* Two tasks with a key each: a scale-up or a scale-down can follow.
TwoOwners == [k \in Keys |-> IF k = k1 THEN w1 ELSE w2]

UpstreamSymmetry == Permutations(Upstreams)
=============================================================================
