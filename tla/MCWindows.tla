----------------------------- MODULE MCWindows ------------------------------
(***************************************************************************)
(* Instances of Windows for TLC.                                           *)
(***************************************************************************)
EXTENDS Windows, TLC

CONSTANTS w1, w2, w3, k1, k2

Identity == [k \in Keys |-> k]
Symmetric == Permutations(Workers)

\* Three records of one key, or two of two keys, with a delay of 1, while the
\* keys change hands.
Sized(op, s, p, returns, ks, n, r) ==
  [op |-> op, duration |-> 2, slide |-> s, protocol |-> p, returns |-> returns,
   delay |-> 1, keys |-> ks, records |-> n, rescales |-> r]

MCJobs ==
  {Sized("tumbling", 2, "lazy", TRUE, {k1}, 3, 2),
   Sized("tumbling", 2, "stop-and-restart", TRUE, {k1}, 3, 2),
   Sized("tumbling", 2, "stop-and-restart", FALSE, {k1}, 3, 1),
   Sized("sliding", 1, "lazy", TRUE, {k1}, 3, 2),
   Sized("sliding", 1, "lazy", TRUE, {k1, k2}, 2, 1),
   Sized("sliding", 1, "stop-and-restart", TRUE, {k1}, 3, 2),
   Sized("sliding", 1, "stop-and-restart", FALSE, {k1}, 3, 1),
   Sized("join", 2, "lazy", TRUE, {k1}, 3, 1),
   Sized("join", 2, "stop-and-restart", TRUE, {k1}, 2, 2)}
=============================================================================
