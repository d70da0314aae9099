---------------------------- MODULE MCRingBuffer ----------------------------
(* Model-checking instance of RingBuffer: the constants are given in the   *)
(* configuration.                                                          *)
EXTENDS RingBuffer
=============================================================================
