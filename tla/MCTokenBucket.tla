---------------------------- MODULE MCTokenBucket ----------------------------
(* Small instances of TokenBucket for TLC. *)
EXTENDS TokenBucket

SomeRates == -1 .. 2
=============================================================================
