----------------------------- MODULE MCRedisDict -----------------------------
(* A small instance of the dictionary for TLC.                             *)
EXTENDS RedisDict, TLC

CONSTANTS k1, k2, k3, k4

FourKeys == {k1, k2, k3, k4}

\* Three hashes meet in a table of two buckets, two of them in one of four.
SomeHashes == k1 :> 0 @@ k2 :> 4 @@ k3 :> 6 @@ k4 :> 3

=============================================================================
