---------------------------- MODULE MCRedisMulti ----------------------------
(* RedisMulti on two clients and one key in each of two databases.         *)
EXTENDS RedisMulti, TLC

CONSTANTS c1, c2

ClientSymmetry == Permutations({c1, c2})
=============================================================================
