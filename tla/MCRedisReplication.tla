------------------------ MODULE MCRedisReplication ------------------------
(* Instances of RedisReplication for TLC.                                  *)
EXTENDS RedisReplication

CONSTANTS A, B, C

=============================================================================
