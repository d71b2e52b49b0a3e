---------------------------- MODULE MCRedisStore ----------------------------
(* Instantiates RedisStore for TLC: the constants are given in the .cfg.   *)
EXTENDS RedisStore, TLC

CallerSymmetry == Permutations(Callers)
=============================================================================
