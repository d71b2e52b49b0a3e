--------------------------- MODULE MCConcurrency ---------------------------
(* Instantiates Concurrency for TLC: the constants are given in the .cfg.  *)
EXTENDS Concurrency, TLC

=============================================================================
