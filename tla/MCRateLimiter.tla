---------------------------- MODULE MCRateLimiter ----------------------------
(* Named threads and keys for the configurations of RateLimiter.             *)
EXTENDS RateLimiter, TLC

CONSTANTS t1, t2, t3, login, register

ThreadSymmetry == Permutations(Threads)
=============================================================================
