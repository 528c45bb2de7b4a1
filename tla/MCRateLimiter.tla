---------------------------- MODULE MCRateLimiter ----------------------------
(* RateLimiter on a small instance. *)
EXTENDS RateLimiter, TLC

CONSTANTS t1, t2

TwoThreads == {t1, t2}

AnyThread == Permutations(Threads)
==============================================================================
