--------------------------- MODULE MCRateLimiter ---------------------------
(* Small instances of RateLimiter for TLC.                                 *)
EXTENDS RateLimiter, TLC

CONSTANTS k1, k2, k3, t1, t2

\* Keys and threads are interchangeable.
Symmetric == Permutations(Key) \cup Permutations(Task)

=============================================================================
