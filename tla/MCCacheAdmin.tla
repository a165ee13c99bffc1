----------------------------- MODULE MCCacheAdmin -----------------------------
(* The cache worker with up to two requests, alone or with an operator.     *)
EXTENDS CacheAdmin, TLC

CONSTANTS q1, q2

MCRequests == {q1, q2}
Symmetry == Permutations(MCRequests)
=============================================================================
