---------------------------- MODULE MCCoordinator ----------------------------
(* Model values for the coordinator among its most general environment.    *)
EXTENDS Coordinator, TLC

CONSTANTS b1, b2, cache

Symmetry == Permutations(Replicas)

\* A fast worker with two final words, which may contradict each other and come
\* in any order, and an analytics worker that succeeds.  Retries, skips and
\* duplicates come with the real cache worker, in EraseGraph.
MCVocabulary ==
  [s \in Steps |-> IF s = cache THEN {"DeletionStepSucceeded", "DeletionStepFailed"}
                   ELSE {"DeletionStepSucceeded"}]
=============================================================================
