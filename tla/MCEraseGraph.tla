----------------------------- MODULE MCEraseGraph -----------------------------
(* One request through the whole workflow.                                  *)
EXTENDS EraseGraph, TLC

CONSTANTS b1, b2, primary, cache

MCReplicas == {b1, b2}
Symmetry == Permutations(MCReplicas)
=============================================================================
