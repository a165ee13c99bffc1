----------------------------- MODULE MCAttestation -----------------------------
(* A handful of proof events of one request, and a reader.  *)
EXTENDS Attestation, TLC

CONSTANTS b1, b2, k1, k2

Symmetry == Permutations(Replicas)
=============================================================================
