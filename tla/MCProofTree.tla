---------------------------- MODULE MCProofTree ----------------------------
(* Small instances of ProofTree for TLC: their states are model values. *)
EXTENDS ProofTree
=============================================================================
