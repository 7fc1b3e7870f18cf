----------------------------- MODULE MCPoolSlot -----------------------------
(* Small instances of PoolSlot for TLC. *)
EXTENDS PoolSlot, TLC
SlotSymmetry == Permutations(Parents) \cup Permutations(Signatures)
=============================================================================
