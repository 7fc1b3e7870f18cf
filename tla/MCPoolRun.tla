---- MODULE MCPoolRun ----
(* Small instances of PoolRun for TLC. *)
EXTENDS PoolRun, TLC
KeySymmetry == Permutations(Keys)
====
