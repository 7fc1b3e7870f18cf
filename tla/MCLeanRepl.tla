---- MODULE MCLeanRepl ----
(* Small instances of LeanRepl for TLC. *)
EXTENDS LeanRepl, TLC
Symm == Permutations(Calls)
====
