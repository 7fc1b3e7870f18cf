------------------------------- MODULE MCExam -------------------------------
(* Small instances of Exam for TLC. *)
EXTENDS Exam, TLC

\* No row is told apart from another.
RowSymmetry == Permutations(Rows)
=============================================================================
