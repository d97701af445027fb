----------------------------- MODULE MCQkdlPool -----------------------------
(* Small instances of QkdlPool for TLC. *)
EXTENDS QkdlPool, TLC

SessionSymmetry == Permutations(Session)
=============================================================================
