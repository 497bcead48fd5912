--------------------------- MODULE MCLocalPassport ---------------------------
(* Small values for LocalPassport. *)
EXTENDS LocalPassport, TLC

Symmetry == Permutations(Threads)

=============================================================================
