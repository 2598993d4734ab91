--------------------------- MODULE MCRegistration ---------------------------
(* Small instances of Registration for TLC. *)
EXTENDS Registration, TLC

Symmetry == Permutations(Nodes) \cup Permutations(Visitors)
=============================================================================
