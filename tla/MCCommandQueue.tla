--------------------------- MODULE MCCommandQueue ---------------------------
(* A small instance of CommandQueue for TLC. *)
EXTENDS CommandQueue, TLC

\* The workers are interchangeable.
Symmetry == Permutations(Workers)
=============================================================================
