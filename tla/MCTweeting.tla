----------------------------- MODULE MCTweeting -----------------------------
(* Small instances of Tweeting for TLC. *)
EXTENDS Tweeting

CONSTANTS a, b      \* two accounts

\* Callers are interchangeable, and so are the accounts while nobody follows anybody.
Symmetry == Permutations(Callers)
SymmetryOfUsers == Symmetry \cup Permutations(Users)

NoPairs == {}
BFollowsA == {<<b, a>>}
=============================================================================
