--------------------------- MODULE MCTimelineReads ---------------------------
(* Small instances of TimelineReads for TLC. *)
EXTENDS TimelineReads

\* The last entry is the latest, insertTweet put it at the end; two have one date.
DatesOfPlaces == [p \in 1 .. MaxLength |-> IF p = MaxLength THEN 2 * MaxLength ELSE MaxLength - p \div 2]

Symmetry == Permutations(Pool)
=============================================================================
