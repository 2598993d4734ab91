--------------------------- MODULE MCTimelineView ---------------------------
(* Small instances of TimelineView for TLC. *)
EXTENDS TimelineView

CONSTANTS a, b      \* two authors

\* No author's name begins with another's and a dash.
Plain == {}
=============================================================================
