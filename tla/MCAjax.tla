------------------------------- MODULE MCAjax -------------------------------
EXTENDS Ajax

\* Each way to travel, and one that handlers of global events do not hear of.
MCSettings == [via : Vias, global : {TRUE}] \cup {[via |-> "async", global |-> FALSE]}
=============================================================================
