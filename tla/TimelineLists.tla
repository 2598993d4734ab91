--------------------------- MODULE TimelineLists ---------------------------
(***************************************************************************)
(* How a timeline, a list of "<author>-<index>:<date>", is changed: by the *)
(* insertTweet of TweetCommand, by the merge of StartFollowingCommand and  *)
(* by the removal of StopFollowingCommand.  An entry is a record of its    *)
(* author, index and date; the first entry of a list is meant to be the    *)
(* newest.                                                                 *)
(***************************************************************************)
EXTENDS Integers, Sequences, SequencesExt

CONSTANTS MaxInTimeline,    \* MAX_TWEETS_IN_TIMELINE (250)
          Extends           \* pairs <<a, b>> of names: b begins with a and a dash

ASSUME MaxAssumption == MaxInTimeline \in Nat \ {0}

\* insertTweet: the loop compares the new tweet with the first entry, whatever i is, and
\* so inserts in front or not at all.
InsertTweet(list, t) ==
    IF list # <<>> /\ list[1].date < t.date THEN <<t>> \o list ELSE Append(list, t)

-----------------------------------------------------------------------------
(* One pass of the merge's loop over the recent tweets; timelineIdx is at.      *)

PresentAhead(list, t) ==        \* variation: only the newest entry is looked at
    list # <<>> /\ list[1] = t
Present(list, t) == t \in ToSet(list)

\* The inner while loop stops at the first later entry, or at the end or the limit.
LaterFrom(list, at, t) ==
    {j \in (at + 1) .. Len(list) : j <= MaxInTimeline /\ list[j].date > t.date}

Place(m, t) ==
    IF m.full \/ Present(m.list, t) THEN m
    ELSE LET n     == Len(m.list)
             later == LaterFrom(m.list, m.at, t)
             pos   == IF later # {} THEN Min(later) ELSE Min({n, MaxInTimeline})
             fits  == later # {} \/ pos = n
         IN  [list |-> IF later # {} THEN InsertAt(m.list, pos, t)
                       ELSE IF fits THEN Append(m.list, t) ELSE m.list,
              at   |-> pos,
              full |-> pos = MaxInTimeline]

MergeSorted(list, recent) ==    \* variation: the whole list is sorted by date
    SetToSortSeq(ToSet(list) \cup ToSet(recent), LAMBDA s, t : s.date > t.date)

MergeLoop(list, recent) ==
    FoldLeft(Place, [list |-> list, at |-> 0, full |-> FALSE], recent)
Merge(list, recent) == MergeLoop(list, recent).list

RemoveNewest(list, author) ==   \* variation: stops after the first match
    RemoveFirstMatch(list, LAMBDA t : t.author = author)

\* An entry goes when its id begins with the author's name and a dash.
Named(author, t) == t.author = author \/ <<author, t.author>> \in Extends
Keep(author, kept, t) == IF Named(author, t) THEN kept ELSE Append(kept, t)
RemoveAuthor(list, author) ==
    FoldLeft(LAMBDA kept, t : Keep(author, kept, t), <<>>, list)

-----------------------------------------------------------------------------
\* d is shown before e.
Precedes(list, d, e) == \E i, j \in DOMAIN list : i < j /\ list[i] = d /\ list[j] = e
=============================================================================
