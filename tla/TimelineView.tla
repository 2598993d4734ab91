---------------------------- MODULE TimelineView ----------------------------
(***************************************************************************)
(* One reader's timeline while the commands that change it run one after   *)
(* the other: what insertTweet, the merge of StartFollowingCommand and the *)
(* removal of StopFollowingCommand make of it over a long history.  What   *)
(* happens when they run together is the subject of Tweeting.              *)
(***************************************************************************)
EXTENDS TimelineLists, FiniteSets

CONSTANTS
    Authors,        \* the people the reader may follow
    RecentLimit,    \* tweets getRecentTweets asks for (20)
    MaxIndex        \* bound: indexes of one author

ASSUME ViewAssumption == RecentLimit \in Nat \ {0} /\ MaxIndex \in Nat

VARIABLES
    list,           \* the timeline
    following,      \* whom the reader follows
    last,           \* lastTweet of each author
    tweets,         \* the tweets stored
    clock,
    due,            \* history: what the reader should see
    cut             \* history: a merge was stopped by the limit
viewVars == <<list, following, last, tweets, clock, due, cut>>

ViewInit ==
    /\ list = <<>> /\ following = {} /\ last = [a \in Authors |-> 0]
    /\ tweets = {} /\ clock = 1 /\ due = {} /\ cut = FALSE

\* getRecentTweets: the author's tweets from the last index down, without those that are
\* not stored.
StoredAs(a, idx) == {e \in tweets : e.author = a /\ e.idx = idx}
ReadNext(a, found, idx) ==
    IF Len(found) >= RecentLimit \/ StoredAs(a, idx) = {} THEN found
    ELSE Append(found, CHOOSE e \in StoredAs(a, idx) : TRUE)
Downward(n) == [i \in 1 .. n |-> n + 1 - i]
Read(a, indexes) == FoldLeft(LAMBDA found, idx : ReadNext(a, found, idx), <<>>, indexes)
Recent(a) == Read(a, Downward(last[a]))

Written(a, date) == [author |-> a, idx |-> last[a] + 1, date |-> date]

\* A tweet whose delivery to the reader is done.
Tweet(a) ==
    /\ last[a] < MaxIndex
    /\ \E date \in (clock - 1) .. (clock + 1) :
         LET t == Written(a, date) IN
         /\ clock' = IF date > clock THEN date ELSE clock
         /\ tweets' = tweets \cup {t}
         /\ IF a \in following
              THEN list' = InsertTweet(list, t) /\ due' = due \cup {t}
              ELSE UNCHANGED <<list, due>>
    /\ last' = [last EXCEPT ![a] = @ + 1]
    /\ UNCHANGED <<following, cut>>

\* An index whose tweet could not be stored.
IndexLost(a) ==
    /\ last[a] < MaxIndex
    /\ last' = [last EXCEPT ![a] = @ + 1]
    /\ UNCHANGED <<list, following, tweets, clock, due, cut>>

\* StartFollowingCommand, run for the first time or again.
StartFollowing(a) ==
    /\ following' = following \cup {a}
    /\ list' = Merge(list, Recent(a))
    /\ due' = due \cup ToSet(Recent(a))
    /\ cut' = (cut \/ MergeLoop(list, Recent(a)).full)
    /\ UNCHANGED <<last, tweets, clock>>

StopFollowing(a) ==
    /\ following' = following \ {a}
    /\ list' = RemoveAuthor(list, a)
    /\ due' = {e \in due : e.author # a}
    /\ UNCHANGED <<last, tweets, clock, cut>>

ViewNext ==
    \E a \in Authors : Tweet(a) \/ IndexLost(a) \/ StartFollowing(a) \/ StopFollowing(a)

ViewSpec == ViewInit /\ [][ViewNext]_viewVars

-----------------------------------------------------------------------------
\* "This part of the command already got executed, so skip it": a start-following command
\* that is run again changes nothing, unless the limit stopped it: then the second run
\* may add what the first left out (StartFollowingCommand).
RunAgainBelowLimit ==
    \A a \in Authors :
        LET merged == Merge(list, Recent(a)) IN
        MergeLoop(list, Recent(a)).full \/ Merge(merged, Recent(a)) = merged

\* A command never swaps two entries that stay, and a tweet later than all that is shown
\* comes first (insertTweet, the merge, the removal).
OrderKept ==
    [][/\ \A d, e \in ToSet(list) \cap ToSet(list') :
            Precedes(list, d, e) => Precedes(list', d, e)
       /\ \A t \in (tweets' \ tweets) \cap ToSet(list') :
            (\A d \in ToSet(list) : d.date < t.date) => list'[1] = t]_viewVars

\* The reader sees no tweet twice, nothing but what the people followed have tweeted since
\* and their recent tweets ("tweets of all the users that this user is following",
\* getFriendsTimeline), and all of it as long as no merge was stopped by the limit.
ShowsWhatIsDue ==
    IsInjective(list) /\ ToSet(list) \subseteq due /\ (cut \/ ToSet(list) = due)
=============================================================================
