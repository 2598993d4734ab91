----------------------------- MODULE TweetBoard -----------------------------
(***************************************************************************)
(* What TweetService promises of tweets and timelines, with no stores,     *)
(* versions, commands, threads or crashes: a board of tweets that only     *)
(* grows and never has two under one id, tweets acknowledged to who wrote  *)
(* them, and for each reader a line of tweets of the board.  A line takes  *)
(* in tweets of one author at a time, or loses all that an author has in   *)
(* it, and never changes the order of what stays.                          *)
(***************************************************************************)
EXTENDS Naturals, Sequences

CONSTANTS Tweets,    \* records with an author and an idx
          Authors,
          Readers,   \* those who have a line
          Extends    \* pairs <<a, b>>: who drops a drops b as well

VARIABLES board,     \* the tweets there are
          acked,     \* those that were acknowledged
          line       \* what each reader is shown, a sequence
boardVars == <<board, acked, line>>

Shown(l) == {l[i] : i \in DOMAIN l}
Before(l, d, e) == \E i, j \in DOMAIN l : i < j /\ l[i] = d /\ l[j] = e

\* What was shown in an order and still is, is still shown in that order.
InOrder(old, new) ==
    \A d, e \in Shown(new) : Before(old, d, e) => Before(new, d, e)

Init == /\ board = {} /\ acked = {}
        /\ line = [u \in Readers |-> <<>>]

Post == /\ \E e \in board' \ board :
             /\ e \in Tweets
             /\ \A d \in board : d.author # e.author \/ d.idx # e.idx
             /\ board' = board \cup {e}
        /\ UNCHANGED <<acked, line>>

Acknowledge == /\ \E e \in board : acked' = acked \cup {e}
               /\ UNCHANGED <<board, line>>

\* Only the line of u changes.
Only(u) == line' = [line EXCEPT ![u] = line'[u]]

Show(u, a) == /\ Only(u) /\ InOrder(line[u], line'[u])
              /\ Shown(line[u]) \subseteq Shown(line'[u])
              /\ \A e \in Shown(line'[u]) \ Shown(line[u]) : e \in board /\ e.author = a
              /\ UNCHANGED <<board, acked>>

Drop(u, a) == /\ Only(u) /\ InOrder(line[u], line'[u])
              /\ Shown(line'[u]) = {e \in Shown(line[u]) : /\ e.author # a
                                                           /\ <<a, e.author>> \notin Extends}
              /\ UNCHANGED <<board, acked>>

Next == \/ Post \/ Acknowledge
        \/ \E u \in Readers, a \in Authors : Show(u, a) \/ Drop(u, a)

Spec == Init /\ [][Next]_boardVars
=============================================================================
