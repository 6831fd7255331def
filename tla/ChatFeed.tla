------------------------------ MODULE ChatFeed ------------------------------
(***************************************************************************)
(* What a message list promises its callers, without sections, rounding or *)
(* loops: a flat feed of messages, in the order they were handed over, and *)
(* the position of one seen badge.  A call takes effect at once, later,    *)
(* when the list is applied to the screen.                                 *)
(***************************************************************************)
EXTENDS Integers, Sequences

CONSTANT Lists   \* message lists a caller may hand over

VARIABLES
  feed,     \* the contents of the displayed messages, in order
  badge,    \* the position of the seen badge, 0 for none
  pending   \* <<>>, or the list of the call in progress and its result

vars == <<feed, badge, pending>>

ContentsOf(list) ==
  [k \in DOMAIN list |-> [origin |-> list[k].origin, userId |-> list[k].userId,
                          date |-> list[k].date]]

\* The position of the last seen message of list, counted from offset; none
\* when no message of it is seen.
LastSeenFrom(list, offset, none) ==
  LET seen == {k \in DOMAIN list : list[k].seen}
  IN  IF seen = {} THEN none
      ELSE offset + (CHOOSE k \in seen : \A l \in seen : l <= k)

Init == feed = <<>> /\ badge = 0 /\ pending = <<>>

\* The displayed messages stay and list follows them; the badge moves only for
\* a seen message of list.
Extend(list) ==
  /\ pending = <<>>
  /\ Len(feed) + Len(list) > 0
  /\ pending' = <<[feed  |-> feed \o ContentsOf(list),
                   badge |-> LastSeenFrom(list, Len(feed), badge),
                   list  |-> list]>>
  /\ UNCHANGED <<feed, badge>>

\* list replaces the displayed messages.
Replace(list) ==
  /\ pending = <<>>
  /\ list # <<>>
  /\ pending' = <<[feed  |-> ContentsOf(list),
                   badge |-> LastSeenFrom(list, 0, 0),
                   list  |-> list]>>
  /\ UNCHANGED <<feed, badge>>

Erase ==
  /\ pending = <<>>
  /\ feed' = <<>>
  /\ badge' = 0
  /\ UNCHANGED pending

Display ==
  /\ pending # <<>>
  /\ feed' = pending[1].feed
  /\ badge' = pending[1].badge
  /\ pending' = <<>>

Next ==
  \/ \E list \in Lists : Extend(list) \/ Replace(list)
  \/ Erase
  \/ Display

Spec == Init /\ [][Next]_vars
=============================================================================
