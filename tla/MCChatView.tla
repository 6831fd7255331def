----------------------------- MODULE MCChatView -----------------------------
(***************************************************************************)
(* Bounded instances of ChatView.  Dates are in half hours: 0 and 5 are    *)
(* two whole hours apart (one run), 5 and 8 one hour, 0 and 8 four.        *)
(***************************************************************************)
EXTENDS ChatView, SequencesExt

MCUsers == {"me", "ann", "bob"}
MCDates == {0, 5, 8}

\* Messages as Message.init makes them: incoming ones are always seen.
Incoming(u, t) == [origin |-> "incoming", userId |-> u, date |-> t,
                   seen |-> TRUE, corners |-> "basic"]
Outgoing(t, s) == [origin |-> "outgoing", userId |-> "me", date |-> t,
                   seen |-> s, corners |-> "basic"]
Made == {Incoming("ann", t) : t \in MCDates} \cup {Incoming("bob", 5)}
          \cup {Outgoing(t, s) : t \in {0, 8}, s \in BOOLEAN}

\* Any list of up to two messages: what a caller of the public API may pass.
AnyBatches == SeqOf(Made, 2)

\* What Backend.getMessages hands over: non-empty, all seen, in order of date.
SortedBatches ==
  {b \in SeqOf({m \in Made : m.seen}, 3) :
     /\ b # <<>>
     /\ \A k \in 1 .. Len(b) - 1 : b[k].date <= b[k + 1].date}
=============================================================================
