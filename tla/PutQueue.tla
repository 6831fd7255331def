------------------------------ MODULE PutQueue ------------------------------
(***************************************************************************)
(* What the connection promises about puts: each one reaches the server,   *)
(* for the first time in the order of the calls and possibly again later;  *)
(* it completes once, after it reached the server, and in the order of     *)
(* the calls.  Modules Conversation and Channels rely on it.               *)
(***************************************************************************)
EXTENDS Integers, Sequences

CONSTANT MaxPuts   \* bound, a natural number: puts in all

VARIABLES
  issued,      \* puts asked for: 1 .. issued
  arrived,     \* the set of puts the server has seen
  completed    \* the puts whose completion ran, in that order

vars == <<issued, arrived, completed>>

UpTo(n) == [k \in 1 .. n |-> k]

Init == issued = 0 /\ arrived = {} /\ completed = <<>>

Issue == issued < MaxPuts /\ issued' = issued + 1 /\ UNCHANGED <<arrived, completed>>

\* The next one arrives; one that is sent again changes nothing.
Arrive ==
  \E i \in 1 .. issued :
    /\ i \notin arrived
    /\ arrived = 1 .. i - 1
    /\ arrived' = arrived \cup {i}
    /\ UNCHANGED <<issued, completed>>

\* One or several completions, which waited for the same answer, run in order.
Complete ==
  \E i \in arrived :
    /\ i > Len(completed)
    /\ completed' = UpTo(i)
    /\ UNCHANGED <<issued, arrived>>

Next == Issue \/ Arrive \/ Complete

\* What may happen, and with what must.
SafeSpec == Init /\ [][Next]_vars
Spec == SafeSpec /\ WF_vars(Arrive) /\ WF_vars(Complete)
=============================================================================
