---------------------------- MODULE MessageBoard ----------------------------
(***************************************************************************)
(* What a conversation promises the people in it, without connections,     *)
(* caches or queues: everyone writes to one shared board that only grows;  *)
(* a message is in its writer's outbox until it is on the board, and is    *)
(* lost only with the writer's app; a screen shows messages of the board   *)
(* and of its own outbox, and never takes back what it shows.              *)
(***************************************************************************)
EXTENDS Integers

CONSTANTS Devices, Messages

VARIABLES
  board,    \* the messages everybody can read
  outbox,   \* for each device, what it wrote and the board does not have yet
  screen    \* for each device, the messages on its screen

vars == <<board, outbox, screen>>

Init ==
  /\ board = {}
  /\ outbox = [d \in Devices |-> {}]
  /\ screen = [d \in Devices |-> {}]

Write(d, m) ==
  /\ m \notin board
  /\ \A e \in Devices : m \notin outbox[e]
  /\ outbox' = [outbox EXCEPT ![d] = @ \cup {m}]
  /\ UNCHANGED <<board, screen>>

Publish(d, m) ==
  /\ m \in outbox[d]
  /\ board' = board \cup {m}
  /\ outbox' = [outbox EXCEPT ![d] = @ \ {m}]
  /\ UNCHANGED screen

Show(d) ==
  \E more \in SUBSET (board \cup outbox[d]) :
    /\ screen' = [screen EXCEPT ![d] = @ \cup more]
    /\ UNCHANGED <<board, outbox>>

Leave(d) ==
  /\ screen' = [screen EXCEPT ![d] = {}]
  /\ UNCHANGED <<board, outbox>>

\* The app ends: its screen and what only it knew are gone.
End(d) ==
  /\ screen' = [screen EXCEPT ![d] = {}]
  /\ outbox' = [outbox EXCEPT ![d] = {}]
  /\ UNCHANGED board

Next ==
  \E d \in Devices :
    \/ \E m \in Messages : Write(d, m) \/ Publish(d, m)
    \/ Show(d)
    \/ Leave(d)
    \/ End(d)

Spec == Init /\ [][Next]_vars
=============================================================================
