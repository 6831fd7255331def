---------------------------- MODULE Conversation ----------------------------
(***************************************************************************)
(* One conversation, conversations/<id> in the database: the devices that  *)
(* have it open, their Firebase client and the server.                     *)
(*                                                                         *)
(* On every device, MessagesViewController.viewDidAppear registers an      *)
(* observer (Backend.getMessages) each time the screen appears, and        *)
(* Backend.sendMessage writes a new child of the node.  The Firebase       *)
(* client applies a write to its own view at once, keeps it until the      *)
(* server acknowledges it, sends listens and unacknowledged writes again   *)
(* after a reconnection, and raises value events on the main queue in      *)
(* order.  Disk persistence is off, so a write that was not acknowledged   *)
(* dies with the app.                                                      *)
(*                                                                         *)
(* Data abstraction.  A message is its child key (childByAutoId), its      *)
(* author and the date the author's clock gave it; write numbers the call  *)
(* of setValue, the index the client keeps the write under.                *)
(***************************************************************************)
EXTENDS Integers, Sequences, FiniteSets

CONSTANTS
  Devices,       \* devices, one user each
  Skew,          \* for each device, how far its clock is ahead (behind, if negative)
  MaxSends,      \* bound of the model: messages sent in all
  MaxDrops,      \* bound: connections lost in all
  MaxKills,      \* bound: apps killed in all
  MaxAppears,    \* bound: times a screen appears in all
  MaxObservers   \* bound: observers registered by one screen

ASSUME ConversationAssumption ==
  /\ Skew \in [Devices -> Int]
  /\ {MaxSends, MaxDrops, MaxKills, MaxAppears, MaxObservers} \subseteq Nat

VARIABLES
  stored,      \* the server's children of the node
  watching,    \* the server's listeners
  online,      \* is the device's connection up?
  toServer,    \* requests under way, one FIFO connection per device
  toClient,    \* answers and data updates under way
  sdk,         \* the Firebase client of each device
  mainQueue,   \* value events waiting on the main queue for the open screen
  open,        \* observers the open screen registered, 0 when none is open
  display,     \* the list the open screen shows
  acked,       \* history: writes whose setValue was acknowledged
  crashed,     \* history: has a chat view been given an empty list?
  sends, drops, kills, appears   \* counters the bounds are about

server   == <<stored, watching>>
network  == <<online, toServer, toClient>>
screens  == <<mainQueue, open, display, crashed>>
counters == <<sends, drops, kills, appears>>
vars == <<server, network, sdk, screens, acked, counters>>

-----------------------------------------------------------------------------
Message == [write : 1 .. MaxSends, key : 0 .. MaxSends, from : Devices, date : Int]

Listen    == [kind |-> "listen"]
Put(m)    == [kind |-> "put", msg |-> m]
Full(ms)  == [kind |-> "full", msgs |-> ms]
Update(m) == [kind |-> "update", msg |-> m]
Ack(m)    == [kind |-> "ack", msg |-> m]

FreshClient == [listening |-> FALSE, complete |-> FALSE, cache |-> {}, pending |-> <<>>]

\* A child replaces the child with the same key.
Store(children, m) == {c \in children : c.key # m.key} \cup {m}

\* The value of the node in the client's view: its copy of the server's
\* children, with the pending writes laid over them in order.
Value(client) ==
  LET p     == client.pending
      over  == {p[k] : k \in {k \in DOMAIN p : \A l \in DOMAIN p : l > k => p[l].key # p[k].key}}
      under == {c \in client.cache : \A m \in over : m.key # c.key}
  IN  under \cup over

\* Mutant of Raised: a write raises no event of its own (no latency compensation).
RaisedByServer(old, new, observers) ==
  IF new.complete /\ (~ old.complete \/ new.cache # old.cache)
    THEN [k \in 1 .. observers |-> Value(new)]
    ELSE <<>>

\* The value events a change of the client's view raises: one for each observer,
\* when the view becomes complete or its value changes.
Raised(old, new, observers) ==
  IF new.complete /\ (~ old.complete \/ Value(new) # Value(old))
    THEN [k \in 1 .. observers |-> Value(new)]
    ELSE <<>>

SetClient(d, new) ==
  /\ sdk' = [sdk EXCEPT ![d] = new]
  /\ mainQueue' = [mainQueue EXCEPT ![d] = @ \o Raised(sdk[d], new, open[d])]

\* Mutant of Request: sent without looking at the connection.
RequestAlways(d, r) == Append(toServer[d], r)

\* A request goes out at once when there is a connection; else it waits for
\* Restored.
Request(d, r) == IF online[d] THEN Append(toServer[d], r) ELSE toServer[d]

-----------------------------------------------------------------------------
(* The app.                                                                *)

\* Mutant of PushKey: setValue on the conversation's own path.
OwnPath(n) == 0

\* childByAutoId: a key no other write has.
PushKey(n) == n

\* Someone on another screen of the app (a cell of the conversation list, through
\* getConvoMessage) makes the client listen to the node.
ListenFromList(d) ==
  /\ ~ sdk[d].listening
  /\ sdk' = [sdk EXCEPT ![d].listening = TRUE]
  /\ toServer' = [toServer EXCEPT ![d] = Request(d, Listen)]
  /\ UNCHANGED <<server, online, toClient, screens, acked, counters>>

\* Mutant of Appear: an observer gets later events, but not the value there is.
AppearSilently(d) ==
  /\ appears < MaxAppears
  /\ open[d] < MaxObservers
  /\ appears' = appears + 1
  /\ open' = [open EXCEPT ![d] = @ + 1]
  /\ sdk' = [sdk EXCEPT ![d].listening = TRUE]
  /\ toServer' = [toServer EXCEPT ![d] = IF sdk[d].listening THEN @ ELSE Request(d, Listen)]
  /\ UNCHANGED <<server, online, toClient, mainQueue, display, crashed,
                 acked, sends, drops, kills>>

\* viewDidAppear, on a new screen or on the same one again: another observer.
\* A complete view answers it at once with its value.
Appear(d) ==
  /\ appears < MaxAppears
  /\ open[d] < MaxObservers
  /\ appears' = appears + 1
  /\ open' = [open EXCEPT ![d] = @ + 1]
  /\ sdk' = [sdk EXCEPT ![d].listening = TRUE]
  /\ toServer' = [toServer EXCEPT ![d] = IF sdk[d].listening THEN @ ELSE Request(d, Listen)]
  /\ mainQueue' = [mainQueue EXCEPT ![d] =
       IF sdk[d].complete THEN Append(@, Value(sdk[d])) ELSE @]
  /\ UNCHANGED <<server, online, toClient, display, crashed, acked, sends, drops, kills>>

\* The screen is dismissed.  Its observers stay registered, but what they show
\* nobody sees; the next screen starts with an empty list.
Dismiss(d) ==
  /\ open[d] > 0
  /\ open' = [open EXCEPT ![d] = 0]
  /\ mainQueue' = [mainQueue EXCEPT ![d] = <<>>]
  /\ display' = [display EXCEPT ![d] = <<>>]
  /\ UNCHANGED <<server, network, sdk, crashed, acked, counters>>

\* Date(): the device's clock.  A unit of time passes with every message sent.
Now(d) == sends + 1 + Skew[d]

\* Backend.sendMessage: a pending write, in the view at once.
SendMessage(d) ==
  /\ open[d] > 0
  /\ sends < MaxSends
  /\ sends' = sends + 1
  /\ LET m == [write |-> sends + 1, key |-> PushKey(sends + 1), from |-> d, date |-> Now(d)]
     IN  /\ SetClient(d, [sdk[d] EXCEPT !.pending = Append(@, m)])
         /\ toServer' = [toServer EXCEPT ![d] = Request(d, Put(m))]
  /\ UNCHANGED <<server, online, toClient, open, display, crashed, acked,
                 drops, kills, appears>>

\* The fields getMessages gives the message of a child; delivered and seen are
\* constants there.  (key: two children are two entries of the list.)
Shown(d, m) == [write |-> m.write, key |-> m.key, date |-> m.date, delivered |-> TRUE, seen |-> TRUE,
                origin |-> IF m.from = d THEN "outgoing" ELSE "incoming"]

\* The orders "sorted by date" may give a dictionary: any order among equal dates.
Sorted(msgs) ==
  {s \in [1 .. Cardinality(msgs) -> msgs] :
     /\ \A k, l \in DOMAIN s : k # l => s[k] # s[l]
     /\ \A k, l \in DOMAIN s : k < l => s[k].date <= s[l].date}

\* Mutant of PassedOn: the null snapshot counts as a list without messages.
PassedOnAlways(snapshot) == TRUE

\* Does getMessages pass a snapshot on?  A node without children is null.
PassedOn(snapshot) == snapshot # {}

\* The main queue runs one observer: ChatView.diffMessages with the sorted list.
\* An empty list would be the crash of ChatView.StartBuild.
ShowSnapshot(d) ==
  /\ mainQueue[d] # <<>>
  /\ mainQueue' = [mainQueue EXCEPT ![d] = Tail(@)]
  /\ LET msgs == {Shown(d, m) : m \in Head(mainQueue[d])}
     IN  IF PassedOn(Head(mainQueue[d]))
           THEN /\ \E list \in Sorted(msgs) : display' = [display EXCEPT ![d] = list]
                /\ crashed' = (crashed \/ msgs = {})
           ELSE UNCHANGED <<display, crashed>>
  /\ UNCHANGED <<server, network, sdk, open, acked, counters>>

\* The app is killed and started again: nothing of it was saved.
Kill(d) ==
  /\ kills < MaxKills
  /\ kills' = kills + 1
  /\ sdk' = [sdk EXCEPT ![d] = FreshClient]
  /\ toServer' = [toServer EXCEPT ![d] = <<>>]
  /\ toClient' = [toClient EXCEPT ![d] = <<>>]
  /\ watching' = watching \ {d}
  /\ open' = [open EXCEPT ![d] = 0]
  /\ mainQueue' = [mainQueue EXCEPT ![d] = <<>>]
  /\ display' = [display EXCEPT ![d] = <<>>]
  /\ UNCHANGED <<stored, online, crashed, acked, sends, drops, appears>>

-----------------------------------------------------------------------------
(* The server, and the client's connection to it.                          *)

ServerListen(d) ==
  /\ toServer[d] # <<>>
  /\ Head(toServer[d]) = Listen
  /\ toServer' = [toServer EXCEPT ![d] = Tail(@)]
  /\ watching' = watching \cup {d}
  /\ toClient' = [toClient EXCEPT ![d] = Append(@, Full(stored))]
  /\ UNCHANGED <<stored, online, sdk, screens, acked, counters>>

\* A put is stored, every listener is told, then its sender gets the answer.
ServerPut(d) ==
  /\ toServer[d] # <<>>
  /\ Head(toServer[d]).kind = "put"
  /\ toServer' = [toServer EXCEPT ![d] = Tail(@)]
  /\ LET m      == Head(toServer[d]).msg
         told   == IF m \in stored THEN {} ELSE watching
     IN  /\ stored' = Store(stored, m)
         /\ toClient' = [e \in Devices |->
              toClient[e] \o (IF e \in told THEN <<Update(m)>> ELSE <<>>)
                          \o (IF e = d THEN <<Ack(m)>> ELSE <<>>)]
  /\ UNCHANGED <<watching, online, sdk, screens, acked, counters>>

\* onDataUpdate with the whole node: the answer to a listen.
ReceiveFull(d) ==
  /\ toClient[d] # <<>>
  /\ Head(toClient[d]).kind = "full"
  /\ toClient' = [toClient EXCEPT ![d] = Tail(@)]
  /\ SetClient(d, [sdk[d] EXCEPT !.cache = Head(toClient[d]).msgs, !.complete = TRUE])
  /\ UNCHANGED <<server, online, toServer, open, display, crashed, acked, counters>>

\* Mutant of ReceiveUpdate: an update of one child is taken for the whole node.
ReceiveUpdateAsNode(d) ==
  /\ toClient[d] # <<>>
  /\ Head(toClient[d]).kind = "update"
  /\ toClient' = [toClient EXCEPT ![d] = Tail(@)]
  /\ SetClient(d, [sdk[d] EXCEPT !.cache = {Head(toClient[d]).msg}])
  /\ UNCHANGED <<server, online, toServer, open, display, crashed, acked, counters>>

\* onDataUpdate with one child.
ReceiveUpdate(d) ==
  /\ toClient[d] # <<>>
  /\ Head(toClient[d]).kind = "update"
  /\ toClient' = [toClient EXCEPT ![d] = Tail(@)]
  /\ SetClient(d, [sdk[d] EXCEPT !.cache = Store(@, Head(toClient[d]).msg)])
  /\ UNCHANGED <<server, online, toServer, open, display, crashed, acked, counters>>

\* Mutant of ReceiveAck: an answer clears the queue of pending writes.
ReceiveAckAll(d) ==
  /\ toClient[d] # <<>>
  /\ Head(toClient[d]).kind = "ack"
  /\ toClient' = [toClient EXCEPT ![d] = Tail(@)]
  /\ SetClient(d, [sdk[d] EXCEPT !.pending = <<>>])
  /\ acked' = acked \cup {Head(toClient[d]).msg.write}
  /\ UNCHANGED <<server, online, toServer, open, display, crashed, counters>>

\* Pending writes are kept under their numbers: what is left without number w.
Without(pending, w) ==
  LET k == CHOOSE k \in DOMAIN pending : pending[k].write = w
  IN  IF \E n \in DOMAIN pending : pending[n].write = w
        THEN [n \in 1 .. Len(pending) - 1 |-> pending[IF n < k THEN n ELSE n + 1]]
        ELSE pending

\* The answer to a put: the write is no longer pending.
ReceiveAck(d) ==
  /\ toClient[d] # <<>>
  /\ Head(toClient[d]).kind = "ack"
  /\ toClient' = [toClient EXCEPT ![d] = Tail(@)]
  /\ LET w == Head(toClient[d]).msg.write
     IN  /\ SetClient(d, [sdk[d] EXCEPT !.pending = Without(@, w)])
         /\ acked' = acked \cup {w}
  /\ UNCHANGED <<server, online, toServer, open, display, crashed, counters>>

\* The connection breaks: requests and answers under way are lost, also the
\* answer to a put the server has already stored.
Drop(d) ==
  /\ online[d]
  /\ drops < MaxDrops
  /\ drops' = drops + 1
  /\ online' = [online EXCEPT ![d] = FALSE]
  /\ toServer' = [toServer EXCEPT ![d] = <<>>]
  /\ toClient' = [toClient EXCEPT ![d] = <<>>]
  /\ watching' = watching \ {d}
  /\ UNCHANGED <<stored, sdk, screens, acked, sends, kills, appears>>

\* Mutants of Restored: without the puts; with a new key for each put.
RestoredListens(client) == IF client.listening THEN <<Listen>> ELSE <<>>
RestoredAnew(client) ==
  (IF client.listening THEN <<Listen>> ELSE <<>>)
    \o [k \in DOMAIN client.pending |-> Put([client.pending[k] EXCEPT !.key = 0])]

\* What restoreState sends: the listens, then every unacknowledged put again.
Restored(client) ==
  (IF client.listening THEN <<Listen>> ELSE <<>>)
    \o [k \in DOMAIN client.pending |-> Put(client.pending[k])]

Reconnect(d) ==
  /\ ~ online[d]
  /\ online' = [online EXCEPT ![d] = TRUE]
  /\ toServer' = [toServer EXCEPT ![d] = Restored(sdk[d])]
  /\ UNCHANGED <<server, toClient, sdk, screens, acked, counters>>

-----------------------------------------------------------------------------
Init ==
  /\ stored = {}
  /\ watching = {}
  /\ online = [d \in Devices |-> TRUE]
  /\ toServer = [d \in Devices |-> <<>>]
  /\ toClient = [d \in Devices |-> <<>>]
  /\ sdk = [d \in Devices |-> FreshClient]
  /\ mainQueue = [d \in Devices |-> <<>>]
  /\ open = [d \in Devices |-> 0]
  /\ display = [d \in Devices |-> <<>>]
  /\ acked = {}
  /\ crashed = FALSE
  /\ sends = 0
  /\ drops = 0
  /\ kills = 0
  /\ appears = 0

Server(d) == ServerListen(d) \/ ServerPut(d)
Client(d) == ReceiveFull(d) \/ ReceiveUpdate(d) \/ ReceiveAck(d)
User(d) ==
  \/ ListenFromList(d)
  \/ Appear(d)
  \/ Dismiss(d)
  \/ SendMessage(d)

Next ==
  \E d \in Devices :
    \/ User(d)
    \/ ShowSnapshot(d)
    \/ Kill(d)
    \/ Server(d)
    \/ Client(d)
    \/ Drop(d)
    \/ Reconnect(d)

\* The server answers, the client's queue and the main queue run, and a client
\* that lost its connection keeps trying (tryScheduleReconnect).  Nothing makes
\* a user act, an app die or a connection break.
Fairness ==
  \A d \in Devices :
    /\ WF_vars(Server(d))
    /\ WF_vars(Client(d))
    /\ WF_vars(ShowSnapshot(d))
    /\ WF_vars(Reconnect(d))

Spec == Init /\ [][Next]_vars
FairSpec == Spec /\ Fairness

-----------------------------------------------------------------------------
(* Properties.                                                             *)

\* Types; and a device without connection has nothing under way.
TypeOK ==
  /\ stored \subseteq Message
  /\ watching \subseteq Devices
  /\ online \in [Devices -> BOOLEAN]
  /\ \A d \in Devices :
       /\ \A k \in DOMAIN toServer[d] :
            toServer[d][k].kind = "put" => toServer[d][k].msg \in Message
       /\ \A k \in DOMAIN toClient[d] :
            CASE toClient[d][k].kind = "full" -> toClient[d][k].msgs \subseteq Message
              [] OTHER -> toClient[d][k].msg \in Message
       /\ sdk[d].pending \in Seq(Message)
       /\ sdk[d].cache \subseteq Message
       /\ sdk[d].listening \in BOOLEAN /\ sdk[d].complete \in BOOLEAN
       /\ \A k \in DOMAIN mainQueue[d] : mainQueue[d][k] \subseteq Message
       /\ ~ online[d] => toServer[d] = <<>> /\ toClient[d] = <<>>
       /\ open[d] \in 0 .. MaxObservers
  /\ sends \in 0 .. MaxSends /\ drops \in 0 .. MaxDrops /\ kills \in 0 .. MaxKills
  /\ appears \in 0 .. MaxAppears

\* The writes on a list of displayed messages.
OnList(list) == {list[k].write : k \in DOMAIN list}
Writes(msgs) == {m.write : m \in msgs}

\* A message whose write was acknowledged stays in the conversation, whatever
\* the others write, and however often it was sent again: no two writes meet.
AckedIsStored == acked \subseteq Writes(stored)

\* When no event is left on the main queue, an open screen with a complete view
\* shows exactly that view, its own unacknowledged messages included: no order
\* of appearances, sends, updates, answers and reconnections leaves the screen
\* behind the cache.
QuietScreenIsCurrent ==
  \A d \in Devices :
    (open[d] > 0 /\ sdk[d].complete /\ mainQueue[d] = <<>>)
      => OnList(display[d]) = Writes(Value(sdk[d]))

\* getMessages never hands the chat view the empty list it would crash on,
\* although the observer runs before the conversation has a message.
NeverEmptyList == ~ crashed

\* A message does not disappear from an open screen: not when its write is
\* acknowledged, nor when a reconnection replaces the whole cache.
ScreensNeverForget ==
  [][\A d \in Devices :
       (open[d] > 0 /\ open'[d] > 0) => OnList(display[d]) \subseteq OnList(display'[d])]_vars

\* A screen shows nothing twice, also not a message that was sent again after a
\* reconnection because the answer to it was lost.
NothingShownTwice ==
  \A d \in Devices : \A k, l \in DOMAIN display[d] :
    display[d][k].write = display[d][l].write => k = l

\* The conversation implements the board: see MessageBoard.
Board == INSTANCE MessageBoard WITH
  Devices  <- Devices,
  Messages <- 1 .. MaxSends,
  board    <- Writes(stored),
  outbox   <- [d \in Devices |-> {sdk[d].pending[k].write : k \in DOMAIN sdk[d].pending}
                                   \ Writes(stored)],
  screen   <- [d \in Devices |-> OnList(display[d])]
ImplementsBoard == Board!Spec

\* Every write is acknowledged in the end, over any number of lost connections,
\* unless its app is killed first.
OutboxDrains ==
  \A d \in Devices : (sdk[d].pending # <<>>) ~> (sdk[d].pending = <<>>)

\* Once users stop acting and connections stop breaking, every open screen shows
\* the conversation as the server has it.
ScreensConverge ==
  \A d \in Devices : <>[](open[d] > 0 => OnList(display[d]) = Writes(stored))

\* Message.delivered, "Whether or not the message was delivered": a message
\* displayed as delivered is on the server.
DeliveredMeansStored ==
  \A d \in Devices : \A k \in DOMAIN display[d] :
    display[d][k].delivered => display[d][k].write \in Writes(stored)
=============================================================================
