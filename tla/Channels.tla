------------------------------ MODULE Channels ------------------------------
(***************************************************************************)
(* The channels of one user, users/<uid>/conversations in the database:    *)
(* joining one (JoinChannelViewController, Backend.createConvo) and the    *)
(* list of them (ConvoViewController, ConvoList, Backend.getConvoKeys).    *)
(*                                                                         *)
(* A user is signed in anonymously, so one app reads and writes the node.  *)
(* Joining reads the whole list of keys, appends one and writes the whole  *)
(* list back.  Each step of that, and each step of a refresh of the list,  *)
(* is a block of its own on the main queue or on the Firebase client's     *)
(* queue; answers of the server arrive between them.                       *)
(*                                                                         *)
(* Data abstraction.  A key is a text that passes the length test; IdOf    *)
(* says which UUID it spells.  Upper and lower case spell the same UUID;   *)
(* other texts spell none (NoId), and their items get random UUIDs.  A     *)
(* list of keys is a bag of them: a key can be in it twice, and its order  *)
(* plays no role, for a new key is always appended, and the list is sorted *)
(* before it is shown.                                                     *)
(***************************************************************************)
EXTENDS Integers, Sequences, Bags

CONSTANTS
  Keys,          \* texts somebody may enter
  NoId,          \* not a UUID
  IdOf,          \* the UUID each text spells, or NoId
  MaxJoins,      \* bound of the model: joins in all
  MaxDrops,      \* bound: connections lost in all
  MaxKills,      \* bound: apps killed in all
  MaxRejects,    \* bound: writes the server refuses in all
  MaxObservers   \* bound: observers one run of the app registers

ASSUME ChannelsAssumption ==
  /\ DOMAIN IdOf = Keys
  /\ {MaxJoins, MaxDrops, MaxKills, MaxRejects} \subseteq Nat
  /\ MaxObservers \in Nat \ {0}

VARIABLES
  named,      \* does users/<uid> hold a username on the server?
  stored,     \* the list of keys on the server
  watching,   \* does the server have this client's listener?
  online,     \* is the connection up?
  toServer,   \* requests under way
  toClient,   \* answers and data updates under way
  client,     \* the Firebase client's view of the node
  dbQueue,    \* calls waiting on the Firebase client's queue
  mainQueue,  \* blocks waiting on the main queue
  observers,  \* observers of the node this run of the app registered
  screen,     \* "list", "join", or "killed" or "crashed" when the app does not run
  hud,        \* does the progress HUD block the join screen?
  items,      \* the set of keys whose items the list shows, sorted
  joined,     \* history: keys the join screen closed for
  joins, drops, kills, rejects   \* counters the bounds are about

server   == <<named, stored, watching>>
network  == <<online, toServer, toClient>>
queues   == <<dbQueue, mainQueue>>
ui       == <<observers, screen, hud, items, joined>>
counters == <<joins, drops, kills, rejects>>
vars == <<server, network, client, queues, ui, counters>>

-----------------------------------------------------------------------------
Listen        == [kind |-> "listen"]
Put(w)        == [kind |-> "put", write |-> w]
Data(list)    == [kind |-> "data", list |-> list]
Ack(w, ok)    == [kind |-> "ack", write |-> w, ok |-> ok]

ReadForJoin(k)    == [kind |-> "readForJoin", key |-> k]
ReadForList       == [kind |-> "readForList"]
SetList(list, k)  == [kind |-> "set", list |-> list, key |-> k]

Event        == [kind |-> "event"]
Fetch        == [kind |-> "fetch"]
Apply(list)  == [kind |-> "apply", list |-> list]
Done(k, ok)  == [kind |-> "done", key |-> k, ok |-> ok]

\* A client after the launch: it listens (observeUser) and knows nothing.
FreshClient == [complete |-> FALSE, cache |-> EmptyBag, pending |-> <<>>]

\* The list in the client's view: the last pending write, or the server's list.
Value(c) == IF c.pending = <<>> THEN c.cache ELSE c.pending[Len(c.pending)].list

\* A view that changes, or becomes complete, raises an event for each observer.
Raised(old, new) ==
  IF new.complete /\ (~ old.complete \/ Value(new) # Value(old))
    THEN [n \in 1 .. observers |-> Event]
    ELSE <<>>

Request(r) == IF online THEN Append(toServer, r) ELSE toServer

\* Sequence.uniqued: of equal elements one stays.
Uniqued(list) == SetToBag(BagToSet(list))

\* Mutant of KeysComplete: an unknown list counts as an empty one.
KeysAlwaysComplete(c) == TRUE

\* Does getConvoKeys complete?  getData answers from the view of users/<uid>, if
\* that is complete; a node that does not exist, and the answer the server gives
\* otherwise (an array, not a dictionary), never reach the completion.
KeysComplete(c) == c.complete /\ (named \/ Value(c) # EmptyBag)

\* Mutants of ConvoKeys: without uniqued; from the server's list, without the
\* pending write.
RawKeys(c) == Value(c)
CachedKeys(c) == Uniqued(c.cache)

\* The keys it completes with.
ConvoKeys(c) == Uniqued(Value(c))

-----------------------------------------------------------------------------
(* The screens.                                                            *)

Running == screen \in {"list", "join"}

\* What viewDidAppear of the list adds to the main queue: the observer that
\* observeUser registers gets the value at once when the view is complete.
FirstEvent == IF client.complete THEN <<Event>> ELSE <<>>

\* The button of the list that presents the join screen.
OpenJoin ==
  /\ screen = "list"
  /\ screen' = "join"
  /\ UNCHANGED <<server, network, client, queues, observers, hud, items, joined, counters>>

\* The back button: the list appears again.
CloseJoin ==
  /\ screen = "join"
  /\ ~ hud
  /\ observers < MaxObservers
  /\ screen' = "list"
  /\ observers' = observers + 1
  /\ mainQueue' = mainQueue \o FirstEvent
  /\ UNCHANGED <<server, network, client, dbQueue, hud, items, joined, counters>>

\* Mutant of Continue: no HUD blocks the screen, so that it can be tapped again.
ContinueUnblocked(k) ==
  /\ screen = "join"
  /\ ~ hud
  /\ observers < MaxObservers
  /\ joins < MaxJoins
  /\ joins' = joins + 1
  /\ dbQueue' = Append(dbQueue, ReadForJoin(k))
  /\ UNCHANGED <<server, network, client, mainQueue, observers, screen, hud, items, joined,
                 drops, kills, rejects>>

\* "Continue": the HUD goes up, and createConvo asks for the keys.
Continue(k) ==
  /\ screen = "join"
  /\ ~ hud
  /\ observers < MaxObservers
  /\ joins < MaxJoins
  /\ joins' = joins + 1
  /\ hud' = TRUE
  /\ dbQueue' = Append(dbQueue, ReadForJoin(k))
  /\ UNCHANGED <<server, network, client, mainQueue, observers, screen, items, joined,
                 drops, kills, rejects>>

\* The app stops, for the reason given; nothing of it was saved.
Stop(reason) ==
  /\ screen' = reason
  /\ client' = FreshClient
  /\ dbQueue' = <<>>
  /\ mainQueue' = <<>>
  /\ toServer' = <<>>
  /\ toClient' = <<>>
  /\ watching' = FALSE
  /\ observers' = 0
  /\ hud' = FALSE
  /\ items' = {}

Kill ==
  /\ Running
  /\ kills < MaxKills
  /\ kills' = kills + 1
  /\ Stop("killed")
  /\ UNCHANGED <<named, stored, online, joined, joins, drops, rejects>>

\* A start of the app ends on the list, whose viewDidAppear makes it listen.
Launch ==
  /\ ~ Running
  /\ screen' = "list"
  /\ observers' = 1
  /\ toServer' = Request(Listen)
  /\ UNCHANGED <<server, online, toClient, client, queues, hud, items, joined, counters>>

-----------------------------------------------------------------------------
(* The main queue.                                                         *)

NextBlock(kind) == Running /\ mainQueue # <<>> /\ Head(mainQueue).kind = kind

\* The observer: ConvoList.refresh, which posts ConvoBuilder.getData's block.
Refresh ==
  /\ NextBlock("event")
  /\ mainQueue' = Append(Tail(mainQueue), Fetch)
  /\ UNCHANGED <<server, network, client, dbQueue, ui, counters>>

\* The block of ConvoBuilder.getData asks for the keys.
FetchKeys ==
  /\ NextBlock("fetch")
  /\ mainQueue' = Tail(mainQueue)
  /\ dbQueue' = Append(dbQueue, ReadForList)
  /\ UNCHANGED <<server, network, client, ui, counters>>

\* Two items with one UUID: the data source refuses them with an exception.
Clash(list) ==
  \E k, l \in BagToSet(list) :
    /\ IdOf[k] = IdOf[l] /\ IdOf[k] # NoId
    /\ k # l \/ list[k] > 1

\* The block of ConvoList.refresh shows the keys.
ApplyItems ==
  /\ NextBlock("apply")
  /\ LET list == Head(mainQueue).list
     IN  IF Clash(list)
           THEN Stop("crashed") /\ UNCHANGED <<named, stored, online, joined>>
           ELSE /\ items' = BagToSet(list)
                /\ mainQueue' = Tail(mainQueue)
                /\ UNCHANGED <<server, network, client, dbQueue, observers, screen, hud, joined>>
  /\ UNCHANGED counters

\* Mutant of FinishJoin: the HUD goes on success only.
FinishGoodJoin ==
  /\ NextBlock("done")
  /\ hud' = (hud /\ ~ Head(mainQueue).ok)
  /\ LET done == Head(mainQueue)
     IN  IF done.ok
           THEN /\ screen' = "list"
                /\ observers' = observers + 1
                /\ mainQueue' = Tail(mainQueue) \o FirstEvent
                /\ joined' = joined \cup {done.key}
           ELSE /\ mainQueue' = Tail(mainQueue)
                /\ UNCHANGED <<screen, observers, joined>>
  /\ UNCHANGED <<server, network, client, dbQueue, items, counters>>

\* createConvo's completion: the HUD goes, and on success the list appears.
FinishJoin ==
  /\ NextBlock("done")
  /\ hud' = FALSE
  /\ LET done == Head(mainQueue)
     IN  IF done.ok
           THEN /\ screen' = "list"
                /\ observers' = observers + 1
                /\ mainQueue' = Tail(mainQueue) \o FirstEvent
                /\ joined' = joined \cup {done.key}
           ELSE /\ mainQueue' = Tail(mainQueue)
                /\ UNCHANGED <<screen, observers, joined>>
  /\ UNCHANGED <<server, network, client, dbQueue, items, counters>>

-----------------------------------------------------------------------------
(* The queue of the Firebase client.                                       *)

NextCall(kind) == dbQueue # <<>> /\ Head(dbQueue).kind = kind

\* getConvoKeys for createConvo: the list with the new key is to be written.
ReadKeysToJoin ==
  /\ NextCall("readForJoin")
  /\ dbQueue' = IF KeysComplete(client)
                  THEN LET k == Head(dbQueue).key
                       IN  Append(Tail(dbQueue), SetList(ConvoKeys(client) (+) SetToBag({k}), k))
                  ELSE Tail(dbQueue)
  /\ UNCHANGED <<server, network, client, mainQueue, ui, counters>>

\* getConvoKeys for the list: its items are to be shown.
ReadKeysToShow ==
  /\ NextCall("readForList")
  /\ dbQueue' = Tail(dbQueue)
  /\ mainQueue' = IF KeysComplete(client) THEN Append(mainQueue, Apply(ConvoKeys(client)))
                                          ELSE mainQueue
  /\ UNCHANGED <<server, network, client, ui, counters>>

\* Mutant of WriteKeys: the completion does not wait for the server.
WriteKeysAndFinish ==
  /\ NextCall("set")
  /\ dbQueue' = Tail(dbQueue)
  /\ LET w   == [list |-> Head(dbQueue).list, key |-> Head(dbQueue).key]
         new == [client EXCEPT !.pending = Append(@, w)]
     IN  /\ client' = new
         /\ mainQueue' = Append(mainQueue \o Raised(client, new), Done(w.key, TRUE))
         /\ toServer' = Request(Put(w))
  /\ UNCHANGED <<server, online, toClient, ui, counters>>

\* setValue: pending, in the view at once, and sent.
WriteKeys ==
  /\ NextCall("set")
  /\ dbQueue' = Tail(dbQueue)
  /\ LET w   == [list |-> Head(dbQueue).list, key |-> Head(dbQueue).key]
         new == [client EXCEPT !.pending = Append(@, w)]
     IN  /\ client' = new
         /\ mainQueue' = mainQueue \o Raised(client, new)
         /\ toServer' = Request(Put(w))
  /\ UNCHANGED <<server, online, toClient, ui, counters>>

\* The answer to the listen, or an update after a put.
ReceiveData ==
  /\ toClient # <<>>
  /\ Head(toClient).kind = "data"
  /\ toClient' = Tail(toClient)
  /\ LET new == [client EXCEPT !.cache = Head(toClient).list, !.complete = TRUE]
     IN  client' = new /\ mainQueue' = mainQueue \o Raised(client, new)
  /\ UNCHANGED <<server, online, toServer, dbQueue, ui, counters>>

\* What is left of the pending writes without w.
Without(pending, w) ==
  LET k == CHOOSE k \in DOMAIN pending : pending[k] = w
  IN  [n \in 1 .. Len(pending) - 1 |-> pending[IF n < k THEN n ELSE n + 1]]

\* The answer to a put: first the events of a write taken back, then the
\* completion.
ReceiveAck ==
  /\ toClient # <<>>
  /\ Head(toClient).kind = "ack"
  /\ toClient' = Tail(toClient)
  /\ LET answer == Head(toClient)
         new    == [client EXCEPT !.pending = Without(@, answer.write)]
     IN  /\ client' = new
         /\ mainQueue' = Append(mainQueue \o Raised(client, new),
                                Done(answer.write.key, answer.ok))
  /\ UNCHANGED <<server, online, toServer, dbQueue, ui, counters>>

-----------------------------------------------------------------------------
(* The connection and the server.                                          *)

Drop ==
  /\ online
  /\ drops < MaxDrops
  /\ drops' = drops + 1
  /\ online' = FALSE
  /\ toServer' = <<>>
  /\ toClient' = <<>>
  /\ watching' = FALSE
  /\ UNCHANGED <<named, stored, client, queues, ui, joins, kills, rejects>>

\* Mutant of Reconnect: the puts are sent again, the listen is not.
ReconnectWithPuts ==
  /\ ~ online
  /\ online' = TRUE
  /\ toServer' = [n \in DOMAIN client.pending |-> Put(client.pending[n])]
  /\ UNCHANGED <<server, toClient, client, queues, ui, counters>>

\* restoreState: the listen, then the unacknowledged puts in order.
Reconnect ==
  /\ ~ online
  /\ online' = TRUE
  /\ toServer' = IF Running
                   THEN <<Listen>> \o [n \in DOMAIN client.pending |-> Put(client.pending[n])]
                   ELSE <<>>
  /\ UNCHANGED <<server, toClient, client, queues, ui, counters>>

ServerListen ==
  /\ toServer # <<>>
  /\ Head(toServer) = Listen
  /\ toServer' = Tail(toServer)
  /\ watching' = TRUE
  /\ toClient' = Append(toClient, Data(stored))
  /\ UNCHANGED <<named, stored, online, client, queues, ui, counters>>

\* A put replaces the list; the listener is told before the sender is answered.
ServerPut ==
  /\ toServer # <<>>
  /\ Head(toServer).kind = "put"
  /\ toServer' = Tail(toServer)
  /\ LET w    == Head(toServer).write
         told == watching /\ w.list # stored
     IN  /\ stored' = w.list
         /\ toClient' = toClient \o (IF told THEN <<Data(w.list)>> ELSE <<>>) \o <<Ack(w, TRUE)>>
  /\ UNCHANGED <<named, watching, online, client, queues, ui, counters>>

\* The server may refuse a put.
ServerReject ==
  /\ toServer # <<>>
  /\ Head(toServer).kind = "put"
  /\ rejects < MaxRejects
  /\ rejects' = rejects + 1
  /\ toServer' = Tail(toServer)
  /\ toClient' = Append(toClient, Ack(Head(toServer).write, FALSE))
  /\ UNCHANGED <<server, online, client, queues, ui, joins, drops, kills>>

-----------------------------------------------------------------------------
\* A signed-in user starts the app for the first time.  The username was written
\* at the login, but that write may have died with the app.
Init ==
  /\ named \in BOOLEAN
  /\ stored = EmptyBag
  /\ watching = FALSE
  /\ online = TRUE
  /\ toServer = <<>>
  /\ toClient = <<>>
  /\ client = FreshClient
  /\ dbQueue = <<>>
  /\ mainQueue = <<>>
  /\ observers = 0
  /\ screen = "killed"
  /\ hud = FALSE
  /\ items = {}
  /\ joined = {}
  /\ joins = 0
  /\ drops = 0
  /\ kills = 0
  /\ rejects = 0

User == OpenJoin \/ CloseJoin \/ (\E k \in Keys : Continue(k)) \/ Launch
Main == Refresh \/ FetchKeys \/ ApplyItems \/ FinishJoin
Database == ReadKeysToJoin \/ ReadKeysToShow \/ WriteKeys
Receive == ReceiveData \/ ReceiveAck
Serve == ServerListen \/ ServerPut \/ ServerReject

Next == User \/ Kill \/ Main \/ Database \/ Receive \/ Serve \/ Drop \/ Reconnect

\* Both queues run, the connection comes back and the server answers; nothing
\* makes a user act, a connection break, an app die or a write fail.
Fairness ==
  /\ WF_vars(Main)
  /\ WF_vars(Database)
  /\ WF_vars(Receive)
  /\ WF_vars(Serve)
  /\ WF_vars(Reconnect)

Spec == Init /\ [][Next]_vars
FairSpec == Spec /\ Fairness

-----------------------------------------------------------------------------
(* Properties.                                                             *)

\* Lists of keys, in which a key that was joined again is twice, and what a join
\* writes: a list, and the key it adds.
Lists == UNION {[S -> 1 .. 2] : S \in SUBSET Keys}
Write == [list : Lists, key : Keys]

TypeOK ==
  /\ named \in BOOLEAN /\ watching \in BOOLEAN /\ online \in BOOLEAN /\ hud \in BOOLEAN
  /\ stored \in Lists /\ items \subseteq Keys /\ joined \subseteq Keys
  /\ client.complete \in BOOLEAN /\ client.cache \in Lists
  /\ client.pending \in Seq(Write)
  /\ screen \in {"list", "join", "killed", "crashed"}
  /\ observers \in 0 .. MaxObservers
  \* The HUD is up on the join screen only, and one join is on its way at a time.
  /\ hud => screen = "join"
  /\ Len(client.pending) <= 1

\* A channel that is stored is never lost: no join, made with whatever the client
\* knows after a restart or a lost connection, writes back a list without it.
NoChannelLost == [][BagToSet(stored) \subseteq BagToSet(stored')]_vars

\* A join screen that closes after "Continue" has stored its key: the app may be
\* killed the moment after.
ClosedMeansStored == joined \subseteq BagToSet(stored)

\* When both queues are empty, the list shows the keys of the client's view,
\* although each refresh fetches and applies them in blocks of its own and
\* refreshes of several observers are interleaved.
QuietListIsCurrent ==
  (Running /\ dbQueue = <<>> /\ mainQueue = <<>> /\ KeysComplete(client))
    => items = BagToSet(Value(client))

\* The list crashes the app only when users may enter two spellings of one UUID
\* (then it may do so, at every launch); joining the very same key again
\* stores it twice, but does not crash the list.
CrashOnlyOnAliases ==
  screen = "crashed" =>
    \E k, l \in Keys : k # l /\ IdOf[k] = IdOf[l] /\ IdOf[k] # NoId

\* The HUD of a join goes away, over lost connections, when users/<uid> was in the
\* client's view as the join read the keys.  (When it was not, the HUD stays:
\* getConvoKeys does not complete.)
JoinIsAnswered ==
  (hud /\ client.complete /\ named /\ NextCall("readForJoin")) ~> ~ hud

\* In the end the list shows what is stored, or the app crashes at each launch.
ListConverges ==
  (<>[](screen = "list" /\ KeysComplete(client) => items = BagToSet(stored)))
    \/ []<>(screen = "crashed")
=============================================================================
