----------------------------- MODULE ChannelName -----------------------------
(***************************************************************************)
(* The name of one channel, convoData/<id>/name in the database, as the    *)
(* cells of the channel list, the title of the messages screen and the     *)
(* edit screen show it (Backend.getConvoName) and as the edit screen       *)
(* writes it (Backend.setConvoName).                                       *)
(*                                                                         *)
(* Whoever shows a name observes the node.  A client that finds no name    *)
(* invents one and writes it.  The edit screen writes its text field back  *)
(* whenever it disappears.  Observers are never removed: those of closed   *)
(* screens still run, and still invent.                                    *)
(*                                                                         *)
(* One device is modelled; what other devices write, inventions and        *)
(* renames, reaches the server at any time (OthersWrite).  Every device is *)
(* one of the others to the rest.                                          *)
(*                                                                         *)
(* Abstractions.  An invented name is the number of its write: two random  *)
(* names differ, and nobody types one.  A view that shows the name is the  *)
(* number of its observer.  A call into the Firebase client is one step    *)
(* with the caller's, as in module Conversation.                           *)
(***************************************************************************)
EXTENDS Integers, Sequences

CONSTANTS
  NoName,        \* no name: the node is null, or the view still shows nothing
  Blank,         \* the empty text
  Texts,         \* texts a user may type
  Trimmed,       \* what is left of a text without the white space around it: a name
  OthersNames,   \* names other devices write
  MaxObservers,  \* bound of the model: observers of a run of the app
  MaxOthers,     \* bound: names other devices write in all
  MaxTypes,      \* bound: texts typed in all
  MaxLeaves,     \* bound: times an edit screen disappears in all
  MaxFaults      \* bound: lost connections, killed apps and refused writes in all

ASSUME ChannelNameAssumption ==
  /\ NoName # Blank /\ {NoName, Blank} \cap Texts = {}
  /\ DOMAIN Trimmed = Texts
  /\ \A text \in Texts : Trimmed[text] \notin Texts \cup {NoName}
  /\ NoName \notin OthersNames /\ OthersNames \cap Texts = {}
  /\ \A name \in {NoName, Blank} \cup Texts \cup {Trimmed[text] : text \in Texts} \cup OthersNames :
       name \notin Nat
  /\ {MaxObservers, MaxOthers, MaxTypes, MaxLeaves, MaxFaults} \subseteq Nat

VARIABLES
  stored,      \* the server's write that stands, or NoWrite
  watching,    \* does the server have this client's listener?
  online,      \* is the connection up?
  toServer,    \* requests under way
  toClient,    \* answers and data updates under way
  sdk,         \* the Firebase client
  mainQueue,   \* blocks waiting on the main queue
  shown,       \* the views, in the order of their observers
  writes,      \* setValue calls so far, which number the writes
  knows,       \* history: has this run of the app found a name?
  refused,     \* history: was a write of this run refused?
  settled,     \* history: the latest write of this run that was accepted, or 0
  others, types, leaves, faults   \* counters the bounds are about

server   == <<stored, watching>>
network  == <<online, toServer, toClient>>
history  == <<knows, refused, settled>>
counters == <<others, types, leaves, faults>>
vars == <<server, network, sdk, mainQueue, shown, writes, history, counters>>

-----------------------------------------------------------------------------
\* What the server holds: a write of this device, or another device's, number 0.
Theirs(name) == [write |-> 0, name |-> name]
NoWrite == Theirs(NoName)

Listen     == [kind |-> "listen"]
Put(w)     == [kind |-> "put", write |-> w]
Data(name) == [kind |-> "data", name |-> name]
Ack(w, ok) == [kind |-> "ack", write |-> w, ok |-> ok]

\* Blocks of the main queue: a value event of an observer, and what its completion
\* posts.
Event(view, name)   == [kind |-> "event", view |-> view, name |-> name]
SetText(view, name) == [kind |-> "text", view |-> view, name |-> name]

FreshClient == [listening |-> FALSE, complete |-> FALSE, cache |-> NoName, pending |-> <<>>]

\* A write of the whole node makes the view complete as long as it is pending.
Complete(c) == c.complete \/ c.pending # <<>>

\* The name in the client's view.
Value(c) == IF c.pending = <<>> THEN c.cache ELSE c.pending[Len(c.pending)].name

\* Mutant of Raised: only the first observer is told.
RaisedToFirst(new) ==
  IF Complete(new) /\ (~ Complete(sdk) \/ Value(new) # Value(sdk)) /\ shown # <<>>
    THEN <<Event(1, Value(new))>>
    ELSE <<>>

\* A view that becomes complete, or changes, raises an event for each observer.
Raised(new) ==
  IF Complete(new) /\ (~ Complete(sdk) \/ Value(new) # Value(sdk))
    THEN [k \in DOMAIN shown |-> Event(k, Value(new))]
    ELSE <<>>

\* The client's view changes while blocks wait on the main queue.
SetClient(new, blocks) ==
  /\ sdk' = new
  /\ mainQueue' = blocks \o Raised(new)

Request(r) == IF online THEN Append(toServer, r) ELSE toServer

\* setValue, the next block on the main queue being the first of these.
SetValue(name, blocks) ==
  LET w == [write |-> writes + 1, name |-> name]
  IN  /\ writes' = writes + 1
      /\ SetClient([sdk EXCEPT !.pending = Append(@, w)], blocks)
      /\ toServer' = Request(Put(w))

-----------------------------------------------------------------------------
(* The app.                                                                *)

\* getConvoName for a new view: an observer, which a complete view answers at once.
Show(kind) ==
  /\ Len(shown) < MaxObservers
  /\ shown' = Append(shown, [kind |-> kind, text |-> NoName, typed |-> FALSE])
  /\ sdk' = [sdk EXCEPT !.listening = TRUE]
  /\ toServer' = IF sdk.listening THEN toServer ELSE Request(Listen)
  /\ mainQueue' = IF Complete(sdk) THEN Append(mainQueue, Event(Len(shown'), Value(sdk)))
                                   ELSE mainQueue
  /\ UNCHANGED <<server, online, toClient, writes, history, counters>>

\* A cell of the channel list, or the title of the messages screen.
ShowLabel == Show("label")

IsOpen == \E k \in DOMAIN shown : shown[k].kind = "field"
Field  == CHOOSE k \in DOMAIN shown : shown[k].kind = "field"

\* The edit screen opens, from the messages screen.
OpenEdit ==
  /\ shown # <<>>
  /\ ~ IsOpen
  /\ Show("field")

Type(text) ==
  /\ IsOpen
  /\ types < MaxTypes
  /\ types' = types + 1
  /\ shown' = [shown EXCEPT ![Field] = [@ EXCEPT !.text = text, !.typed = TRUE]]
  /\ UNCHANGED <<server, network, sdk, mainQueue, writes, history, others, leaves, faults>>

\* Mutant of WrittenBack: the text of an empty field is none.
WrittenBackOrNone(text) == IF text \in Texts THEN Trimmed[text] ELSE text

\* The text of the field as it is written back: the text of a field that nobody
\* filled is empty, not nil, so that no random name takes its place.
WrittenBack(text) ==
  IF text \in Texts THEN Trimmed[text] ELSE IF text = NoName THEN Blank ELSE text

\* viewWillDisappear: the field is written back, whether or not anybody typed, also
\* when the image picker covers the screen.
Disappear(kind) ==
  /\ IsOpen
  /\ leaves < MaxLeaves
  /\ leaves' = leaves + 1
  /\ SetValue(WrittenBack(shown[Field].text), mainQueue)
  /\ shown' = [shown EXCEPT ![Field].kind = kind]
  /\ UNCHANGED <<server, online, toClient, history, others, types, faults>>

Leave == Disappear("closed")
Cover == Disappear("field")

\* Mutant of Named: an empty name counts as none.
NamedVisibly(name) == name \notin {NoName, Blank}

\* Does the observer find a name?  The empty text is one.
Named(name) == name # NoName

\* The observer of getConvoName: it passes the name on, or invents one.
HandleEvent ==
  /\ mainQueue # <<>>
  /\ LET block == Head(mainQueue)
         rest  == Tail(mainQueue)
     IN  /\ block.kind = "event"
         /\ IF Named(block.name)
              THEN /\ mainQueue' = Append(rest, SetText(block.view, block.name))
                   /\ knows' = TRUE
                   /\ UNCHANGED <<sdk, toServer, writes>>
              ELSE /\ SetValue(writes + 1, Append(rest, SetText(block.view, writes + 1)))
                   /\ knows' = knows
  /\ UNCHANGED <<server, online, toClient, shown, refused, settled, counters>>

\* Mutant of ShowText: a view that shows a name keeps it.
ShowTextOnce ==
  /\ mainQueue # <<>>
  /\ LET block == Head(mainQueue)
     IN  /\ block.kind = "text"
         /\ shown' = [shown EXCEPT ![block.view].text = IF @ = NoName THEN block.name ELSE @]
  /\ mainQueue' = Tail(mainQueue)
  /\ UNCHANGED <<server, network, sdk, writes, history, counters>>

\* The text of the view is replaced, also what a user typed.
ShowText ==
  /\ mainQueue # <<>>
  /\ LET block == Head(mainQueue)
     IN  /\ block.kind = "text"
         /\ shown' = [shown EXCEPT ![block.view] =
                        [@ EXCEPT !.text = block.name, !.typed = FALSE]]
  /\ mainQueue' = Tail(mainQueue)
  /\ UNCHANGED <<server, network, sdk, writes, history, counters>>

\* The app is killed and started again: nothing of it was saved.
Kill ==
  /\ faults < MaxFaults
  /\ faults' = faults + 1
  /\ sdk' = FreshClient
  /\ toServer' = <<>>
  /\ toClient' = <<>>
  /\ watching' = FALSE
  /\ mainQueue' = <<>>
  /\ shown' = <<>>
  /\ knows' = FALSE
  /\ refused' = FALSE
  /\ settled' = 0
  /\ UNCHANGED <<stored, online, writes, others, types, leaves>>

-----------------------------------------------------------------------------
(* The server, and the client's connection to it.                          *)

ServerListen ==
  /\ toServer # <<>>
  /\ Head(toServer) = Listen
  /\ toServer' = Tail(toServer)
  /\ watching' = TRUE
  /\ toClient' = Append(toClient, Data(stored.name))
  /\ UNCHANGED <<stored, online, sdk, mainQueue, shown, writes, history, counters>>

\* A listener is told of a name that is not the one stored before.
Told(name) == IF watching /\ name # stored.name THEN <<Data(name)>> ELSE <<>>

\* A put is stored, listeners are told, then its sender is answered.
ServerPut ==
  /\ toServer # <<>>
  /\ Head(toServer).kind = "put"
  /\ toServer' = Tail(toServer)
  /\ LET w == Head(toServer).write
     IN  /\ stored' = w
         /\ toClient' = toClient \o Told(w.name) \o <<Ack(w, TRUE)>>
  /\ UNCHANGED <<watching, online, sdk, mainQueue, shown, writes, history, counters>>

\* Another device invents a name, or its user gives one.
OthersWrite(name) ==
  /\ others < MaxOthers
  /\ others' = others + 1
  /\ stored' = Theirs(name)
  /\ toClient' = toClient \o Told(name)
  /\ UNCHANGED <<watching, online, toServer, sdk, mainQueue, shown, writes, history, types,
                 leaves, faults>>

\* The rules refuse a put.
ServerRefuse ==
  /\ toServer # <<>>
  /\ Head(toServer).kind = "put"
  /\ faults < MaxFaults
  /\ faults' = faults + 1
  /\ toServer' = Tail(toServer)
  /\ toClient' = Append(toClient, Ack(Head(toServer).write, FALSE))
  /\ UNCHANGED <<server, online, sdk, mainQueue, shown, writes, history, others, types,
                 leaves>>

\* onDataUpdate, also as the answer to a listen.
ReceiveData ==
  /\ toClient # <<>>
  /\ Head(toClient).kind = "data"
  /\ toClient' = Tail(toClient)
  /\ SetClient([sdk EXCEPT !.cache = Head(toClient).name, !.complete = TRUE],
               mainQueue)
  /\ UNCHANGED <<server, online, toServer, shown, writes, history, counters>>

\* What is left of the pending writes without w.
Without(pending, w) ==
  LET k == CHOOSE k \in DOMAIN pending : pending[k] = w
  IN  [n \in 1 .. Len(pending) - 1 |-> pending[IF n < k THEN n ELSE n + 1]]

\* ackWrite: the write is no longer pending; a refused one is taken back.
ReceiveAck ==
  /\ toClient # <<>>
  /\ Head(toClient).kind = "ack"
  /\ toClient' = Tail(toClient)
  /\ LET w  == Head(toClient).write
         ok == Head(toClient).ok
     IN  /\ SetClient([sdk EXCEPT !.pending = Without(@, w)], mainQueue)
         /\ settled' = IF ok /\ w.write > settled THEN w.write ELSE settled
         /\ refused' = (refused \/ ~ ok)
  /\ UNCHANGED <<server, online, toServer, shown, writes, knows, counters>>

\* The connection breaks: requests and answers under way are lost.
Drop ==
  /\ online
  /\ faults < MaxFaults
  /\ faults' = faults + 1
  /\ online' = FALSE
  /\ toServer' = <<>>
  /\ toClient' = <<>>
  /\ watching' = FALSE
  /\ UNCHANGED <<stored, sdk, mainQueue, shown, writes, history, others, types, leaves>>

\* Mutants of Restored: the puts in the wrong order; without the listen.
RestoredUnsorted(client) ==
  LET n == Len(client.pending)
  IN  (IF client.listening THEN <<Listen>> ELSE <<>>)
        \o [k \in 1 .. n |-> Put(client.pending[n + 1 - k])]
RestoredPuts(client) == [k \in DOMAIN client.pending |-> Put(client.pending[k])]

\* What restoreState sends: the listen, then every unacknowledged put again.
Restored(client) ==
  (IF client.listening THEN <<Listen>> ELSE <<>>)
    \o [k \in DOMAIN client.pending |-> Put(client.pending[k])]

Reconnect ==
  /\ ~ online
  /\ online' = TRUE
  /\ toServer' = Restored(sdk)
  /\ UNCHANGED <<server, toClient, sdk, mainQueue, shown, writes, history, counters>>

-----------------------------------------------------------------------------
\* A new channel, and an app that does not show it yet.
Init ==
  /\ stored = NoWrite
  /\ watching = FALSE
  /\ online = TRUE
  /\ toServer = <<>> /\ toClient = <<>>
  /\ sdk = FreshClient
  /\ mainQueue = <<>>
  /\ shown = <<>>
  /\ writes = 0
  /\ knows = FALSE /\ refused = FALSE /\ settled = 0
  /\ others = 0 /\ types = 0 /\ leaves = 0 /\ faults = 0

Server == ServerListen \/ ServerPut
Client == ReceiveData \/ ReceiveAck
Main   == HandleEvent \/ ShowText
User   == ShowLabel \/ OpenEdit \/ Leave \/ Cover
               \/ \E text \in Texts : Type(text)
Fault  == Kill \/ Drop \/ ServerRefuse

Next == Server \/ Client \/ Main \/ User \/ Fault \/ Reconnect
          \/ \E name \in OthersNames : OthersWrite(name)

\* Serial queues run, the server answers, the client reconnects; users may do
\* nothing, and nothing has to break.
Fairness == WF_vars(Server) /\ WF_vars(Client) /\ WF_vars(Main) /\ WF_vars(Reconnect)

Spec == Init /\ [][Next]_vars
FairSpec == Spec /\ Fairness

-----------------------------------------------------------------------------
(* Properties.                                                             *)

Known == {Trimmed[text] : text \in Texts} \cup OthersNames \cup {Blank} \cup 1 .. writes
Write == [write : 0 .. writes, name : Known]

\* Types: what is written is a name, never null; one field is open at most.
TypeOK ==
  /\ stored \in Write \cup {NoWrite}
  /\ {watching, online, knows, refused} \subseteq BOOLEAN
  /\ settled \in 0 .. writes
  /\ sdk.cache \in Known \cup {NoName}
  /\ sdk.pending \in Seq(Write)
  /\ sdk.complete => sdk.listening
  /\ shown \in Seq([kind : {"label", "field", "closed"}, typed : BOOLEAN,
                    text : Known \cup Texts \cup {NoName}])
  /\ \A j, k \in DOMAIN shown : shown[j].kind = "field" /\ shown[k].kind = "field" => j = k
  /\ \A n \in DOMAIN mainQueue : mainQueue[n].view \in DOMAIN shown
  /\ ~ online => toServer = <<>> /\ toClient = <<>> /\ ~ watching

IsCurrent(view) ==
  view.kind = "label" \/ (view.kind = "field" /\ ~ view.typed) => view.text = Value(sdk)

\* Once the main queue is quiet, every view shows the name of the client's view,
\* over inventions by several observers, events that wait while others are raised,
\* and the device's own writes; only what the user typed into the open field is
\* another text.
QuietTextIsCurrent ==
  mainQueue = <<>> /\ Complete(sdk) => \A k \in DOMAIN shown : IsCurrent(shown[k])

\* An app that has found a name never replaces a name by a random one, over lost
\* connections, late events and answers, unless one of its writes was refused.
FoundNamesStand ==
  [][knows /\ ~ refused =>
       \A n \in DOMAIN sdk'.pending :
         sdk'.pending[n].write > writes => sdk'.pending[n].name # writes']_vars

\* An edit screen that disappears untouched, with nothing waiting on the main
\* queue and the name known, writes back the name there is.
UntouchedKeepsName ==
  [][mainQueue = <<>> /\ Complete(sdk) /\ Len(sdk'.pending) > Len(sdk.pending)
       /\ ~ shown[Field].typed
       => Value(sdk') = Value(sdk)]_vars

\* Of its own writes, the last one stands: once none of them is pending, the server
\* holds no earlier one of the device, though writes may be stored again after a
\* lost connection.  (One that was stored may be refused when it is sent again.)
OwnLastWriteStands ==
  sdk.pending = <<>> /\ stored.write # 0 /\ settled # 0 /\ ~ refused
    => stored.write = settled

\* In the end every label shows the server's name, over races of inventions,
\* renames, lost connections, refused writes and restarts: so do all devices.
NamesConverge ==
  <>[](\A k \in DOMAIN shown :
         shown[k].kind = "label" => shown[k].text = stored.name /\ stored # NoWrite)
=============================================================================
