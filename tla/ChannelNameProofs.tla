-------------------------- MODULE ChannelNameProofs --------------------------
(***************************************************************************)
(* Proofs about ChannelName, for any names, any number of observers and    *)
(* any number of lost connections, refused writes and restarts.            *)
(*                                                                         *)
(* The invariant has six parts.  Types.  PutsInOrder: the pending writes   *)
(* are those under way, in their order, so that each answer is about the   *)
(* first one.  Settling: what the server holds of this device is the write *)
(* it accepted last, or a pending one.  Hearing: a listener is in place    *)
(* before any put is stored, what it is told ends with what is stored, and *)
(* after a name it is never told that there is none.  Finding: the same of *)
(* the client's view and of the events that wait, once an app has found a  *)
(* name.  Hearers: the last word that waits for a view, or what it shows,  *)
(* is the name of the client's view.                                       *)
(***************************************************************************)
EXTENDS ChannelName, SequenceTheorems, TLAPS

-----------------------------------------------------------------------------
(* Sequences.                                                              *)

LEMMA Appended ==
  ASSUME NEW S, NEW q \in Seq(S), NEW e \in S
  PROVE  /\ Append(q, e) \in Seq(S) /\ Append(q, e) # <<>>
         /\ Len(q) \in Nat /\ DOMAIN q = 1 .. Len(q) /\ DOMAIN Append(q, e) = 1 .. Len(q) + 1
         /\ Len(Append(q, e)) = Len(q) + 1
         /\ \A n \in 1 .. Len(q) : Append(q, e)[n] = q[n]
         /\ Append(q, e)[Len(q) + 1] = e
BY AppendProperties, LenProperties

LEMMA Taken ==
  ASSUME NEW S, NEW q \in Seq(S), q # <<>>
  PROVE  /\ Head(q) \in S /\ Tail(q) \in Seq(S) /\ Head(q) = q[1]
         /\ Len(q) \in Nat \ {0} /\ DOMAIN q = 1 .. Len(q) /\ DOMAIN Tail(q) = 1 .. Len(q) - 1
         /\ Len(Tail(q)) = Len(q) - 1
         /\ \A n \in 1 .. Len(q) - 1 : Tail(q)[n] = q[n + 1]
BY HeadTailProperties, EmptySeq, LenProperties

LEMMA Joined ==
  ASSUME NEW S, NEW q \in Seq(S), NEW r \in Seq(S)
  PROVE  /\ q \o r \in Seq(S)
         /\ Len(q) \in Nat /\ Len(r) \in Nat /\ DOMAIN q = 1 .. Len(q) /\ DOMAIN r = 1 .. Len(r)
         /\ DOMAIN (q \o r) = 1 .. Len(q) + Len(r)
         /\ \A n \in 1 .. Len(q) : (q \o r)[n] = q[n]
         /\ \A n \in 1 .. Len(r) : (q \o r)[Len(q) + n] = r[n]
         /\ \A n \in DOMAIN (q \o r) :
              n \in 1 .. Len(q) \/ (n - Len(q) \in 1 .. Len(r) /\ Len(q) + (n - Len(q)) = n)
<1> DEFINE new == q \o r
<1>1. /\ new \in Seq(S) /\ Len(new) = Len(q) + Len(r)
      /\ Len(q) \in Nat /\ Len(r) \in Nat /\ DOMAIN q = 1 .. Len(q) /\ DOMAIN r = 1 .. Len(r)
      /\ DOMAIN new = 1 .. Len(q) + Len(r)
  BY ConcatProperties, LenProperties
<1>2. \A n \in 1 .. Len(q) + Len(r) : new[n] = IF n <= Len(q) THEN q[n] ELSE r[n - Len(q)]
  BY ConcatProperties
<1> HIDE DEF new
<1>3. \A n \in 1 .. Len(q) : n \in 1 .. Len(q) + Len(r) /\ n <= Len(q)
  BY <1>1
<1>4. \A n \in 1 .. Len(r) : /\ Len(q) + n \in 1 .. Len(q) + Len(r) /\ ~ Len(q) + n <= Len(q)
                             /\ (Len(q) + n) - Len(q) = n
  BY <1>1
<1>5. \A n \in 1 .. Len(q) + Len(r) :
        n \in 1 .. Len(q) \/ (n - Len(q) \in 1 .. Len(r) /\ Len(q) + (n - Len(q)) = n)
  BY <1>1
<1>6. /\ \A n \in 1 .. Len(q) : new[n] = q[n]
      /\ \A n \in 1 .. Len(r) : new[Len(q) + n] = r[n]
  BY <1>2, <1>3, <1>4
<1>7. QED
  BY <1>1, <1>5, <1>6 DEF new

LEMMA Nothing ==
  /\ DOMAIN <<>> = {} /\ Len(<<>>) = 0 /\ \A S : <<>> \in Seq(S)
  /\ \A S : \A q \in Seq(S) : q # <<>> => 1 \in DOMAIN q /\ Len(q) \in DOMAIN q
BY EmptySeq, LenProperties

LEMMA Single ==
  ASSUME NEW S, NEW e \in S
  PROVE  <<e>> \in Seq(S) /\ <<e>> # <<>> /\ Len(<<e>>) = 1 /\ DOMAIN <<e>> = {1} /\ <<e>>[1] = e
OBVIOUS

LEMMA Wider ==
  ASSUME NEW S, NEW T, S \subseteq T
  PROVE  Seq(S) \subseteq Seq(T)
BY SeqMonotonic

-----------------------------------------------------------------------------
(* Types.                                                                  *)

Names    == Known \cup {NoName}
Own      == [write : 1 .. writes, name : Known]
Requests == {Listen} \cup [kind : {"put"}, write : Own]
Answers  == [kind : {"data"}, name : Names] \cup [kind : {"ack"}, write : Own, ok : BOOLEAN]
Blocks   == [kind : {"event"}, view : DOMAIN shown, name : Names]
              \cup [kind : {"text"}, view : DOMAIN shown, name : Known]
Clients  == [listening : BOOLEAN, complete : BOOLEAN, cache : Names, pending : Seq(Own)]
Views    == [kind : {"label", "field", "closed"}, text : Names \cup Texts, typed : BOOLEAN]

QueueTypes == toServer \in Seq(Requests) /\ toClient \in Seq(Answers) /\ mainQueue \in Seq(Blocks)

ViewTypes ==
  /\ shown \in Seq(Views)
  /\ \A j, k \in DOMAIN shown : shown[j].kind = "field" /\ shown[k].kind = "field" => j = k
  /\ \A k \in DOMAIN shown : shown[k].kind = "label" => ~ shown[k].typed

\* Without a connection nothing is under way, nor before a view is shown.
Idle ==
  /\ ~ online \/ ~ sdk.listening => toServer = <<>> /\ toClient = <<>> /\ ~ watching
  /\ shown # <<>> \/ sdk.pending # <<>> \/ sdk.complete => sdk.listening

Types ==
  /\ stored \in Write \cup {NoWrite}
  /\ watching \in BOOLEAN /\ online \in BOOLEAN /\ knows \in BOOLEAN /\ refused \in BOOLEAN
  /\ writes \in Nat /\ settled \in 0 .. writes
  /\ sdk \in Clients
  /\ QueueTypes /\ ViewTypes /\ Idle

\* Names are no numbers but those that are invented, and no texts.
LEMMA NameFacts ==
  ASSUME writes \in Nat
  PROVE  /\ NoName \notin Known /\ Blank \in Known
         /\ \A name \in Known : name \notin Texts /\ (name \in Nat => name \in 1 .. writes)
         /\ \A text \in Texts : Trimmed[text] \in Known
         /\ OthersNames \subseteq Known
<1>1. /\ NoName # Blank /\ {NoName, Blank} \cap Texts = {}
      /\ \A text \in Texts : Trimmed[text] \notin Texts \cup {NoName}
      /\ NoName \notin OthersNames /\ OthersNames \cap Texts = {}
  BY ChannelNameAssumption
<1>2. /\ NoName \notin Nat /\ Blank \notin Nat
      /\ \A name \in Texts \cup OthersNames : name \notin Nat
      /\ \A text \in Texts : Trimmed[text] \notin Nat
  BY ChannelNameAssumption
<1>3. \A n \in 1 .. writes : n \in Nat
  OBVIOUS
<1>4. \A name \in Known : name \notin Texts /\ name # NoName /\ (name \in Nat => name \in 1 .. writes)
  BY <1>1, <1>2, <1>3 DEF Known
<1>5. QED
  BY <1>4 DEF Known

\* Writes and views only become more.
Grows == writes' \in Nat /\ writes <= writes' /\ DOMAIN shown \subseteq DOMAIN shown'

LEMMA Growing ==
  ASSUME Types, Grows
  PROVE  /\ Known \subseteq Known' /\ Names \subseteq Names' /\ Own \subseteq Own'
         /\ 1 .. writes \subseteq 1 .. writes' /\ 0 .. writes \subseteq 0 .. writes'
         /\ Requests \subseteq Requests' /\ Answers \subseteq Answers' /\ Blocks \subseteq Blocks'
         /\ Clients \subseteq Clients' /\ Views \subseteq Views' /\ Write \subseteq Write'
         /\ toServer \in Seq(Requests') /\ toClient \in Seq(Answers') /\ mainQueue \in Seq(Blocks')
         /\ shown \in Seq(Views')
<1>1. 1 .. writes \subseteq 1 .. writes' /\ 0 .. writes \subseteq 0 .. writes'
  BY DEF Types, Grows
<1>2. Known \subseteq Known'
  BY <1>1 DEF Known
<1>3. Names \subseteq Names' /\ Own \subseteq Own' /\ Write \subseteq Write'
  BY <1>1, <1>2 DEF Names, Own, Write
<1>4. /\ Requests \subseteq Requests' /\ Answers \subseteq Answers' /\ Views \subseteq Views'
      /\ Blocks \subseteq Blocks'
  BY <1>2, <1>3 DEF Requests, Answers, Views, Blocks, Grows
<1>5. Clients \subseteq Clients'
  <2>1. Seq(Own) \subseteq Seq(Own')
    BY <1>3, Wider
  <2>2. QED
    BY <1>3, <2>1 DEF Clients
<1>6. /\ Seq(Requests) \subseteq Seq(Requests') /\ Seq(Answers) \subseteq Seq(Answers')
      /\ Seq(Blocks) \subseteq Seq(Blocks') /\ Seq(Views) \subseteq Seq(Views')
  BY <1>4, Wider
<1>7. QED
  BY <1>1, <1>2, <1>3, <1>4, <1>5, <1>6 DEF Types, QueueTypes, ViewTypes

\* The kinds of messages and blocks, and what they carry.
LEMMA Kinds ==
  /\ \A r \in Requests : r = Listen \/ (r.kind = "put" /\ r.write \in Own)
  /\ \A r \in Requests : r.kind = "put" <=> r # Listen
  /\ \A a \in Answers : \/ a.kind = "data" /\ a.name \in Names
                        \/ a.kind = "ack" /\ a.write \in Own /\ a.ok \in BOOLEAN
  /\ \A b \in Blocks : /\ b.view \in DOMAIN shown
                       /\ \/ b.kind = "event" /\ b.name \in Names
                          \/ b.kind = "text" /\ b.name \in Known
BY DEF Requests, Answers, Blocks, Listen

-----------------------------------------------------------------------------
(* Steps of the client.                                                    *)

LEMMA ValueIsName ==
  ASSUME writes \in Nat, NEW c \in Clients
  PROVE  /\ Value(c) \in Names
         /\ c.pending # <<>> => Value(c) \in Known
<1>1. c.pending \in Seq(Own) /\ c.cache \in Names
  BY DEF Clients
<1>2. c.pending # <<>> => c.pending[Len(c.pending)] \in Own
  BY <1>1, Nothing, ElementOfSeq
<1>3. c.pending # <<>> => c.pending[Len(c.pending)].name \in Known
  BY <1>2 DEF Own
<1>4. QED
  BY <1>1, <1>3 DEF Value, Names

\* What a changed client raises: an event with its name for every view, or nothing.
LEMMA RaisedFacts ==
  ASSUME Types, NEW c, Value(c) \in Names'
  PROVE  /\ Raised(c) \in Seq([kind : {"event"}, view : DOMAIN shown, name : Names'])
         /\ \A n \in DOMAIN Raised(c) : Raised(c)[n].kind = "event" /\ Raised(c)[n].name = Value(c)
         /\ Complete(c) /\ (~ Complete(sdk) \/ Value(c) # Value(sdk)) =>
              /\ DOMAIN Raised(c) = DOMAIN shown
              /\ \A k \in DOMAIN shown : Raised(c)[k].view = k
         /\ ~ (Complete(c) /\ (~ Complete(sdk) \/ Value(c) # Value(sdk))) => Raised(c) = <<>>
<1> DEFINE S == [kind : {"event"}, view : DOMAIN shown, name : Names']
<1>1. shown \in Seq(Views) /\ Len(shown) \in Nat /\ DOMAIN shown = 1 .. Len(shown)
  BY LenProperties DEF Types, ViewTypes
<1>2. CASE Complete(c) /\ (~ Complete(sdk) \/ Value(c) # Value(sdk))
  <2>1. Raised(c) = [k \in 1 .. Len(shown) |-> Event(k, Value(c))]
    BY <1>1, <1>2 DEF Raised
  <2>2. \A k \in 1 .. Len(shown) : Event(k, Value(c)) \in S
    BY <1>1 DEF Event
  <2>3. [k \in 1 .. Len(shown) |-> Event(k, Value(c))] \in Seq(S)
    BY <1>1, <2>2, IsASeq
  <2>4. QED
    BY <1>1, <1>2, <2>1, <2>3 DEF Event
<1>3. CASE ~ (Complete(c) /\ (~ Complete(sdk) \/ Value(c) # Value(sdk)))
  BY <1>3, Nothing DEF Raised
<1>4. QED
  BY <1>2, <1>3

\* A call of setValue: the write is the last one pending, and sent if there is a
\* connection; every view hears of a name that is not the one before.
LEMMA SetValueFacts ==
  ASSUME Types, Grows, NEW name \in Known', NEW blocks \in Seq(Blocks'), SetValue(name, blocks)
  PROVE  LET w == [write |-> writes + 1, name |-> name]
         IN  /\ writes' = writes + 1 /\ w \in Own'
             /\ sdk' \in Clients' /\ sdk'.pending = Append(sdk.pending, w)
             /\ UNCHANGED <<sdk.listening, sdk.complete, sdk.cache>>
             /\ Value(sdk') = name /\ Complete(sdk')
             /\ toServer' = (IF online THEN Append(toServer, Put(w)) ELSE toServer)
             /\ Put(w) \in Requests' /\ toServer' \in Seq(Requests')
             /\ mainQueue' = blocks \o Raised(sdk') /\ mainQueue' \in Seq(Blocks')
<1> DEFINE w == [write |-> writes + 1, name |-> name]
<1>1. /\ writes' = writes + 1 /\ sdk' = [sdk EXCEPT !.pending = Append(sdk.pending, w)]
      /\ mainQueue' = blocks \o Raised(sdk')
      /\ toServer' = IF online THEN Append(toServer, Put(w)) ELSE toServer
  BY DEF SetValue, SetClient, Request
<1>2. w \in Own' /\ writes \in Nat
  BY <1>1 DEF Own, Types
<1>3. Put(w) \in Requests' /\ toServer \in Seq(Requests')
  BY <1>2, Growing DEF Put, Requests
<1>4. sdk \in Clients' /\ sdk \in Clients
  BY Growing DEF Types
<1> HIDE DEF w
<1>5. toServer' \in Seq(Requests')
  BY <1>1, <1>3, Appended
<1>6. sdk.pending \in Seq(Own') /\ Append(sdk.pending, w) \in Seq(Own')
  BY <1>2, <1>4, Appended DEF Clients
<1>7. /\ sdk' \in Clients' /\ sdk'.pending = Append(sdk.pending, w)
      /\ UNCHANGED <<sdk.listening, sdk.complete, sdk.cache>>
  BY <1>1, <1>4, <1>6 DEF Clients
<1>8. Value(sdk') = name /\ Complete(sdk')
  <2>1. sdk'.pending # <<>> /\ sdk'.pending[Len(sdk'.pending)] = w
    BY <1>2, <1>6, <1>7, Appended
  <2>2. QED
    BY <2>1 DEF Value, Complete, w
<1>9. mainQueue' \in Seq(Blocks')
  <2>1. Raised(sdk') \in Seq([kind : {"event"}, view : DOMAIN shown, name : Names'])
    BY <1>8, RaisedFacts DEF Names
  <2>2. [kind : {"event"}, view : DOMAIN shown, name : Names'] \subseteq Blocks'
    BY DEF Blocks, Grows
  <2>3. Raised(sdk') \in Seq(Blocks')
    BY <2>1, <2>2, Wider
  <2>4. QED
    BY <1>1, <2>3, Joined
<1>10. QED
  BY <1>1, <1>2, <1>3, <1>5, <1>7, <1>8, <1>9 DEF w

-----------------------------------------------------------------------------
(* Types are preserved.                                                    *)

LEMMA TypesInit == Init => Types
<1> SUFFICES ASSUME Init PROVE Types
  OBVIOUS
<1>1. /\ stored = NoWrite /\ watching = FALSE /\ online = TRUE /\ knows = FALSE /\ refused = FALSE
      /\ writes = 0 /\ settled = 0 /\ sdk = FreshClient /\ shown = <<>>
      /\ toServer = <<>> /\ toClient = <<>> /\ mainQueue = <<>>
  BY DEF Init
<1>2. FreshClient \in Clients /\ FreshClient.pending = <<>> /\ ~ FreshClient.complete
  BY Nothing DEF FreshClient, Clients, Names
<1>3. QueueTypes /\ ViewTypes /\ Idle
  BY <1>1, <1>2, Nothing DEF QueueTypes, ViewTypes, Idle
<1>4. /\ stored \in Write \cup {NoWrite} /\ writes \in Nat /\ settled \in 0 .. writes
      /\ watching \in BOOLEAN /\ online \in BOOLEAN /\ knows \in BOOLEAN /\ refused \in BOOLEAN
  <2>1. stored \in Write \cup {NoWrite}
    BY <1>1
  <2>2. writes \in Nat /\ settled \in 0 .. writes
    BY <1>1
  <2>3. watching \in BOOLEAN /\ online \in BOOLEAN /\ knows \in BOOLEAN /\ refused \in BOOLEAN
    BY <1>1
  <2>4. QED
    BY <2>1, <2>2, <2>3
<1>5. sdk \in Clients
  BY <1>1, <1>2
<1>6. QED
  BY <1>3, <1>4, <1>5 DEF Types

\* A view is added, with nothing shown.
LEMMA ShowFacts ==
  ASSUME Types, NEW kind \in {"label", "field"}, Show(kind)
  PROVE  LET view == [kind |-> kind, text |-> NoName, typed |-> FALSE]
             new  == Len(shown) + 1
         IN  /\ shown' = Append(shown, view) /\ view \in Views /\ shown' \in Seq(Views)
             /\ Len(shown) \in Nat /\ DOMAIN shown = 1 .. Len(shown) /\ DOMAIN shown' = 1 .. new
             /\ \A k \in DOMAIN shown : shown'[k] = shown[k]
             /\ shown'[new] = view
             /\ sdk' = [sdk EXCEPT !.listening = TRUE] /\ sdk' \in Clients
             /\ Value(sdk') = Value(sdk) /\ (Complete(sdk') <=> Complete(sdk))
             /\ sdk'.pending = sdk.pending /\ sdk'.listening /\ sdk'.cache = sdk.cache
             /\ Grows /\ UNCHANGED <<writes, online, watching, toClient>>
             /\ mainQueue' = IF Complete(sdk) THEN Append(mainQueue, Event(new, Value(sdk)))
                                              ELSE mainQueue
             /\ Event(new, Value(sdk)) \in Blocks'
<1> DEFINE view == [kind |-> kind, text |-> NoName, typed |-> FALSE]
           new  == Len(shown) + 1
<1>1. view \in Views
  BY DEF Views, Names
<1>2. shown' = Append(shown, view) /\ shown \in Seq(Views)
  BY DEF Show, Types, ViewTypes
<1> HIDE DEF view
<1>3. /\ Len(shown) \in Nat /\ DOMAIN shown = 1 .. Len(shown) /\ DOMAIN shown' = 1 .. new
      /\ \A k \in DOMAIN shown : shown'[k] = shown[k]
      /\ shown'[new] = view /\ Len(shown') = new /\ shown' \in Seq(Views)
  BY <1>1, <1>2, Appended
<1>4. /\ sdk' = [sdk EXCEPT !.listening = TRUE] /\ UNCHANGED <<writes, online, watching, toClient>>
      /\ mainQueue' = IF Complete(sdk) THEN Append(mainQueue, Event(Len(shown'), Value(sdk)))
                                       ELSE mainQueue
  BY DEF Show, server
<1>5. sdk \in Clients /\ writes \in Nat
  BY DEF Types
<1>6. /\ sdk' \in Clients /\ Value(sdk') = Value(sdk) /\ (Complete(sdk') <=> Complete(sdk))
      /\ sdk'.pending = sdk.pending /\ sdk'.listening /\ sdk'.cache = sdk.cache
  BY <1>4, <1>5 DEF Clients, Value, Complete
<1>7. Grows
  BY <1>3, <1>4, <1>5 DEF Grows
<1>8. Event(new, Value(sdk)) \in Blocks'
  <2>1. Value(sdk) \in Names /\ new \in DOMAIN shown' /\ Names' = Names
    BY <1>3, <1>4, <1>5, ValueIsName DEF Names, Known
  <2>2. QED
    BY <2>1 DEF Event, Blocks
<1>9. QED
  BY <1>1, <1>2, <1>3, <1>4, <1>6, <1>7, <1>8 DEF view

LEMMA ShowKeepsTypes ==
  ASSUME Types, ShowLabel \/ OpenEdit
  PROVE  Types'
<1>1. PICK kind \in {"label", "field"} : Show(kind) /\ (kind = "field" => ~ IsOpen)
  BY DEF ShowLabel, OpenEdit
<1> DEFINE view == [kind |-> kind, text |-> NoName, typed |-> FALSE]
           new  == Len(shown) + 1
<1>2. /\ shown' \in Seq(Views) /\ DOMAIN shown = 1 .. Len(shown) /\ DOMAIN shown' = 1 .. new
      /\ \A k \in DOMAIN shown : shown'[k] = shown[k]
      /\ shown'[new] = view /\ Len(shown) \in Nat
  BY <1>1, ShowFacts
<1>3. /\ sdk' \in Clients /\ sdk' = [sdk EXCEPT !.listening = TRUE]
      /\ sdk'.listening /\ Grows /\ UNCHANGED <<writes, online, watching, toClient>>
      /\ mainQueue' \in {mainQueue, Append(mainQueue, Event(new, Value(sdk)))}
      /\ Event(new, Value(sdk)) \in Blocks'
  BY <1>1, ShowFacts
<1>4. UNCHANGED <<stored, knows, refused, settled>>
  BY <1>1 DEF Show, server, history
<1>5. UNCHANGED <<Known, Names, Own, Requests, Answers, Clients, Views, Write>>
  BY <1>3 DEF Known, Names, Own, Requests, Answers, Clients, Views, Write
<1>6. QueueTypes'
  <2>1. mainQueue \in Seq(Blocks') /\ toServer \in Seq(Requests) /\ toClient \in Seq(Answers)
    BY <1>3, Growing DEF Types, QueueTypes
  <2>2. mainQueue' \in Seq(Blocks')
    <3> DEFINE e == Event(new, Value(sdk))
    <3> HIDE DEF e
    <3>1. mainQueue' = mainQueue \/ mainQueue' = Append(mainQueue, e)
      BY <1>3 DEF e
    <3>2. e \in Blocks'
      BY <1>3 DEF e
    <3>3. Append(mainQueue, e) \in Seq(Blocks')
      BY <2>1, <3>2, Appended
    <3>4. QED
      BY <2>1, <3>1, <3>3
  <2>3. toServer' = toServer \/ toServer' = Append(toServer, Listen)
    BY <1>1 DEF Show, Request
  <2>4. toServer' \in Seq(Requests)
    <3>1. Listen \in Requests
      BY DEF Requests
    <3>2. Append(toServer, Listen) \in Seq(Requests)
      BY <2>1, <3>1, Appended
    <3>3. QED
      BY <2>1, <2>3, <3>2
  <2>5. QED
    BY <1>3, <1>5, <2>1, <2>2, <2>4 DEF QueueTypes
<1>7. ViewTypes'
  <2>1. \A k \in DOMAIN shown' : k \in DOMAIN shown \/ k = new
    BY <1>2
  <2>2. kind = "field" => \A k \in DOMAIN shown : shown[k].kind # "field"
    BY <1>1 DEF IsOpen
  <2>3. view.kind = kind /\ ~ view.typed
    OBVIOUS
  <2> HIDE DEF view, new
  <2>4. QED
    BY <1>2, <1>5, <2>1, <2>2, <2>3 DEF ViewTypes, Types
<1>8. Idle'
  <2>1. ~ online => toServer' = toServer
    BY <1>1 DEF Show, Request
  <2>2. QED
    BY <1>3, <2>1 DEF Idle, Types
<1>9. QED
  BY <1>3, <1>4, <1>5, <1>6, <1>7, <1>8 DEF Types

LEMMA FieldFacts ==
  ASSUME IsOpen
  PROVE  Field \in DOMAIN shown /\ shown[Field].kind = "field"
BY DEF IsOpen, Field

\* One view is changed.
LEMMA ViewChanges ==
  ASSUME Types, NEW k \in DOMAIN shown, NEW view \in Views, shown' = [shown EXCEPT ![k] = view],
         writes' \in Nat, writes <= writes', view.kind = "field" => shown[k].kind = "field",
         view.kind = "label" => ~ view.typed
  PROVE  /\ ViewTypes' /\ Grows /\ DOMAIN shown' = DOMAIN shown /\ shown'[k] = view
         /\ \A j \in DOMAIN shown : j # k => shown'[j] = shown[j]
         /\ shown # <<>>
<1>1. shown \in Seq(Views) /\ DOMAIN shown = 1 .. Len(shown) /\ Len(shown) \in Nat
  BY LenProperties DEF Types, ViewTypes
<1>2. /\ DOMAIN shown' = DOMAIN shown /\ shown'[k] = view
      /\ \A j \in DOMAIN shown : j # k => shown'[j] = shown[j]
  BY <1>1
<1>3. Grows
  BY <1>2 DEF Grows
<1>4. shown' \in Seq(Views')
  <2>1. \A j \in 1 .. Len(shown) : shown'[j] \in Views
    BY <1>1, <1>2, ElementOfSeq
  <2>2. shown' = [j \in 1 .. Len(shown) |-> shown'[j]]
    BY <1>1
  <2>3. shown' \in Seq(Views)
    BY <1>1, <2>1, <2>2, IsASeq
  <2>4. QED
    BY <1>3, <2>3, Growing, Wider
<1>5. ViewTypes'
  BY <1>2, <1>4 DEF ViewTypes, Types
<1>6. QED
  BY <1>1, <1>2, <1>3, <1>5, Nothing

\* An edit screen disappears: its text is written back.
LEMMA WritesBack ==
  ASSUME Types, NEW kind \in {"closed", "field"}, Disappear(kind)
  PROVE  LET name == WrittenBack(shown[Field].text)
             view == [shown[Field] EXCEPT !.kind = kind]
         IN  /\ Field \in DOMAIN shown /\ shown[Field].kind = "field" /\ shown[Field] \in Views
             /\ name \in Known /\ name \in Known' /\ SetValue(name, mainQueue)
             /\ mainQueue \in Seq(Blocks') /\ Grows /\ writes' = writes + 1
             /\ shown' = [shown EXCEPT ![Field] = view]
             /\ UNCHANGED <<server, online, toClient, knows, refused, settled>>
<1>1. Field \in DOMAIN shown /\ shown[Field].kind = "field"
  BY FieldFacts DEF Disappear
<1>2. shown[Field] \in Views /\ writes \in Nat
  BY <1>1, ElementOfSeq, LenProperties DEF Types, ViewTypes
<1>3. WrittenBack(shown[Field].text) \in Known
  BY <1>2, NameFacts DEF WrittenBack, Views, Names
<1>4. /\ SetValue(WrittenBack(shown[Field].text), mainQueue) /\ writes' = writes + 1
      /\ shown' = [shown EXCEPT ![Field] = [shown[Field] EXCEPT !.kind = kind]]
      /\ UNCHANGED <<server, online, toClient, knows, refused, settled>>
  BY <1>1, <1>2 DEF Disappear, SetValue, history
<1>5. Grows
  <2>1. DOMAIN shown' = DOMAIN shown
    BY <1>4
  <2>2. QED
    BY <1>2, <1>4, <2>1 DEF Grows
<1>6. WrittenBack(shown[Field].text) \in Known' /\ mainQueue \in Seq(Blocks')
  BY <1>3, <1>5, Growing
<1>7. QED
  BY <1>1, <1>2, <1>3, <1>4, <1>5, <1>6

LEMMA UserKeepsTypes ==
  ASSUME Types, Leave \/ Cover \/ \E text \in Texts : Type(text)
  PROVE  Types'
<1>1. IsOpen /\ Field \in DOMAIN shown /\ shown[Field].kind = "field"
  BY FieldFacts DEF Leave, Cover, Disappear, Type
<1>2. shown \in Seq(Views) /\ shown[Field] \in Views /\ writes \in Nat
  BY <1>1, ElementOfSeq, LenProperties DEF Types, ViewTypes
<1>3. ASSUME NEW text \in Texts, Type(text) PROVE Types'
  <2> DEFINE view == [shown[Field] EXCEPT !.text = text, !.typed = TRUE]
  <2>1. /\ shown' = [shown EXCEPT ![Field] = view]
        /\ UNCHANGED <<server, network, sdk, mainQueue, writes, history>>
    BY <1>3 DEF Type
  <2>2. view \in Views /\ view.kind = "field"
    BY <1>1, <1>2 DEF Views
  <2> HIDE DEF view
  <2>3. ViewTypes' /\ Grows /\ DOMAIN shown' = DOMAIN shown /\ shown # <<>>
    <3>1. writes' \in Nat /\ writes <= writes'
      BY <1>2, <2>1
    <3>2. QED
      BY <1>1, <2>1, <2>2, <3>1, ViewChanges
  <2>4. UNCHANGED <<Known, Names, Own, Requests, Answers, Blocks, Clients, Write>>
    BY <2>1, <2>3 DEF Known, Names, Own, Requests, Answers, Blocks, Clients, Write
  <2>5. UNCHANGED <<stored, watching, online, knows, refused, settled, toServer, toClient, sdk,
                    mainQueue, writes>>
    BY <2>1 DEF server, network, history
  <2>6. QED
    BY <2>3, <2>4, <2>5 DEF Types, QueueTypes, Idle
<1>4. ASSUME NEW kind \in {"closed", "field"}, Disappear(kind) PROVE Types'
  <2> DEFINE view == [shown[Field] EXCEPT !.kind = kind]
             name == WrittenBack(shown[Field].text)
  <2>1. /\ shown' = [shown EXCEPT ![Field] = view] /\ SetValue(name, mainQueue) /\ writes' = writes + 1
        /\ name \in Known' /\ mainQueue \in Seq(Blocks')
        /\ UNCHANGED <<server, online, toClient, knows, refused, settled>>
    BY <1>4, WritesBack
  <2>2. view \in Views /\ view.kind \in {"closed", "field"}
    BY <1>1, <1>2 DEF Views
  <2> HIDE DEF view, name
  <2>3. ViewTypes' /\ Grows /\ DOMAIN shown' = DOMAIN shown /\ shown # <<>>
    <3>1. writes' \in Nat /\ writes <= writes'
      BY <1>2, <2>1
    <3>2. QED
      BY <1>1, <2>1, <2>2, <3>1, ViewChanges
  <2>4. /\ sdk' \in Clients' /\ toServer' \in Seq(Requests') /\ mainQueue' \in Seq(Blocks')
        /\ sdk'.listening = sdk.listening /\ sdk'.complete = sdk.complete
        /\ ~ online => toServer' = toServer
    BY <2>1, <2>3, SetValueFacts
  <2>5. Idle'
    BY <2>1, <2>3, <2>4 DEF Idle, Types, server
  <2>6. /\ stored' \in Write' \cup {NoWrite} /\ settled' \in 0 .. writes' /\ writes' \in Nat
        /\ toClient' \in Seq(Answers')
    BY <1>2, <2>1, <2>3, Growing DEF Types, server
  <2>7. QED
    BY <2>1, <2>3, <2>4, <2>5, <2>6 DEF Types, QueueTypes, server
<1>5. QED
  BY <1>3, <1>4 DEF Leave, Cover

\* The first block of the main queue.
LEMMA FirstBlock ==
  ASSUME Types, mainQueue # <<>>
  PROVE  /\ Head(mainQueue) = mainQueue[1] /\ Head(mainQueue) \in Blocks
         /\ Tail(mainQueue) \in Seq(Blocks)
BY Taken DEF Types, QueueTypes

\* An event is handled: a name is passed on,
LEMMA PassesOn ==
  ASSUME Types, HandleEvent, Named(Head(mainQueue).name)
  PROVE  LET block == Head(mainQueue)
             text  == SetText(block.view, block.name)
         IN  /\ mainQueue # <<>> /\ block.kind = "event" /\ text \in Blocks
             /\ mainQueue' = Append(Tail(mainQueue), text) /\ knows'
             /\ UNCHANGED <<sdk, toServer, writes, server, online, toClient, shown, refused, settled>>
<1>1. mainQueue # <<>> /\ Head(mainQueue).kind = "event"
  BY DEF HandleEvent
<1>2. Head(mainQueue).view \in DOMAIN shown /\ Head(mainQueue).name \in Known
  BY <1>1, FirstBlock, Kinds DEF Named, Names
<1>3. QED
  BY <1>1, <1>2 DEF HandleEvent, SetText, Blocks

\* or one is invented.
LEMMA Invents ==
  ASSUME Types, HandleEvent, ~ Named(Head(mainQueue).name)
  PROVE  LET block == Head(mainQueue)
             text  == SetText(block.view, writes + 1)
             rest  == Append(Tail(mainQueue), text)
         IN  /\ mainQueue # <<>> /\ block.kind = "event" /\ block.name = NoName /\ text \in Blocks'
             /\ SetValue(writes + 1, rest) /\ rest \in Seq(Blocks') /\ Grows
             /\ writes + 1 \in Known' /\ writes' = writes + 1
             /\ UNCHANGED <<server, online, toClient, shown, refused, settled, knows>>
<1> DEFINE text == SetText(Head(mainQueue).view, writes + 1)
<1>1. /\ mainQueue # <<>> /\ Head(mainQueue).kind = "event" /\ Head(mainQueue).name = NoName
      /\ SetValue(writes + 1, Append(Tail(mainQueue), text))
      /\ UNCHANGED <<server, online, toClient, shown, refused, settled, knows>>
  BY DEF HandleEvent, Named
<1>2. writes' = writes + 1 /\ writes \in Nat
  BY <1>1 DEF SetValue, Types
<1>3. Grows
  BY <1>1, <1>2 DEF Grows
<1>4. writes + 1 \in Known'
  BY <1>2 DEF Known
<1>5. text \in Blocks'
  BY <1>1, <1>4, FirstBlock, Kinds DEF SetText, Blocks
<1>6. Tail(mainQueue) \in Seq(Blocks')
  <2>1. Blocks \subseteq Blocks'
    BY <1>3, Growing
  <2>2. QED
    BY <1>1, <2>1, FirstBlock, Wider
<1> HIDE DEF text
<1>7. Append(Tail(mainQueue), text) \in Seq(Blocks')
  BY <1>5, <1>6, Appended
<1>8. QED
  BY <1>1, <1>2, <1>3, <1>4, <1>5, <1>7 DEF text

\* A text is shown.
LEMMA Shows ==
  ASSUME Types, ShowText
  PROVE  LET block == Head(mainQueue)
         IN  /\ mainQueue # <<>> /\ block.kind = "text" /\ block.view \in DOMAIN shown
             /\ block.name \in Known /\ mainQueue' = Tail(mainQueue)
             /\ DOMAIN shown' = DOMAIN shown /\ shown'[block.view].text = block.name
             /\ \A k \in DOMAIN shown : k # block.view => shown'[k] = shown[k]
             /\ ViewTypes' /\ Grows /\ Tail(mainQueue) \in Seq(Blocks)
             /\ UNCHANGED <<server, network, sdk, writes, history>>
<1> DEFINE block == Head(mainQueue)
           view  == [shown[block.view] EXCEPT !.text = block.name, !.typed = FALSE]
<1>1. /\ mainQueue # <<>> /\ block.kind = "text" /\ mainQueue' = Tail(mainQueue)
      /\ UNCHANGED <<server, network, sdk, writes, history>>
      /\ shown' = [shown EXCEPT ![block.view] = view]
  BY DEF ShowText
<1>2. block.view \in DOMAIN shown /\ block.name \in Known /\ Tail(mainQueue) \in Seq(Blocks)
  BY <1>1, FirstBlock, Kinds
<1>3. shown[block.view] \in Views /\ writes \in Nat
  BY <1>2, ElementOfSeq, LenProperties DEF Types, ViewTypes
<1>4. view \in Views /\ view.kind = shown[block.view].kind /\ view.text = block.name /\ ~ view.typed
  BY <1>2, <1>3 DEF Views, Names
<1> HIDE DEF view
<1>5. /\ ViewTypes' /\ Grows /\ DOMAIN shown' = DOMAIN shown /\ shown'[block.view] = view
      /\ \A k \in DOMAIN shown : k # block.view => shown'[k] = shown[k]
  <2>1. writes' \in Nat /\ writes <= writes'
    BY <1>1, <1>3
  <2>2. view.kind = "label" => ~ view.typed
    BY <1>4
  <2>3. QED
    BY <1>1, <1>2, <1>4, <2>1, <2>2, ViewChanges
<1>6. QED
  BY <1>1, <1>2, <1>4, <1>5

-----------------------------------------------------------------------------
(* Writes under way.                                                       *)

Writing(m) == m.kind \in {"put", "ack"}

Writes(q) == {q[n].write : n \in {k \in DOMAIN q : Writing(q[k])}}

Rising(q) ==
  \A m, n \in DOMAIN q :
    m < n /\ Writing(q[m]) /\ Writing(q[n]) => q[m].write.write < q[n].write.write

Held(p) == {p[n] : n \in DOMAIN p}
Ordered(p) == \A m, n \in DOMAIN p : m < n => p[m].write < p[n].write

Pending == Held(sdk.pending)

\* The pending writes are those under way, acknowledged ones first, all of them in the
\* order of their numbers, and later than the one settled last.
PutsInOrder ==
  /\ Ordered(sdk.pending) /\ Rising(toServer) /\ Rising(toClient)
  /\ \A v \in Writes(toClient), w \in Writes(toServer) : v.write < w.write
  /\ online => Pending = Writes(toClient) \cup Writes(toServer)
  /\ \A w \in Pending : settled < w.write

LEMMA NoWrites == Writes(<<>>) = {} /\ Rising(<<>>)
BY Nothing DEF Writes, Rising

LEMMA WritesAppended ==
  ASSUME NEW S, NEW q \in Seq(S), NEW e \in S
  PROVE  /\ Writes(Append(q, e)) = Writes(q) \cup (IF Writing(e) THEN {e.write} ELSE {})
         /\ Rising(q) /\ (Writing(e) => \A v \in Writes(q) : v.write < e.write.write)
              => Rising(Append(q, e))
<1> DEFINE new == Append(q, e)
<1>1. /\ Len(q) \in Nat /\ DOMAIN q = 1 .. Len(q) /\ DOMAIN new = 1 .. Len(q) + 1
      /\ \A n \in 1 .. Len(q) : new[n] = q[n]
      /\ new[Len(q) + 1] = e
  BY Appended
<1> HIDE DEF new
<1>2. \A n \in DOMAIN new : n \in DOMAIN q \/ n = Len(q) + 1
  BY <1>1
<1>3. Writes(new) = Writes(q) \cup (IF Writing(e) THEN {e.write} ELSE {})
  <2>1. ASSUME NEW n \in DOMAIN new, Writing(new[n])
        PROVE  new[n].write \in Writes(q) \cup (IF Writing(e) THEN {e.write} ELSE {})
    BY <1>1, <1>2, <2>1 DEF Writes
  <2>2. ASSUME NEW n \in DOMAIN q, Writing(q[n]) PROVE q[n].write \in Writes(new)
    <3>1. n \in DOMAIN new /\ new[n] = q[n]
      BY <1>1
    <3>2. QED
      BY <2>2, <3>1 DEF Writes
  <2>3. Writing(e) => e.write \in Writes(new)
    <3>1. Len(q) + 1 \in DOMAIN new /\ new[Len(q) + 1] = e
      BY <1>1
    <3>2. QED
      BY <3>1 DEF Writes
  <2>4. QED
    BY <2>1, <2>2, <2>3 DEF Writes
<1>4. ASSUME Rising(q), Writing(e) => \A v \in Writes(q) : v.write < e.write.write,
             NEW m \in DOMAIN new, NEW n \in DOMAIN new, m < n, Writing(new[m]), Writing(new[n])
      PROVE  new[m].write.write < new[n].write.write
  <2>1. m \in DOMAIN q /\ new[m] = q[m]
    BY <1>1, <1>4
  <2>2. CASE n \in DOMAIN q
    BY <1>1, <1>4, <2>1, <2>2 DEF Rising
  <2>3. CASE n = Len(q) + 1
    BY <1>1, <1>4, <2>1, <2>3 DEF Writes
  <2>4. QED
    BY <1>2, <2>2, <2>3
<1>5. Rising(q) /\ (Writing(e) => \A v \in Writes(q) : v.write < e.write.write) => Rising(new)
  BY <1>4 DEF Rising
<1>6. QED
  BY <1>3, <1>5 DEF new

LEMMA WritesTaken ==
  ASSUME NEW S, NEW q \in Seq(S), q # <<>>
  PROVE  /\ Writes(q) = Writes(Tail(q)) \cup (IF Writing(Head(q)) THEN {Head(q).write} ELSE {})
         /\ Rising(q) => Rising(Tail(q))
         /\ Rising(q) /\ Writing(Head(q)) => \A v \in Writes(Tail(q)) : Head(q).write.write < v.write
<1> DEFINE new == Tail(q)
<1>1. /\ Head(q) = q[1] /\ Len(q) \in Nat \ {0} /\ DOMAIN q = 1 .. Len(q)
      /\ DOMAIN new = 1 .. Len(q) - 1
      /\ \A n \in 1 .. Len(q) - 1 : new[n] = q[n + 1]
  BY Taken
<1> HIDE DEF new
<1>2. \A n \in DOMAIN new : n + 1 \in DOMAIN q /\ n + 1 > 1 /\ n \in Nat
  BY <1>1
<1>3. \A n \in DOMAIN q : n = 1 \/ (n - 1 \in DOMAIN new /\ (n - 1) + 1 = n)
  BY <1>1
<1>4. 1 \in DOMAIN q
  BY <1>1
<1>5. Writes(q) = Writes(new) \cup (IF Writing(Head(q)) THEN {Head(q).write} ELSE {})
  <2>1. ASSUME NEW n \in DOMAIN q, Writing(q[n])
        PROVE  q[n].write \in Writes(new) \cup (IF Writing(Head(q)) THEN {Head(q).write} ELSE {})
    <3>1. CASE n = 1
      BY <1>1, <2>1, <3>1
    <3>2. CASE n - 1 \in DOMAIN new /\ new[n - 1] = q[n]
      BY <2>1, <3>2 DEF Writes
    <3>3. QED
      BY <1>1, <1>3, <3>1, <3>2
  <2>2. ASSUME NEW n \in DOMAIN new, Writing(new[n]) PROVE new[n].write \in Writes(q)
    <3>1. n + 1 \in DOMAIN q /\ new[n] = q[n + 1]
      BY <1>1, <1>2
    <3>2. QED
      BY <2>2, <3>1 DEF Writes
  <2>3. Writing(Head(q)) => Head(q).write \in Writes(q)
    BY <1>1, <1>4 DEF Writes
  <2>4. QED
    BY <2>1, <2>2, <2>3 DEF Writes
<1>6. Rising(q) => Rising(new)
  <2>1. ASSUME Rising(q), NEW m \in DOMAIN new, NEW n \in DOMAIN new, m < n, Writing(new[m]),
               Writing(new[n])
        PROVE  new[m].write.write < new[n].write.write
    <3>1. new[m] = q[m + 1] /\ new[n] = q[n + 1] /\ m + 1 < n + 1
      BY <1>1, <1>2, <2>1
    <3>2. QED
      BY <1>2, <2>1, <3>1 DEF Rising
  <2>2. QED
    BY <2>1 DEF Rising
<1>7. ASSUME Rising(q), Writing(Head(q)), NEW v \in Writes(new) PROVE Head(q).write.write < v.write
  <2>1. PICK n \in DOMAIN new : Writing(new[n]) /\ v = new[n].write
    BY DEF Writes
  <2>2. new[n] = q[n + 1]
    BY <1>1
  <2>3. QED
    BY <1>1, <1>2, <1>4, <1>7, <2>1, <2>2 DEF Rising
<1>8. QED
  BY <1>5, <1>6, <1>7 DEF new

\* The answer to a put is about the first pending write, which is removed.
LEMMA FirstAck ==
  ASSUME Types, PutsInOrder, ReceiveAck
  PROVE  LET ack == Head(toClient)
         IN  /\ toClient # <<>> /\ ack.kind = "ack" /\ ack.write \in Own /\ ack.ok \in BOOLEAN
             /\ toClient' = Tail(toClient)
             /\ sdk.pending # <<>> /\ ack.write = sdk.pending[1] /\ ack.write \in Pending
             /\ sdk' = [sdk EXCEPT !.pending = Tail(sdk.pending)]
             /\ sdk' \in Clients /\ sdk'.pending = Tail(sdk.pending)
             /\ UNCHANGED <<sdk.listening, sdk.complete, sdk.cache>>
             /\ mainQueue' = mainQueue \o Raised(sdk')
             /\ settled' = (IF ack.ok THEN ack.write.write ELSE settled)
             /\ refused' = (refused \/ ~ ack.ok)
<1> DEFINE ack == Head(toClient)
           w   == ack.write
<1>1. /\ toClient # <<>> /\ ack.kind = "ack" /\ toClient' = Tail(toClient)
      /\ sdk' = [sdk EXCEPT !.pending = Without(sdk.pending, w)]
      /\ mainQueue' = mainQueue \o Raised(sdk')
      /\ settled' = (IF ack.ok /\ w.write > settled THEN w.write ELSE settled)
      /\ refused' = (refused \/ ~ ack.ok)
  BY DEF ReceiveAck, SetClient
<1>2. toClient \in Seq(Answers) /\ ack \in Answers /\ sdk \in Clients /\ sdk.pending \in Seq(Own)
  BY <1>1, Taken DEF Types, QueueTypes, Clients
<1>3. w \in Own /\ ack.ok \in BOOLEAN
  BY <1>1, <1>2, Kinds
<1>4. online
  BY <1>1 DEF Types, Idle
<1>5. w \in Pending /\ \A v \in Pending : v = w \/ w.write < v.write
  <2>1. Writing(ack)
    BY <1>1 DEF Writing
  <2>2. w \in Writes(toClient) /\ \A v \in Writes(toClient) : v = w \/ w.write < v.write
    BY <1>1, <1>2, <2>1, WritesTaken DEF PutsInOrder
  <2>3. \A v \in Writes(toServer) : w.write < v.write
    BY <2>2 DEF PutsInOrder
  <2>4. QED
    BY <1>4, <2>2, <2>3 DEF PutsInOrder
<1>6. /\ Len(sdk.pending) \in Nat /\ DOMAIN sdk.pending = 1 .. Len(sdk.pending)
      /\ \A n \in DOMAIN sdk.pending : sdk.pending[n] \in Own
  BY <1>2, LenProperties, ElementOfSeq
<1>7. \A n \in DOMAIN sdk.pending : sdk.pending[n].write \in Nat
  BY <1>6 DEF Own
<1>8. \A n \in DOMAIN sdk.pending : sdk.pending[n] = w => n = 1
  <2>1. SUFFICES ASSUME NEW n \in DOMAIN sdk.pending, sdk.pending[n] = w, n # 1 PROVE FALSE
    OBVIOUS
  <2>2. 1 \in DOMAIN sdk.pending /\ 1 < n
    BY <1>6, <2>1
  <2>3. sdk.pending[1].write < w.write /\ sdk.pending[1] \in Pending
    BY <2>1, <2>2 DEF PutsInOrder, Ordered, Pending, Held
  <2>4. QED
    BY <1>5, <1>7, <2>1, <2>2, <2>3
<1>9. w = sdk.pending[1] /\ 1 \in DOMAIN sdk.pending /\ sdk.pending # <<>>
  <2>1. PICK n \in DOMAIN sdk.pending : sdk.pending[n] = w
    BY <1>5 DEF Pending, Held
  <2>2. QED
    BY <1>8, <2>1, Nothing
<1>10. Without(sdk.pending, w) = Tail(sdk.pending)
  <2>1. (CHOOSE k \in DOMAIN sdk.pending : sdk.pending[k] = w) = 1
    BY <1>8, <1>9
  <2>2. Without(sdk.pending, w)
          = [n \in 1 .. Len(sdk.pending) - 1 |-> sdk.pending[IF n < 1 THEN n ELSE n + 1]]
    BY <2>1 DEF Without
  <2>3. \A n \in 1 .. Len(sdk.pending) - 1 : ~ n < 1
    OBVIOUS
  <2>4. Without(sdk.pending, w) = [n \in 1 .. Len(sdk.pending) - 1 |-> sdk.pending[n + 1]]
    BY <2>2, <2>3
  <2>5. /\ DOMAIN Tail(sdk.pending) = 1 .. Len(sdk.pending) - 1 /\ Tail(sdk.pending) \in Seq(Own)
        /\ \A n \in 1 .. Len(sdk.pending) - 1 : Tail(sdk.pending)[n] = sdk.pending[n + 1]
    BY <1>2, <1>9, Taken
  <2>6. Tail(sdk.pending) = [n \in 1 .. Len(sdk.pending) - 1 |-> Tail(sdk.pending)[n]]
    BY <2>5
  <2>7. QED
    BY <2>4, <2>5, <2>6
<1>11. w.write > settled
  <2>1. settled < w.write /\ settled \in Int /\ w.write \in Int
    BY <1>3, <1>5 DEF PutsInOrder, Types, Own
  <2>2. QED
    BY <2>1
<1>12. Tail(sdk.pending) \in Seq(Own)
  BY <1>2, <1>9, Taken
<1>13. /\ sdk' = [sdk EXCEPT !.pending = Tail(sdk.pending)] /\ sdk' \in Clients
       /\ sdk'.pending = Tail(sdk.pending)
       /\ UNCHANGED <<sdk.listening, sdk.complete, sdk.cache>>
  BY <1>1, <1>2, <1>10, <1>12 DEF Clients
<1>14. settled' = (IF ack.ok THEN w.write ELSE settled)
  BY <1>1, <1>11
<1>15. QED
  BY <1>1, <1>3, <1>5, <1>9, <1>13, <1>14

-----------------------------------------------------------------------------
(* Steps of the server and of the connection.                              *)

LEMMA AppendedBy ==
  ASSUME NEW S, NEW q \in Seq(S), NEW e \in S
  PROVE  q \o <<e>> = Append(q, e) /\ q \o <<>> = q
BY ConcatEmptySeq, AppendIsConcat

\* What most steps leave as it is.
LEMMA SameSets ==
  ASSUME Types, UNCHANGED <<writes, shown>>
  PROVE  /\ UNCHANGED <<Known, Names, Own, Requests, Answers, Blocks, Clients, Views, Write>>
         /\ ViewTypes' /\ Grows
BY DEF Types, ViewTypes, Grows, Known, Names, Own, Requests, Answers, Blocks, Clients, Views, Write

\* The first request, a put.
LEMMA FirstPut ==
  ASSUME Types, toServer # <<>>, Head(toServer).kind = "put"
  PROVE  LET w == Head(toServer).write
         IN  /\ w \in Own /\ w \in Write /\ w.name \in Known /\ Ack(w, TRUE) \in Answers
             /\ Ack(w, FALSE) \in Answers /\ Data(w.name) \in Answers
             /\ Head(toServer) = toServer[1] /\ Tail(toServer) \in Seq(Requests)
             /\ online /\ sdk.listening
<1>1. Head(toServer) \in Requests /\ Tail(toServer) \in Seq(Requests) /\ Head(toServer) = toServer[1]
  BY Taken DEF Types, QueueTypes
<1>2. Head(toServer).write \in Own
  BY <1>1, Kinds
<1>3. online /\ sdk.listening
  BY DEF Types, Idle
<1>4. QED
  BY <1>1, <1>2, <1>3 DEF Own, Write, Ack, Data, Answers, Names

\* A put is stored: a listener is told of a new name, then the sender is answered.
LEMMA Stores ==
  ASSUME Types, ServerPut
  PROVE  LET w    == Head(toServer).write
             told == IF watching /\ w.name # stored.name THEN Append(toClient, Data(w.name))
                                                         ELSE toClient
         IN  /\ toServer # <<>> /\ Head(toServer).kind = "put" /\ w \in Own
             /\ stored' = w /\ toServer' = Tail(toServer) /\ toServer' \in Seq(Requests)
             /\ told \in Seq(Answers) /\ Ack(w, TRUE) \in Answers /\ Data(w.name) \in Answers
             /\ toClient' = Append(told, Ack(w, TRUE)) /\ toClient' \in Seq(Answers)
             /\ UNCHANGED <<watching, online, sdk, mainQueue, shown, writes, knows, refused, settled>>
<1> DEFINE w    == Head(toServer).write
           told == IF watching /\ w.name # stored.name THEN Append(toClient, Data(w.name))
                                                       ELSE toClient
<1>1. /\ toServer # <<>> /\ Head(toServer).kind = "put" /\ stored' = w /\ toServer' = Tail(toServer)
      /\ toClient' = toClient \o Told(w.name) \o <<Ack(w, TRUE)>>
      /\ UNCHANGED <<watching, online, sdk, mainQueue, shown, writes, knows, refused, settled>>
  BY DEF ServerPut, history
<1>2. w \in Own /\ Ack(w, TRUE) \in Answers /\ Data(w.name) \in Answers /\ toServer' \in Seq(Requests)
  BY <1>1, FirstPut
<1>3. toClient \in Seq(Answers)
  BY DEF Types, QueueTypes
<1> HIDE DEF w
<1>4. toClient \o Told(w.name) = told /\ told \in Seq(Answers)
  <2>1. CASE watching /\ w.name # stored.name
    BY <1>2, <1>3, <2>1, Appended, AppendedBy DEF Told
  <2>2. CASE ~ (watching /\ w.name # stored.name)
    BY <1>2, <1>3, <2>2, AppendedBy DEF Told
  <2>3. QED
    BY <2>1, <2>2
<1> HIDE DEF told
<1>5. toClient' = Append(told, Ack(w, TRUE)) /\ toClient' \in Seq(Answers)
  <2>1. told \o <<Ack(w, TRUE)>> = Append(told, Ack(w, TRUE))
    BY <1>2, <1>4, AppendedBy
  <2>2. Append(told, Ack(w, TRUE)) \in Seq(Answers)
    BY <1>2, <1>4, Appended
  <2>3. QED
    BY <1>1, <1>4, <2>1, <2>2
<1>6. QED
  BY <1>1, <1>2, <1>4, <1>5 DEF told, w

LEMMA StoresOthers ==
  ASSUME Types, NEW name \in OthersNames, OthersWrite(name)
  PROVE  /\ stored' = Theirs(name) /\ name \in Known /\ Data(name) \in Answers
         /\ toClient' = (IF watching /\ name # stored.name THEN Append(toClient, Data(name))
                                                           ELSE toClient)
         /\ toClient' \in Seq(Answers)
         /\ UNCHANGED <<watching, online, toServer, sdk, mainQueue, shown, writes, knows, refused,
                        settled>>
<1>1. /\ stored' = Theirs(name) /\ toClient' = toClient \o Told(name)
      /\ UNCHANGED <<watching, online, toServer, sdk, mainQueue, shown, writes, knows, refused,
                     settled>>
  BY DEF OthersWrite, history
<1>2. name \in Known /\ Data(name) \in Answers /\ toClient \in Seq(Answers)
  BY NameFacts DEF Data, Answers, Names, Types, QueueTypes
<1>3. CASE watching /\ name # stored.name
  BY <1>1, <1>2, <1>3, Appended, AppendedBy DEF Told
<1>4. CASE ~ (watching /\ name # stored.name)
  BY <1>1, <1>2, <1>4, AppendedBy DEF Told
<1>5. QED
  BY <1>1, <1>2, <1>3, <1>4

LEMMA Listens ==
  ASSUME Types, ServerListen
  PROVE  /\ toServer # <<>> /\ Head(toServer) = Listen /\ toServer[1] = Listen
         /\ toServer' = Tail(toServer) /\ toServer' \in Seq(Requests) /\ watching'
         /\ Data(stored.name) \in Answers
         /\ toClient' = Append(toClient, Data(stored.name)) /\ toClient' \in Seq(Answers)
         /\ UNCHANGED <<stored, online, sdk, mainQueue, shown, writes, knows, refused, settled>>
<1>1. stored.name \in Names
  BY DEF Types, Write, NoWrite, Theirs, Names
<1>2. Data(stored.name) \in Answers /\ toClient \in Seq(Answers) /\ toServer \in Seq(Requests)
  BY <1>1 DEF Data, Answers, Types, QueueTypes
<1>3. /\ toServer # <<>> /\ Head(toServer) = Listen /\ toServer' = Tail(toServer) /\ watching'
      /\ toClient' = Append(toClient, Data(stored.name))
      /\ UNCHANGED <<stored, online, sdk, mainQueue, shown, writes, knows, refused, settled>>
  BY DEF ServerListen, history
<1>4. toClient' \in Seq(Answers)
  BY <1>2, <1>3, Appended
<1>5. toServer' \in Seq(Requests) /\ Head(toServer) = toServer[1]
  BY <1>2, <1>3, Taken
<1>6. QED
  BY <1>2, <1>3, <1>4, <1>5

LEMMA Refuses ==
  ASSUME Types, ServerRefuse
  PROVE  LET w == Head(toServer).write
         IN  /\ toServer # <<>> /\ Head(toServer).kind = "put" /\ w \in Own
             /\ toServer' = Tail(toServer) /\ toServer' \in Seq(Requests)
             /\ Ack(w, FALSE) \in Answers
             /\ toClient' = Append(toClient, Ack(w, FALSE)) /\ toClient' \in Seq(Answers)
             /\ UNCHANGED <<stored, watching, online, sdk, mainQueue, shown, writes, knows, refused,
                            settled>>
<1> DEFINE w == Head(toServer).write
<1>1. /\ toServer # <<>> /\ Head(toServer).kind = "put" /\ toServer' = Tail(toServer)
      /\ toClient' = Append(toClient, Ack(w, FALSE))
      /\ UNCHANGED <<stored, watching, online, sdk, mainQueue, shown, writes, knows, refused, settled>>
  BY DEF ServerRefuse, history, server
<1>2. /\ w \in Own /\ Ack(w, FALSE) \in Answers /\ toServer' \in Seq(Requests)
      /\ toClient \in Seq(Answers)
  BY <1>1, FirstPut DEF Types, QueueTypes
<1>3. toClient' \in Seq(Answers)
  BY <1>1, <1>2, Appended
<1>4. QED
  BY <1>1, <1>2, <1>3

\* A data update is taken into the cache.
LEMMA Caches ==
  ASSUME Types, ReceiveData
  PROVE  LET data == Head(toClient)
         IN  /\ toClient # <<>> /\ data.kind = "data" /\ data = toClient[1] /\ data.name \in Names
             /\ toClient' = Tail(toClient) /\ toClient' \in Seq(Answers)
             /\ sdk' = [sdk EXCEPT !.cache = data.name, !.complete = TRUE] /\ sdk' \in Clients
             /\ sdk'.cache = data.name /\ sdk'.complete
             /\ UNCHANGED <<sdk.listening, sdk.pending>>
             /\ mainQueue' = mainQueue \o Raised(sdk')
             /\ UNCHANGED <<stored, watching, online, toServer, shown, writes, knows, refused, settled>>
<1> DEFINE data == Head(toClient)
<1>1. /\ toClient # <<>> /\ data.kind = "data" /\ toClient' = Tail(toClient)
      /\ sdk' = [sdk EXCEPT !.cache = data.name, !.complete = TRUE]
      /\ mainQueue' = mainQueue \o Raised(sdk')
      /\ UNCHANGED <<stored, watching, online, toServer, shown, writes, knows, refused, settled>>
  BY DEF ReceiveData, SetClient, server, history
<1>2. data \in Answers /\ data = toClient[1] /\ toClient' \in Seq(Answers)
  BY <1>1, Taken DEF Types, QueueTypes
<1>3. data.name \in Names
  BY <1>1, <1>2, Kinds
<1>4. sdk \in Clients
  BY DEF Types
<1>5. /\ sdk' \in Clients /\ sdk'.cache = data.name /\ sdk'.complete
      /\ UNCHANGED <<sdk.listening, sdk.pending>>
  BY <1>1, <1>3, <1>4 DEF Clients
<1>6. QED
  BY <1>1, <1>2, <1>3, <1>5

\* What Reconnect sends.
LEMMA Restores ==
  ASSUME Types, Reconnect
  PROVE  LET puts == [k \in DOMAIN sdk.pending |-> Put(sdk.pending[k])]
             listen == IF sdk.listening THEN <<Listen>> ELSE <<>>
         IN  /\ ~ online /\ online' /\ toServer' = listen \o puts
             /\ listen \in Seq(Requests) /\ puts \in Seq(Requests) /\ toServer' \in Seq(Requests)
             /\ toClient = <<>> /\ ~ watching /\ toServer = <<>>
             /\ UNCHANGED <<stored, watching, toClient, sdk, mainQueue, shown, writes, knows,
                            refused, settled>>
<1> DEFINE puts == [k \in DOMAIN sdk.pending |-> Put(sdk.pending[k])]
           listen == IF sdk.listening THEN <<Listen>> ELSE <<>>
<1>1. /\ ~ online /\ online' /\ toServer' = listen \o puts
      /\ UNCHANGED <<stored, watching, toClient, sdk, mainQueue, shown, writes, knows, refused,
                     settled>>
  BY DEF Reconnect, Restored, server, history
<1>2. toClient = <<>> /\ ~ watching /\ toServer = <<>>
  BY <1>1 DEF Types, Idle
<1>3. sdk.pending \in Seq(Own) /\ DOMAIN sdk.pending = 1 .. Len(sdk.pending) /\ Len(sdk.pending) \in Nat
  BY LenProperties DEF Types, Clients
<1>4. puts \in Seq(Requests)
  <2>1. \A k \in 1 .. Len(sdk.pending) : Put(sdk.pending[k]) \in Requests
    BY <1>3, ElementOfSeq DEF Put, Requests
  <2>2. puts = [k \in 1 .. Len(sdk.pending) |-> Put(sdk.pending[k])]
    BY <1>3
  <2> HIDE DEF puts
  <2>3. QED
    BY <1>3, <2>1, <2>2, IsASeq
<1>5. listen \in Seq(Requests)
  <2>1. Listen \in Requests
    BY DEF Requests
  <2>2. <<Listen>> \in Seq(Requests) /\ <<>> \in Seq(Requests)
    BY <2>1, Single, Nothing
  <2>3. QED
    BY <2>2
<1> HIDE DEF puts, listen
<1>6. toServer' \in Seq(Requests)
  BY <1>1, <1>4, <1>5, Joined
<1>7. QED
  BY <1>1, <1>2, <1>4, <1>5, <1>6 DEF puts, listen

-----------------------------------------------------------------------------
(* Types are preserved by every step.                                      *)

LEMMA RaisedBlocks ==
  ASSUME Types, writes' \in Nat, writes <= writes', DOMAIN shown \subseteq DOMAIN shown',
         sdk' \in Clients', NEW blocks \in Seq(Blocks')
  PROVE  blocks \o Raised(sdk') \in Seq(Blocks') /\ Raised(sdk') \in Seq(Blocks')
<1>1. Value(sdk') \in Names'
  <2>1. ASSUME NEW c \in Clients' PROVE Value(c) \in Names'
    <3>1. c.pending \in Seq(Own') /\ c.cache \in Names'
      BY <2>1 DEF Clients
    <3>2. c.pending # <<>> => c.pending[Len(c.pending)] \in Own'
      BY <3>1, Nothing, ElementOfSeq
    <3>3. c.pending # <<>> => c.pending[Len(c.pending)].name \in Known'
      BY <3>2 DEF Own
    <3>4. QED
      BY <3>1, <3>3 DEF Value, Names
  <2>2. QED
    BY <2>1
<1>2. Raised(sdk') \in Seq([kind : {"event"}, view : DOMAIN shown, name : Names'])
  BY <1>1, RaisedFacts
<1>3. [kind : {"event"}, view : DOMAIN shown, name : Names'] \subseteq Blocks'
  BY DEF Blocks
<1>4. Raised(sdk') \in Seq(Blocks')
  BY <1>2, <1>3, Wider
<1>5. QED
  BY <1>4, Joined

LEMMA KeepsTypes ==
  ASSUME Types, UNCHANGED <<writes, shown>>, stored' \in Write \cup {NoWrite},
         watching' \in BOOLEAN, online' \in BOOLEAN, knows' \in BOOLEAN, refused' \in BOOLEAN,
         settled' \in 0 .. writes, sdk' \in Clients, toServer' \in Seq(Requests),
         toClient' \in Seq(Answers), mainQueue' \in Seq(Blocks), Idle'
  PROVE  Types'
BY SameSets DEF Types, QueueTypes

LEMMA HandleEventKeepsTypes ==
  ASSUME Types, HandleEvent
  PROVE  Types'
<1> DEFINE block == Head(mainQueue)
<1>1. CASE Named(block.name)
  <2> DEFINE text == SetText(block.view, block.name)
  <2>1. /\ mainQueue # <<>> /\ text \in Blocks /\ mainQueue' = Append(Tail(mainQueue), text) /\ knows'
        /\ UNCHANGED <<sdk, toServer, writes, server, online, toClient, shown, refused, settled>>
    BY <1>1, PassesOn
  <2> HIDE DEF text
  <2>2. mainQueue' \in Seq(Blocks)
    BY <2>1, FirstBlock, Appended
  <2>3. Idle'
    BY <2>1 DEF Idle, Types, server
  <2>4. knows' \in BOOLEAN
    BY <1>1 DEF HandleEvent
  <2>5. QED
    BY <2>1, <2>2, <2>3, <2>4, KeepsTypes DEF Types, QueueTypes, server
<1>2. CASE ~ Named(block.name)
  <2> DEFINE rest == Append(Tail(mainQueue), SetText(block.view, writes + 1))
  <2>1. /\ SetValue(writes + 1, rest) /\ rest \in Seq(Blocks') /\ Grows
        /\ writes + 1 \in Known' /\ writes' = writes + 1
        /\ UNCHANGED <<server, online, toClient, shown, refused, settled, knows>>
        /\ block.view \in DOMAIN shown
    BY <1>2, Invents, FirstBlock, Kinds
  <2> HIDE DEF rest, block
  <2>2. /\ sdk' \in Clients' /\ toServer' \in Seq(Requests') /\ mainQueue' \in Seq(Blocks')
        /\ sdk'.listening = sdk.listening /\ sdk'.complete = sdk.complete
        /\ ~ online => toServer' = toServer
    BY <2>1, SetValueFacts
  <2>3. shown # <<>>
    BY <2>1, Nothing
  <2>4. Idle'
    BY <2>1, <2>2, <2>3 DEF Idle, Types, server
  <2>5. /\ stored' \in Write' \cup {NoWrite} /\ settled' \in 0 .. writes' /\ writes' \in Nat
        /\ toClient' \in Seq(Answers') /\ shown' \in Seq(Views')
    BY <2>1, Growing DEF Types, server, Grows
  <2>6. ViewTypes'
    BY <2>1, <2>5 DEF Types, ViewTypes
  <2>7. QED
    BY <2>1, <2>2, <2>4, <2>5, <2>6 DEF Types, QueueTypes, server
<1>3. QED
  BY <1>1, <1>2

LEMMA FaultsKeepTypes ==
  ASSUME Types, Kill \/ Drop \/ Reconnect
  PROVE  Types'
<1>1. CASE Kill
  <2>1. /\ sdk' = FreshClient /\ toServer' = <<>> /\ toClient' = <<>> /\ watching' = FALSE
        /\ mainQueue' = <<>> /\ shown' = <<>> /\ knows' = FALSE /\ refused' = FALSE /\ settled' = 0
        /\ UNCHANGED <<stored, online, writes>>
    BY <1>1 DEF Kill
  <2>2. FreshClient \in Clients' /\ FreshClient.pending = <<>> /\ ~ FreshClient.complete
    BY Nothing DEF FreshClient, Clients, Names
  <2>3. Idle' /\ ViewTypes' /\ QueueTypes'
    BY <2>1, <2>2, Nothing DEF Idle, ViewTypes, QueueTypes
  <2>4. Known' = Known
    BY <2>1 DEF Known
  <2>5. stored' \in Write' \cup {NoWrite}
    BY <2>1, <2>4 DEF Write, Types
  <2>6. settled' \in 0 .. writes' /\ writes' \in Nat /\ online' \in BOOLEAN
    BY <2>1 DEF Types
  <2>7. watching' \in BOOLEAN /\ knows' \in BOOLEAN /\ refused' \in BOOLEAN
    BY <2>1
  <2>8. QED
    BY <2>1, <2>2, <2>3, <2>5, <2>6, <2>7 DEF Types
<1>2. CASE Drop
  <2>1. /\ online' = FALSE /\ toServer' = <<>> /\ toClient' = <<>> /\ watching' = FALSE
        /\ UNCHANGED <<stored, sdk, mainQueue, shown, writes, knows, refused, settled>>
    BY <1>2 DEF Drop, history
  <2>2. Idle'
    BY <2>1 DEF Idle, Types
  <2>3. <<>> \in Seq(Requests) /\ <<>> \in Seq(Answers)
    BY Nothing
  <2>4. QED
    BY <2>1, <2>2, <2>3, KeepsTypes DEF Types, QueueTypes
<1>3. CASE Reconnect
  <2>1. /\ online' /\ toServer' \in Seq(Requests)
        /\ UNCHANGED <<stored, watching, toClient, sdk, mainQueue, shown, writes, knows,
                       refused, settled>>
    BY <1>3, Restores
  <2>2. ~ sdk.listening => toServer' = <<>>
    <3>1. SUFFICES ASSUME ~ sdk.listening PROVE toServer' = <<>>
      OBVIOUS
    <3>2. sdk.pending = <<>>
      BY <3>1 DEF Types, Idle
    <3>3. [k \in DOMAIN sdk.pending |-> Put(sdk.pending[k])] = <<>>
      BY <3>2
    <3>4. toServer' = <<>> \o <<>>
      BY <1>3, <3>1, <3>3 DEF Reconnect, Restored
    <3>5. QED
      BY <3>4
  <2>3. Idle'
    BY <2>1, <2>2 DEF Idle, Types
  <2>4. online' \in BOOLEAN
    BY <1>3 DEF Reconnect
  <2>5. QED
    BY <2>1, <2>3, <2>4, KeepsTypes DEF Types, QueueTypes
<1>4. QED
  BY <1>1, <1>2, <1>3

\* What reaches the server: it answers, and keeps what a write stores.
LEMMA ServerKeepsTypes ==
  ASSUME Types, ServerListen \/ ServerPut \/ ServerRefuse \/ \E name \in OthersNames : OthersWrite(name)
  PROVE  Types'
<1>1. /\ toServer' \in Seq(Requests) /\ toClient' \in Seq(Answers) /\ stored' \in Write \cup {NoWrite}
      /\ watching' \in BOOLEAN
      /\ UNCHANGED <<online, sdk, mainQueue, shown, writes, knows, refused, settled>>
      /\ (watching' => watching \/ toServer # <<>>)
      /\ (toServer = <<>> => toServer' = <<>>)
      /\ (toServer = <<>> /\ ~ watching => toClient' = toClient)
  <2>1. CASE ServerListen
    <3>1. watching' \in BOOLEAN
      BY <2>1 DEF ServerListen
    <3>2. QED
      BY <2>1, <3>1, Listens DEF Types
  <2>2. CASE ServerPut
    <3>1. /\ toServer # <<>> /\ stored' = Head(toServer).write /\ Head(toServer).write \in Own
          /\ toServer' \in Seq(Requests) /\ toClient' \in Seq(Answers)
          /\ UNCHANGED <<watching, online, sdk, mainQueue, shown, writes, knows, refused, settled>>
      BY <2>2, Stores
    <3>2. Own \subseteq Write
      BY DEF Own, Write
    <3>3. QED
      BY <3>1, <3>2 DEF Types
  <2>3. CASE ServerRefuse
    BY <2>3, Refuses DEF Types
  <2>4. CASE \E name \in OthersNames : OthersWrite(name)
    <3>1. PICK name \in OthersNames : OthersWrite(name)
      BY <2>4
    <3>2. /\ stored' = Theirs(name) /\ name \in Known /\ toClient' \in Seq(Answers)
          /\ (~ watching => toClient' = toClient)
          /\ UNCHANGED <<watching, online, toServer, sdk, mainQueue, shown, writes, knows, refused,
                         settled>>
      BY <3>1, StoresOthers
    <3>3. Theirs(name) \in Write
      BY <3>2 DEF Theirs, Write, Types
    <3>4. QED
      BY <3>2, <3>3 DEF Types, QueueTypes
  <2>5. QED
    BY <2>1, <2>2, <2>3, <2>4
<1>2. Idle'
  BY <1>1 DEF Types, Idle
<1>3. QED
  BY <1>1, <1>2, KeepsTypes DEF Types, QueueTypes

LEMMA ClientKeepsTypes ==
  ASSUME Types, PutsInOrder, ReceiveData \/ ReceiveAck
  PROVE  Types'
<1>1. /\ toClient # <<>> /\ toClient' = Tail(toClient)
      /\ sdk' \in Clients /\ sdk'.listening = sdk.listening
      /\ mainQueue' = mainQueue \o Raised(sdk')
      /\ UNCHANGED <<server, online, toServer, shown, writes, knows>>
      /\ refused' \in BOOLEAN /\ settled' \in 0 .. writes
  <2>1. CASE ReceiveData
    BY <2>1, Caches DEF Types, server
  <2>2. CASE ReceiveAck
    <3>1. UNCHANGED <<server, online, toServer, shown, writes, knows>>
      BY <2>2 DEF ReceiveAck
    <3>2. refused' \in BOOLEAN
      BY <2>2 DEF ReceiveAck
    <3>3. Head(toClient).write.write \in 0 .. writes
      BY <2>2, FirstAck DEF Own, Types
    <3>4. QED
      BY <2>2, <3>1, <3>2, <3>3, FirstAck DEF Types
  <2>3. QED
    BY <2>1, <2>2
<1>2. UNCHANGED <<Own, Clients, Blocks>> /\ Grows
  BY <1>1, SameSets
<1>3. mainQueue' \in Seq(Blocks) /\ toClient' \in Seq(Answers)
  <2>1. mainQueue \in Seq(Blocks') /\ sdk' \in Clients'
    BY <1>1, <1>2 DEF Types, QueueTypes
  <2>2. mainQueue \o Raised(sdk') \in Seq(Blocks')
    BY <1>2, <2>1, RaisedBlocks DEF Grows
  <2>3. QED
    BY <1>1, <1>2, <2>2, Taken DEF Types, QueueTypes
<1>4. sdk.listening
  BY <1>1 DEF Types, Idle
<1>5. Idle'
  BY <1>1, <1>4 DEF Types, Idle, server
<1>6. QED
  BY <1>1, <1>3, <1>5, KeepsTypes DEF Types, QueueTypes, server

LEMMA ShowTextKeepsTypes ==
  ASSUME Types, ShowText
  PROVE  Types'
<1>1. /\ mainQueue' = Tail(mainQueue) /\ ViewTypes' /\ Grows /\ Tail(mainQueue) \in Seq(Blocks)
      /\ DOMAIN shown' = DOMAIN shown /\ Head(mainQueue).view \in DOMAIN shown
      /\ UNCHANGED <<server, network, sdk, writes, history>>
  BY Shows
<1>2. UNCHANGED <<Known, Names, Own, Requests, Answers, Blocks, Clients, Write>>
  BY <1>1 DEF Known, Names, Own, Requests, Answers, Blocks, Clients, Write
<1>3. shown # <<>>
  BY <1>1, Nothing
<1>4. Idle'
  BY <1>1, <1>3 DEF Idle, Types, server, network
<1>5. QED
  BY <1>1, <1>2, <1>4 DEF Types, QueueTypes, server, network, history

LEMMA TypesNext ==
  ASSUME Types, PutsInOrder, [Next]_vars
  PROVE  Types'
<1>1. CASE UNCHANGED vars
  <2>1. UNCHANGED <<stored, watching, online, toServer, toClient, sdk, mainQueue, shown, writes,
                    knows, refused, settled>>
    BY <1>1 DEF vars, server, network, history
  <2>2. Idle'
    BY <2>1 DEF Idle, Types
  <2>3. QED
    BY <2>1, <2>2, KeepsTypes DEF Types, QueueTypes
<1>2. CASE Next
  BY <1>2, HandleEventKeepsTypes, FaultsKeepTypes, ServerKeepsTypes, ClientKeepsTypes,
     ShowTextKeepsTypes, ShowKeepsTypes, UserKeepsTypes
  DEF Next, Server, Client, Main, User, Fault
<1>3. QED
  BY <1>1, <1>2

-----------------------------------------------------------------------------
(* The writes under way stay in order.                                     *)

LEMMA WritesOwn ==
  /\ \A q \in Seq(Requests) : Writes(q) \subseteq Own
  /\ \A q \in Seq(Answers) : Writes(q) \subseteq Own
<1>1. ASSUME NEW q \in Seq(Requests) PROVE Writes(q) \subseteq Own
  <2>1. \A n \in DOMAIN q : q[n] \in Requests
    BY <1>1, ElementOfSeq, LenProperties
  <2>2. QED
    BY <2>1, Kinds DEF Writes, Writing, Listen
<1>2. ASSUME NEW q \in Seq(Answers) PROVE Writes(q) \subseteq Own
  <2>1. \A n \in DOMAIN q : q[n] \in Answers
    BY <1>2, ElementOfSeq, LenProperties
  <2>2. QED
    BY <2>1, Kinds DEF Writes, Writing
<1>3. QED
  BY <1>1, <1>2

LEMMA HeldAppended ==
  ASSUME NEW S, NEW p \in Seq(S), NEW w \in S
  PROVE  /\ Held(Append(p, w)) = Held(p) \cup {w}
         /\ Ordered(p) /\ (\A v \in Held(p) : v.write < w.write) => Ordered(Append(p, w))
<1> DEFINE new == Append(p, w)
<1>1. /\ Len(p) \in Nat /\ DOMAIN p = 1 .. Len(p) /\ DOMAIN new = 1 .. Len(p) + 1
      /\ \A n \in 1 .. Len(p) : new[n] = p[n]
      /\ new[Len(p) + 1] = w
  BY Appended
<1> HIDE DEF new
<1>2. /\ \A n \in DOMAIN new : n \in DOMAIN p \/ n = Len(p) + 1
      /\ DOMAIN p \subseteq DOMAIN new /\ Len(p) + 1 \in DOMAIN new
  BY <1>1
<1>3. Held(new) = Held(p) \cup {w}
  BY <1>1, <1>2 DEF Held
<1>4. ASSUME Ordered(p), \A v \in Held(p) : v.write < w.write,
             NEW m \in DOMAIN new, NEW n \in DOMAIN new, m < n
      PROVE  new[m].write < new[n].write
  <2>1. m \in DOMAIN p /\ new[m] = p[m]
    BY <1>1, <1>4
  <2>2. CASE n \in DOMAIN p
    BY <1>1, <1>4, <2>1, <2>2 DEF Ordered
  <2>3. CASE n = Len(p) + 1
    BY <1>1, <1>4, <2>1, <2>3 DEF Held
  <2>4. QED
    BY <1>2, <2>2, <2>3
<1>5. QED
  BY <1>3, <1>4 DEF Ordered, new

LEMMA HeldTaken ==
  ASSUME NEW S, NEW p \in Seq(S), p # <<>>
  PROVE  /\ Held(p) = Held(Tail(p)) \cup {p[1]}
         /\ Ordered(p) => Ordered(Tail(p)) /\ \A v \in Held(Tail(p)) : p[1].write < v.write
<1> DEFINE new == Tail(p)
<1>1. /\ Len(p) \in Nat \ {0} /\ DOMAIN p = 1 .. Len(p) /\ DOMAIN new = 1 .. Len(p) - 1
      /\ \A n \in 1 .. Len(p) - 1 : new[n] = p[n + 1]
  BY Taken
<1> HIDE DEF new
<1>2. \A n \in DOMAIN new : n + 1 \in DOMAIN p /\ n + 1 > 1 /\ n \in Nat /\ new[n] = p[n + 1]
  BY <1>1
<1>3. \A n \in DOMAIN p : n = 1 \/ (n - 1 \in DOMAIN new /\ new[n - 1] = p[n])
  BY <1>1
<1>4. 1 \in DOMAIN p
  BY <1>1
<1>5. Held(p) = Held(new) \cup {p[1]}
  BY <1>2, <1>3, <1>4 DEF Held
<1>6. ASSUME Ordered(p) PROVE Ordered(new)
  <2>1. \A m, n \in DOMAIN new : m < n => m + 1 < n + 1
    BY <1>2
  <2>2. QED
    BY <1>2, <1>6, <2>1 DEF Ordered
<1>7. ASSUME Ordered(p), NEW v \in Held(new) PROVE p[1].write < v.write
  BY <1>2, <1>4, <1>7 DEF Ordered, Held
<1>8. QED
  BY <1>5, <1>6, <1>7 DEF new

\* A write that is not under way yet is later than those that are.
LEMMA LaterWrite ==
  ASSUME Types, PutsInOrder, Grows, NEW name \in Known', NEW blocks \in Seq(Blocks'),
         SetValue(name, blocks), UNCHANGED <<online, toClient, settled>>
  PROVE  PutsInOrder'
<1> DEFINE w == [write |-> writes + 1, name |-> name]
<1>1. /\ sdk'.pending = Append(sdk.pending, w) /\ w \in Own' /\ Put(w) \in Requests'
      /\ toServer' = (IF online THEN Append(toServer, Put(w)) ELSE toServer)
  BY SetValueFacts
<1>2. w.write = writes + 1 /\ Put(w).write = w /\ Writing(Put(w))
  BY DEF Put, Writing
<1> HIDE DEF w
<1>3. toServer \in Seq(Requests') /\ sdk.pending \in Seq(Own') /\ writes \in Nat
  BY Growing DEF Types, Clients
<1>4. sdk.pending \in Seq(Own) /\ toServer \in Seq(Requests) /\ toClient \in Seq(Answers)
  BY DEF Types, QueueTypes, Clients
<1>5. Pending \subseteq Own /\ Writes(toServer) \subseteq Own /\ Writes(toClient) \subseteq Own
  <2>1. Pending \subseteq Own
    BY <1>4, ElementOfSeq, LenProperties DEF Pending, Held
  <2>2. QED
    BY <1>4, <2>1, WritesOwn
<1>6. \A v \in Own : v.write < w.write
  BY <1>2, <1>3 DEF Own
<1>7. settled < w.write
  BY <1>2, <1>3 DEF Types
<1>8. Pending' = Pending \cup {w} /\ Ordered(sdk'.pending)
  BY <1>1, <1>3, <1>5, <1>6, HeldAppended DEF Pending, PutsInOrder
<1>9. CASE online
  <2>1. Writes(toServer') = Writes(toServer) \cup {w} /\ Rising(toServer')
    BY <1>1, <1>2, <1>3, <1>5, <1>6, <1>9, WritesAppended DEF PutsInOrder
  <2>2. QED
    BY <1>5, <1>6, <1>7, <1>8, <1>9, <2>1 DEF PutsInOrder
<1>10. CASE ~ online
  <2>1. toServer' = toServer
    BY <1>1, <1>10
  <2>2. QED
    BY <1>7, <1>8, <1>10, <2>1 DEF PutsInOrder
<1>11. QED
  BY <1>9, <1>10

\* A step that changes neither the client's writes nor what is under way.
LEMMA WritesStay ==
  ASSUME Types, PutsInOrder, sdk'.pending = sdk.pending, settled' = settled, online' = online,
         Writes(toServer') = Writes(toServer), Writes(toClient') = Writes(toClient),
         Rising(toServer'), Rising(toClient')
  PROVE  PutsInOrder'
BY DEF PutsInOrder, Pending

\* The server answers: the first put turns into the last answer.
LEMMA WriteAnswered ==
  ASSUME Types, PutsInOrder, toServer # <<>>, Head(toServer).kind = "put",
         NEW told \in Seq(Answers), NEW ok \in BOOLEAN, Ack(Head(toServer).write, ok) \in Answers,
         Writes(told) = Writes(toClient), Rising(told),
         toServer' = Tail(toServer), toClient' = Append(told, Ack(Head(toServer).write, ok)),
         UNCHANGED <<sdk, settled, online>>
  PROVE  PutsInOrder'
<1> DEFINE ack == Ack(Head(toServer).write, ok)
           w == Head(toServer).write
<1>1. Writing(Head(toServer)) /\ Writing(ack) /\ ack.write = w
  BY DEF Writing, Ack
<1>2. /\ Writes(toServer) = Writes(toServer') \cup {w} /\ Rising(toServer')
      /\ \A v \in Writes(toServer') : w.write < v.write
  BY <1>1, WritesTaken DEF PutsInOrder, Types, QueueTypes
<1>3. \A v \in Writes(told) : v.write < w.write
  BY <1>2 DEF PutsInOrder
<1>4. Writes(toClient') = Writes(toClient) \cup {w} /\ Rising(toClient')
  <2> HIDE DEF ack
  <2>1. ack \in Answers /\ toClient' = Append(told, ack)
    BY DEF ack
  <2>2. QED
    BY <1>1, <1>3, <2>1, WritesAppended
<1>5. QED
  BY <1>2, <1>4 DEF PutsInOrder, Pending

LEMMA DataWritesNothing ==
  ASSUME NEW name, NEW q \in Seq(Answers), Data(name) \in Answers, Rising(q)
  PROVE  Writes(Append(q, Data(name))) = Writes(q) /\ Rising(Append(q, Data(name)))
<1> DEFINE data == Data(name)
<1>1. ~ Writing(data)
  BY DEF Data, Writing
<1> HIDE DEF data
<1>2. data \in Answers
  BY DEF data
<1>3. Writes(Append(q, data)) = Writes(q) /\ Rising(Append(q, data))
  BY <1>1, <1>2, WritesAppended
<1>4. QED
  BY <1>3 DEF data

LEMMA ListenWritesNothing ==
  ASSUME NEW q \in Seq(Requests), Rising(q)
  PROVE  Writes(Append(q, Listen)) = Writes(q) /\ Rising(Append(q, Listen))
<1> DEFINE r == Listen
<1>1. r \in Requests /\ ~ Writing(r)
  BY DEF Listen, Requests, Writing
<1> HIDE DEF r
<1>2. Writes(Append(q, r)) = Writes(q) /\ Rising(Append(q, r))
  BY <1>1, WritesAppended
<1>3. QED
  BY <1>2 DEF r

LEMMA ServerKeepsOrder ==
  ASSUME Types, PutsInOrder,
         ServerListen \/ ServerPut \/ ServerRefuse \/ \E name \in OthersNames : OthersWrite(name)
  PROVE  PutsInOrder'
<1>1. toClient \in Seq(Answers) /\ toServer \in Seq(Requests) /\ Rising(toClient) /\ Rising(toServer)
  BY DEF Types, QueueTypes, PutsInOrder
<1>2. CASE ServerListen
  <2>1. /\ toServer # <<>> /\ Head(toServer) = Listen /\ toServer' = Tail(toServer)
        /\ toClient' = Append(toClient, Data(stored.name)) /\ Data(stored.name) \in Answers
        /\ UNCHANGED <<online, sdk, settled>>
    BY <1>2, Listens
  <2>2. ~ Writing(Head(toServer))
    BY <2>1 DEF Listen, Writing
  <2>3. Writes(toServer') = Writes(toServer) /\ Rising(toServer')
    BY <1>1, <2>1, <2>2, WritesTaken
  <2>4. Writes(toClient') = Writes(toClient) /\ Rising(toClient')
    BY <1>1, <2>1, DataWritesNothing
  <2>5. QED
    BY <2>1, <2>3, <2>4, WritesStay
<1>3. CASE ServerPut
  <2> DEFINE w    == Head(toServer).write
             told == IF watching /\ w.name # stored.name THEN Append(toClient, Data(w.name))
                                                         ELSE toClient
  <2>1. /\ toServer # <<>> /\ Head(toServer).kind = "put" /\ toServer' = Tail(toServer)
        /\ told \in Seq(Answers) /\ Ack(w, TRUE) \in Answers /\ Data(w.name) \in Answers
        /\ toClient' = Append(told, Ack(w, TRUE)) /\ UNCHANGED <<online, sdk, settled>>
    BY <1>3, Stores
  <2>2. Writes(told) = Writes(toClient) /\ Rising(told)
    BY <1>1, <2>1, DataWritesNothing
  <2> HIDE DEF told
  <2>3. QED
    BY <2>1, <2>2, WriteAnswered
<1>4. CASE ServerRefuse
  <2>1. /\ toServer # <<>> /\ Head(toServer).kind = "put" /\ toServer' = Tail(toServer)
        /\ Ack(Head(toServer).write, FALSE) \in Answers
        /\ toClient' = Append(toClient, Ack(Head(toServer).write, FALSE))
        /\ UNCHANGED <<online, sdk, settled>>
    BY <1>4, Refuses
  <2>2. QED
    BY <1>1, <2>1, WriteAnswered
<1>5. CASE \E name \in OthersNames : OthersWrite(name)
  <2>1. PICK name \in OthersNames : OthersWrite(name)
    BY <1>5
  <2>2. /\ Data(name) \in Answers /\ UNCHANGED <<online, toServer, sdk, settled>>
        /\ toClient' = (IF watching /\ name # stored.name THEN Append(toClient, Data(name))
                                                          ELSE toClient)
    BY <2>1, StoresOthers
  <2>3. Writes(toClient') = Writes(toClient) /\ Rising(toClient')
    BY <1>1, <2>2, DataWritesNothing
  <2>4. QED
    BY <1>1, <2>2, <2>3, WritesStay
<1>6. QED
  BY <1>2, <1>3, <1>4, <1>5

LEMMA ClientKeepsOrder ==
  ASSUME Types, PutsInOrder, ReceiveData \/ ReceiveAck
  PROVE  PutsInOrder'
<1>1. toClient \in Seq(Answers) /\ Rising(toClient) /\ Rising(toServer) /\ sdk.pending \in Seq(Own)
  BY DEF Types, QueueTypes, PutsInOrder, Clients
<1>2. CASE ReceiveData
  <2>1. /\ toClient # <<>> /\ Head(toClient).kind = "data" /\ toClient' = Tail(toClient)
        /\ sdk'.pending = sdk.pending /\ UNCHANGED <<online, toServer, settled>>
    BY <1>2, Caches
  <2>2. Writes(toClient') = Writes(toClient) /\ Rising(toClient')
    BY <1>1, <2>1, WritesTaken DEF Writing
  <2>3. QED
    BY <1>1, <2>1, <2>2, WritesStay
<1>3. CASE ReceiveAck
  <2> DEFINE w == Head(toClient).write
  <2>1. /\ toClient # <<>> /\ Head(toClient).kind = "ack" /\ toClient' = Tail(toClient)
        /\ sdk.pending # <<>> /\ w = sdk.pending[1] /\ w \in Own
        /\ sdk'.pending = Tail(sdk.pending)
        /\ settled' = (IF Head(toClient).ok THEN w.write ELSE settled)
    BY <1>3, FirstAck
  <2>2. UNCHANGED <<online, toServer>> /\ online
    BY <1>3, <2>1 DEF ReceiveAck, Types, Idle
  <2>3. /\ Writes(toClient) = Writes(toClient') \cup {w} /\ Rising(toClient')
        /\ \A v \in Writes(toClient') : w.write < v.write
    BY <1>1, <2>1, WritesTaken DEF Writing
  <2>4. /\ Pending = Pending' \cup {w} /\ Ordered(sdk'.pending)
        /\ \A v \in Pending' : w.write < v.write
    BY <1>1, <2>1, HeldTaken DEF Pending, PutsInOrder
  <2>5. \A v \in Writes(toServer) : w.write < v.write
    BY <2>3 DEF PutsInOrder
  <2>6. Pending' = Writes(toClient') \cup Writes(toServer')
    <3>1. w \notin Pending'
      <4>1. w.write \in Nat
        BY <2>1 DEF Own
      <4>2. QED
        BY <2>4, <4>1
    <3>2. w \notin Writes(toClient') \cup Writes(toServer)
      <4>1. w.write \in Nat
        BY <2>1 DEF Own
      <4>2. QED
        BY <2>3, <2>5, <4>1
    <3>3. QED
      BY <2>2, <2>3, <2>4, <3>1, <3>2 DEF PutsInOrder
  <2>7. \A v \in Pending' : settled' < v.write
    BY <2>1, <2>4 DEF PutsInOrder
  <2>8. QED
    BY <2>2, <2>3, <2>4, <2>6, <2>7 DEF PutsInOrder
<1>4. QED
  BY <1>2, <1>3

\* What is sent again: the pending writes, in their order.
LEMMA WritesRestored ==
  ASSUME Types, PutsInOrder, Reconnect
  PROVE  Writes(toServer') = Pending /\ Rising(toServer')
<1> DEFINE p == sdk.pending
           puts == [k \in DOMAIN p |-> Put(p[k])]
           listen == IF sdk.listening THEN <<Listen>> ELSE <<>>
           new == listen \o puts
<1>1. toServer' = new /\ listen \in Seq(Requests) /\ puts \in Seq(Requests)
  BY Restores
<1>2. DOMAIN puts = DOMAIN p /\ \A n \in DOMAIN p : Writing(puts[n]) /\ puts[n].write = p[n]
  BY DEF Put, Writing
<1>3. \A n \in DOMAIN listen : ~ Writing(listen[n])
  <2>1. \A n \in DOMAIN <<Listen>> : <<Listen>>[n] = Listen
    OBVIOUS
  <2>2. ~ Writing(Listen)
    BY DEF Listen, Writing
  <2>3. CASE sdk.listening
    BY <2>1, <2>2, <2>3
  <2>4. CASE ~ sdk.listening
    BY <2>4
  <2>5. QED
    BY <2>3, <2>4
<1>4. p \in Seq(Own) /\ Ordered(p)
  BY DEF Types, Clients, PutsInOrder
<1> HIDE DEF listen, puts, p, new
<1>5. /\ Len(listen) \in Nat /\ Len(puts) \in Nat
      /\ DOMAIN listen = 1 .. Len(listen) /\ DOMAIN puts = 1 .. Len(puts)
      /\ DOMAIN new = 1 .. Len(listen) + Len(puts)
      /\ \A n \in 1 .. Len(listen) : new[n] = listen[n]
      /\ \A n \in 1 .. Len(puts) : new[Len(listen) + n] = puts[n]
      /\ \A n \in DOMAIN new :
           n \in 1 .. Len(listen) \/ (n - Len(listen) \in 1 .. Len(puts)
                                        /\ Len(listen) + (n - Len(listen)) = n)
  BY <1>1, Joined DEF new
<1>6. ASSUME NEW n \in DOMAIN new, Writing(new[n])
      PROVE  /\ n - Len(listen) \in DOMAIN p /\ new[n].write = p[n - Len(listen)]
  <2>1. n \notin 1 .. Len(listen)
    BY <1>3, <1>5, <1>6
  <2>2. n - Len(listen) \in DOMAIN puts /\ new[n] = puts[n - Len(listen)]
    BY <1>5, <2>1
  <2>3. QED
    BY <1>2, <2>2
<1>7. ASSUME NEW k \in DOMAIN p
      PROVE  Len(listen) + k \in DOMAIN new /\ Writing(new[Len(listen) + k])
               /\ new[Len(listen) + k].write = p[k]
  <2>1. k \in 1 .. Len(puts)
    BY <1>2, <1>5
  <2>2. Len(listen) + k \in DOMAIN new /\ new[Len(listen) + k] = puts[k]
    BY <1>5, <2>1
  <2>3. QED
    BY <1>2, <2>2
<1>8. Writes(new) = Held(p)
  BY <1>6, <1>7 DEF Writes, Held
<1>9. ASSUME NEW m \in DOMAIN new, NEW n \in DOMAIN new, m < n, Writing(new[m]), Writing(new[n])
      PROVE  new[m].write.write < new[n].write.write
  <2>1. m - Len(listen) < n - Len(listen)
    BY <1>5, <1>9
  <2>2. QED
    BY <1>4, <1>6, <1>9, <2>1 DEF Ordered
<1>10. QED
  BY <1>1, <1>8, <1>9 DEF Rising, Pending, p

LEMMA FaultsKeepOrder ==
  ASSUME Types, PutsInOrder, Kill \/ Drop \/ Reconnect
  PROVE  PutsInOrder'
<1>1. CASE Kill
  <2>1. sdk'.pending = <<>> /\ toServer' = <<>> /\ toClient' = <<>>
    BY <1>1 DEF Kill, FreshClient
  <2>2. Pending' = {} /\ Ordered(sdk'.pending)
    BY <2>1, Nothing DEF Pending, Held, Ordered
  <2>3. QED
    BY <2>1, <2>2, NoWrites DEF PutsInOrder
<1>2. CASE Drop
  <2>1. /\ ~ online' /\ toServer' = <<>> /\ toClient' = <<>> /\ UNCHANGED <<sdk, settled>>
    BY <1>2 DEF Drop, history
  <2>2. QED
    BY <2>1, NoWrites DEF PutsInOrder, Pending
<1>3. CASE Reconnect
  <2>1. online' /\ UNCHANGED <<toClient, sdk, settled>> /\ toClient = <<>>
    BY <1>3, Restores
  <2>2. Writes(toServer') = Pending /\ Rising(toServer')
    BY <1>3, WritesRestored
  <2>3. Writes(toClient') = {} /\ Rising(toClient')
    BY <2>1, NoWrites
  <2>4. QED
    BY <2>1, <2>2, <2>3 DEF PutsInOrder, Pending
<1>4. QED
  BY <1>1, <1>2, <1>3

LEMMA AppKeepsOrder ==
  ASSUME Types, PutsInOrder, Main \/ User
  PROVE  PutsInOrder'
<1>1. CASE ShowLabel \/ OpenEdit
  <2>1. PICK kind \in {"label", "field"} : Show(kind)
    BY <1>1 DEF ShowLabel, OpenEdit
  <2>2. sdk'.pending = sdk.pending /\ UNCHANGED <<online, toClient, settled>>
    BY <2>1, ShowFacts DEF Show, history
  <2>3. toServer' = toServer \/ toServer' = Append(toServer, Listen)
    BY <2>1 DEF Show, Request
  <2>4. Writes(toServer') = Writes(toServer) /\ Rising(toServer')
    <3>1. toServer \in Seq(Requests) /\ Rising(toServer)
      BY DEF Types, QueueTypes, PutsInOrder
    <3>2. QED
      BY <2>3, <3>1, ListenWritesNothing
  <2>5. QED
    BY <2>2, <2>4, WritesStay DEF PutsInOrder
<1>2. CASE Leave \/ Cover
  <2>1. PICK kind \in {"closed", "field"} : Disappear(kind)
    BY <1>2 DEF Leave, Cover
  <2>2. /\ WrittenBack(shown[Field].text) \in Known' /\ mainQueue \in Seq(Blocks') /\ Grows
        /\ SetValue(WrittenBack(shown[Field].text), mainQueue)
        /\ UNCHANGED <<online, toClient, settled>>
    BY <2>1, WritesBack
  <2>3. QED
    BY <2>2, LaterWrite
<1>3. CASE HandleEvent
  <2>1. CASE Named(Head(mainQueue).name)
    <3>1. UNCHANGED <<sdk, toServer, online, toClient, settled>>
      BY <1>3, <2>1, PassesOn
    <3>2. QED
      BY <3>1, WritesStay DEF PutsInOrder
  <2>2. CASE ~ Named(Head(mainQueue).name)
    <3> DEFINE rest == Append(Tail(mainQueue), SetText(Head(mainQueue).view, writes + 1))
    <3>1. /\ SetValue(writes + 1, rest) /\ rest \in Seq(Blocks') /\ Grows /\ writes + 1 \in Known'
          /\ UNCHANGED <<online, toClient, settled>>
      BY <1>3, <2>2, Invents
    <3> HIDE DEF rest
    <3>2. QED
      BY <3>1, LaterWrite
  <2>3. QED
    BY <2>1, <2>2
<1>4. CASE ShowText \/ \E text \in Texts : Type(text)
  <2>1. UNCHANGED <<sdk, toServer, online, toClient, settled>>
    BY <1>4 DEF ShowText, Type, network, history
  <2>2. QED
    BY <2>1, WritesStay DEF PutsInOrder
<1>5. QED
  BY <1>1, <1>2, <1>3, <1>4 DEF Main, User

LEMMA PutsInOrderNext ==
  ASSUME Types, PutsInOrder, [Next]_vars
  PROVE  PutsInOrder'
<1>1. CASE UNCHANGED vars
  <2>1. UNCHANGED <<sdk, toServer, online, toClient, settled>>
    BY <1>1 DEF vars, network, history
  <2>2. QED
    BY <2>1, WritesStay DEF PutsInOrder
<1>2. CASE Next
  BY <1>2, AppKeepsOrder, FaultsKeepOrder, ServerKeepsOrder, ClientKeepsOrder
  DEF Next, Server, Client, Fault
<1>3. QED
  BY <1>1, <1>2

-----------------------------------------------------------------------------
(* The write that was accepted last stands.                                *)

Accepts(m) == m.kind = "ack" /\ m.ok

\* Of the accepted writes that answers under way are about, a later one than any other
\* is number x, unless x is another device's.
LastAccepted(q, x) ==
  \A n \in DOMAIN q :
    Accepts(q[n]) =>
      x = 0 \/ \E m \in DOMAIN q : n <= m /\ Accepts(q[m]) /\ q[m].write.write = x

\* The server holds the last write it accepted, or another device's; to the client it is
\* the one settled last, or one that is pending.
Settling ==
  /\ LastAccepted(toClient, stored.write)
  /\ ~ refused /\ settled # 0 => stored.write \in {0, settled} \cup {w.write : w \in Pending}

LEMMA AcceptedAppended ==
  ASSUME NEW S, NEW q \in Seq(S), NEW e \in S, NEW x
  PROVE  /\ LastAccepted(q, x) /\ ~ Accepts(e) => LastAccepted(Append(q, e), x)
         /\ Accepts(e) => LastAccepted(Append(q, e), e.write.write)
         /\ LastAccepted(q, 0)
<1> DEFINE new == Append(q, e)
<1>1. /\ Len(q) \in Nat /\ DOMAIN q = 1 .. Len(q) /\ DOMAIN new = 1 .. Len(q) + 1
      /\ \A n \in 1 .. Len(q) : new[n] = q[n]
      /\ new[Len(q) + 1] = e
  BY Appended
<1> HIDE DEF new
<1>2. /\ \A n \in DOMAIN new : n \in DOMAIN q \/ n = Len(q) + 1
      /\ \A n \in DOMAIN new : n <= Len(q) + 1
      /\ DOMAIN q \subseteq DOMAIN new /\ Len(q) + 1 \in DOMAIN new
  BY <1>1
<1>3. LastAccepted(q, x) /\ ~ Accepts(e) => LastAccepted(new, x)
  BY <1>1, <1>2 DEF LastAccepted
<1>4. Accepts(e) => LastAccepted(new, e.write.write)
  BY <1>1, <1>2 DEF LastAccepted
<1>5. QED
  BY <1>3, <1>4 DEF LastAccepted, new

LEMMA AcceptedTaken ==
  ASSUME NEW S, NEW q \in Seq(S), q # <<>>, NEW x, LastAccepted(q, x)
  PROVE  /\ LastAccepted(Tail(q), x)
         /\ Accepts(Head(q)) =>
              \/ x \in {0, Head(q).write.write}
              \/ \E v \in Writes(Tail(q)) : v.write = x
<1> DEFINE new == Tail(q)
<1>1. /\ Head(q) = q[1] /\ Len(q) \in Nat \ {0} /\ DOMAIN q = 1 .. Len(q)
      /\ DOMAIN new = 1 .. Len(q) - 1
      /\ \A n \in 1 .. Len(q) - 1 : new[n] = q[n + 1]
  BY Taken
<1> HIDE DEF new
<1>2. \A n \in DOMAIN new : n + 1 \in DOMAIN q /\ new[n] = q[n + 1]
  BY <1>1
<1>3. \A n \in DOMAIN q : n = 1 \/ (n - 1 \in DOMAIN new /\ new[n - 1] = q[n])
  BY <1>1
<1>4. ASSUME NEW n \in DOMAIN new, Accepts(new[n]), x # 0
      PROVE  \E m \in DOMAIN new : n <= m /\ Accepts(new[m]) /\ new[m].write.write = x
  <2>1. PICK m \in DOMAIN q : n + 1 <= m /\ Accepts(q[m]) /\ q[m].write.write = x
    BY <1>2, <1>4 DEF LastAccepted
  <2>2. m # 1 /\ n <= m - 1
    BY <1>1, <2>1
  <2>3. QED
    BY <1>3, <2>1, <2>2
<1>5. ASSUME Accepts(Head(q)), x # 0
      PROVE  x = Head(q).write.write \/ \E v \in Writes(new) : v.write = x
  <2>1. 1 \in DOMAIN q
    BY <1>1
  <2>2. PICK m \in DOMAIN q : Accepts(q[m]) /\ q[m].write.write = x
    BY <1>1, <1>5, <2>1 DEF LastAccepted
  <2>3. CASE m = 1
    BY <1>1, <2>2, <2>3
  <2>4. CASE m - 1 \in DOMAIN new /\ new[m - 1] = q[m]
    BY <2>2, <2>4 DEF Writes, Writing, Accepts
  <2>5. QED
    BY <1>3, <2>3, <2>4
<1>6. QED
  BY <1>4, <1>5 DEF LastAccepted, new

\* A step that leaves the answers, and what is stored and settled, as they are.
LEMMA SettlingStays ==
  ASSUME Settling, UNCHANGED <<stored, toClient, refused, settled>>, Pending \subseteq Pending'
  PROVE  Settling'
BY DEF Settling

LEMMA DataAcceptsNothing ==
  ASSUME NEW name, NEW q \in Seq(Answers), Data(name) \in Answers, NEW x, LastAccepted(q, x)
  PROVE  LastAccepted(Append(q, Data(name)), x)
<1> DEFINE data == Data(name)
<1>1. ~ Accepts(data)
  BY DEF Data, Accepts
<1> HIDE DEF data
<1>2. data \in Answers
  BY DEF data
<1>3. LastAccepted(Append(q, data), x)
  BY <1>1, <1>2, AcceptedAppended
<1>4. QED
  BY <1>3 DEF data

LEMMA AckAccepts ==
  ASSUME NEW q \in Seq(Answers), NEW w, NEW ok \in BOOLEAN, Ack(w, ok) \in Answers,
         NEW x, LastAccepted(q, x)
  PROVE  LastAccepted(Append(q, Ack(w, ok)), IF ok THEN w.write ELSE x)
<1> DEFINE ack == Ack(w, ok)
<1>1. (Accepts(ack) <=> ok) /\ ack.write = w
  BY DEF Ack, Accepts
<1> HIDE DEF ack
<1>2. ack \in Answers
  BY DEF ack
<1>3. /\ ~ ok => LastAccepted(Append(q, ack), x)
      /\ ok => LastAccepted(Append(q, ack), ack.write.write)
  BY <1>1, <1>2, AcceptedAppended
<1>4. QED
  BY <1>1, <1>3 DEF ack

LEMMA ServerSettles ==
  ASSUME Types, PutsInOrder, Settling,
         ServerListen \/ ServerPut \/ ServerRefuse \/ \E name \in OthersNames : OthersWrite(name)
  PROVE  Settling'
<1>1. toClient \in Seq(Answers) /\ LastAccepted(toClient, stored.write)
  BY DEF Types, QueueTypes, Settling
<1>2. CASE ServerListen
  <2>1. /\ toClient' = Append(toClient, Data(stored.name)) /\ Data(stored.name) \in Answers
        /\ UNCHANGED <<stored, sdk, refused, settled>>
    BY <1>2, Listens
  <2>2. LastAccepted(toClient', stored'.write)
    BY <1>1, <2>1, DataAcceptsNothing
  <2>3. QED
    BY <2>1, <2>2 DEF Settling, Pending
<1>3. CASE ServerPut
  <2> DEFINE w    == Head(toServer).write
             told == IF watching /\ w.name # stored.name THEN Append(toClient, Data(w.name))
                                                         ELSE toClient
  <2>1. /\ toServer # <<>> /\ Head(toServer).kind = "put" /\ stored' = w
        /\ told \in Seq(Answers) /\ Ack(w, TRUE) \in Answers /\ Data(w.name) \in Answers
        /\ toClient' = Append(told, Ack(w, TRUE)) /\ UNCHANGED <<sdk, refused, settled>>
    BY <1>3, Stores
  <2>2. LastAccepted(told, stored.write)
    BY <1>1, <2>1, DataAcceptsNothing
  <2> HIDE DEF told
  <2>3. LastAccepted(toClient', stored'.write)
    BY <2>1, <2>2, AckAccepts
  <2>4. w \in Pending
    <3>1. w \in Writes(toServer)
      BY <2>1, WritesTaken DEF Writing, Types, QueueTypes
    <3>2. online
      BY <2>1 DEF Types, Idle
    <3>3. QED
      BY <3>1, <3>2 DEF PutsInOrder
  <2>5. QED
    BY <2>1, <2>3, <2>4 DEF Settling, Pending
<1>4. CASE ServerRefuse
  <2>1. /\ Ack(Head(toServer).write, FALSE) \in Answers
        /\ toClient' = Append(toClient, Ack(Head(toServer).write, FALSE))
        /\ UNCHANGED <<stored, sdk, refused, settled>>
    BY <1>4, Refuses
  <2>2. LastAccepted(toClient', stored'.write)
    BY <1>1, <2>1, AckAccepts
  <2>3. QED
    BY <2>1, <2>2 DEF Settling, Pending
<1>5. CASE \E name \in OthersNames : OthersWrite(name)
  <2>1. PICK name \in OthersNames : OthersWrite(name)
    BY <1>5
  <2>2. /\ stored' = Theirs(name) /\ toClient' \in Seq(Answers) /\ UNCHANGED <<sdk, refused, settled>>
    BY <2>1, StoresOthers
  <2>3. stored'.write = 0
    BY <2>2 DEF Theirs
  <2>4. LastAccepted(toClient', 0)
    BY DEF LastAccepted
  <2>5. QED
    BY <2>2, <2>3, <2>4 DEF Settling
<1>6. QED
  BY <1>2, <1>3, <1>4, <1>5

LEMMA ClientSettles ==
  ASSUME Types, PutsInOrder, Settling, ReceiveData \/ ReceiveAck
  PROVE  Settling'
<1>1. /\ toClient # <<>> /\ toClient' = Tail(toClient) /\ stored' = stored
      /\ toClient \in Seq(Answers)
  BY DEF ReceiveData, ReceiveAck, server, Types, QueueTypes
<1>2. LastAccepted(toClient', stored.write)
  BY <1>1, AcceptedTaken DEF Settling
<1>3. CASE ReceiveData
  <2>1. UNCHANGED <<refused, settled>> /\ sdk'.pending = sdk.pending
    BY <1>3, Caches
  <2>2. QED
    BY <1>1, <1>2, <2>1 DEF Settling, Pending
<1>4. CASE ReceiveAck
  <2> DEFINE ack == Head(toClient)
  <2>1. /\ ack.kind = "ack" /\ ack.ok \in BOOLEAN /\ settled' = (IF ack.ok THEN ack.write.write ELSE settled)
        /\ refused' = (refused \/ ~ ack.ok)
    BY <1>4, FirstAck
  <2>2. CASE ~ ack.ok
    BY <1>1, <1>2, <2>1, <2>2 DEF Settling
  <2>3. CASE ack.ok
    <3>1. stored.write \in {0, settled'} \/ \E v \in Writes(toClient') : v.write = stored.write
      BY <1>1, <2>1, <2>3, AcceptedTaken DEF Settling, Accepts
    <3>2. online' = online /\ online
      BY <1>1, <1>4 DEF ReceiveAck, Types, Idle
    <3>3. Writes(toClient') \subseteq Pending'
      BY <1>4, <3>2, ClientKeepsOrder DEF PutsInOrder
    <3>4. QED
      BY <1>1, <1>2, <3>1, <3>3 DEF Settling
  <2>4. QED
    BY <2>2, <2>3
<1>5. QED
  BY <1>3, <1>4

LEMMA SettlingNext ==
  ASSUME Types, PutsInOrder, Settling, [Next]_vars
  PROVE  Settling'
<1>1. sdk.pending \in Seq(Own)
  BY DEF Types, Clients
<1>2. CASE Kill \/ Drop
  <2>1. toClient' = <<>>
    BY <1>2 DEF Kill, Drop
  <2>2. LastAccepted(toClient', stored'.write)
    BY <2>1, Nothing DEF LastAccepted
  <2>3. CASE Kill
    <3>1. settled' = 0
      BY <2>3 DEF Kill
    <3>2. QED
      BY <2>2, <3>1 DEF Settling
  <2>4. CASE Drop
    BY <2>2, <2>4 DEF Settling, Drop, history, Pending
  <2>5. QED
    BY <1>2, <2>3, <2>4
<1>3. CASE ShowLabel \/ OpenEdit
  <2>1. PICK kind \in {"label", "field"} : Show(kind)
    BY <1>3 DEF ShowLabel, OpenEdit
  <2>2. sdk'.pending = sdk.pending /\ UNCHANGED <<stored, toClient, refused, settled>>
    BY <2>1, ShowFacts DEF Show, server, history
  <2>3. QED
    BY <2>2, SettlingStays DEF Pending
<1>4. ASSUME Grows, NEW name \in Known', NEW blocks \in Seq(Blocks'), SetValue(name, blocks)
      PROVE  Pending \subseteq Pending'
  <2> DEFINE w == [write |-> writes + 1, name |-> name]
  <2>1. sdk'.pending = Append(sdk.pending, w) /\ w \in Own'
    BY <1>4, SetValueFacts
  <2>2. sdk.pending \in Seq(Own')
    BY <1>4, Growing DEF Types, Clients
  <2> HIDE DEF w
  <2>3. QED
    BY <2>1, <2>2, HeldAppended DEF Pending
<1>5. CASE Leave \/ Cover
  <2>1. PICK kind \in {"closed", "field"} : Disappear(kind)
    BY <1>5 DEF Leave, Cover
  <2>2. /\ WrittenBack(shown[Field].text) \in Known' /\ mainQueue \in Seq(Blocks') /\ Grows
        /\ SetValue(WrittenBack(shown[Field].text), mainQueue)
        /\ UNCHANGED <<stored, toClient, refused, settled>>
    BY <2>1, WritesBack DEF server
  <2>3. QED
    BY <1>4, <2>2, SettlingStays
<1>6. CASE HandleEvent
  <2>1. CASE Named(Head(mainQueue).name)
    BY <1>6, <2>1, PassesOn, SettlingStays DEF server, Pending
  <2>2. CASE ~ Named(Head(mainQueue).name)
    <3> DEFINE rest == Append(Tail(mainQueue), SetText(Head(mainQueue).view, writes + 1))
    <3>1. /\ SetValue(writes + 1, rest) /\ rest \in Seq(Blocks') /\ Grows /\ writes + 1 \in Known'
          /\ UNCHANGED <<stored, toClient, refused, settled>>
      BY <1>6, <2>2, Invents DEF server
    <3> HIDE DEF rest
    <3>2. QED
      BY <1>4, <3>1, SettlingStays
  <2>3. QED
    BY <2>1, <2>2
<1>7. CASE ShowText \/ Reconnect \/ (\E text \in Texts : Type(text)) \/ UNCHANGED vars
  <2>1. UNCHANGED <<stored, toClient, refused, settled, sdk>>
    BY <1>7 DEF ShowText, Reconnect, Type, vars, server, network, history
  <2>2. QED
    BY <2>1, SettlingStays DEF Pending
<1>8. QED
  BY <1>2, <1>3, <1>5, <1>6, <1>7, ServerSettles, ClientSettles
  DEF Next, Server, Client, Main, User, Fault

-----------------------------------------------------------------------------
(* What a listener is told.                                                *)

IsData(m)  == m.kind = "data"
IsNamed(m) == m.kind = "data" /\ m.name # NoName

\* The last name under way is this one.
LastData(q, name) ==
  \E n \in DOMAIN q :
    IsData(q[n]) /\ q[n].name = name /\ \A m \in DOMAIN q : n < m => ~ IsData(q[m])

\* A listener is told, or knows, what is stored.
Heard(q, cache, name) ==
  LastData(q, name) \/ (cache = name /\ \A n \in DOMAIN q : ~ IsData(q[n]))

\* A connected client that listens is listened to before any put of it is stored.
Listening ==
  /\ online /\ sdk.listening => watching \/ (toServer # <<>> /\ toServer[1] = Listen)
  /\ watching => Heard(toClient, sdk.cache, stored.name)

\* On the way, no null comes after a name;
NamesStay(q) == \A m, n \in DOMAIN q : m < n /\ IsNamed(q[m]) /\ IsData(q[n]) => IsNamed(q[n])

\* and that a put is stored is told after a name.
NamedBefore(q) == \A n \in DOMAIN q : Accepts(q[n]) => \E m \in DOMAIN q : m < n /\ IsNamed(q[m])

\* A name once stored, told or cached is never followed by null.
Grown(q, cache, name) ==
  /\ cache # NoName => name # NoName /\ \A n \in DOMAIN q : IsData(q[n]) => IsNamed(q[n])
  /\ NamesStay(q)
  /\ \A n \in DOMAIN q : IsNamed(q[n]) => name # NoName
  /\ cache # NoName \/ NamedBefore(q)

NamesGrow == Grown(toClient, sdk.cache, stored.name)

\* A name is told: what is stored, from then on.
LEMMA NameTold ==
  ASSUME NEW q \in Seq(Answers), NEW cache, NEW old, NEW name, Data(name) \in Answers,
         Grown(q, cache, old), old # NoName => name # NoName
  PROVE  Grown(Append(q, Data(name)), cache, name) /\ Heard(Append(q, Data(name)), cache, name)
<1> DEFINE data == Data(name)
           new  == Append(q, data)
<1>1. IsData(data) /\ data.name = name /\ ~ Accepts(data) /\ data \in Answers
  BY DEF Data, IsData, Accepts
<1> HIDE DEF data
<1>2. /\ Len(q) \in Nat /\ DOMAIN q = 1 .. Len(q) /\ DOMAIN new = 1 .. Len(q) + 1
      /\ \A n \in 1 .. Len(q) : new[n] = q[n]
      /\ new[Len(q) + 1] = data
  BY <1>1, Appended
<1> HIDE DEF new
<1>3. /\ \A n \in DOMAIN new : (n \in DOMAIN q /\ new[n] = q[n]) \/ (n = Len(q) + 1 /\ new[n] = data)
      /\ \A n \in DOMAIN q : n \in DOMAIN new /\ new[n] = q[n]
      /\ \A n \in DOMAIN new : ~ Len(q) + 1 < n
      /\ \A m \in DOMAIN new : m < Len(q) + 1 => m \in DOMAIN q
      /\ Len(q) + 1 \in DOMAIN new
      /\ \A m \in DOMAIN new : \A n \in DOMAIN q : m < n => m \in DOMAIN q
  BY <1>2
<1>4. IsNamed(data) <=> name # NoName
  BY <1>1 DEF IsNamed, IsData
<1>5. Heard(new, cache, name)
  BY <1>1, <1>2, <1>3 DEF Heard, LastData
<1>6. cache # NoName => name # NoName /\ \A n \in DOMAIN new : IsData(new[n]) => IsNamed(new[n])
  BY <1>3, <1>4 DEF Grown
<1>7. NamesStay(new)
  <2>1. SUFFICES ASSUME NEW m \in DOMAIN new, NEW n \in DOMAIN new, m < n, IsNamed(new[m]), IsData(new[n])
                 PROVE  IsNamed(new[n])
    BY DEF NamesStay
  <2>2. CASE n \in DOMAIN q
    BY <1>3, <2>1, <2>2 DEF Grown, NamesStay
  <2>3. CASE n = Len(q) + 1
    BY <1>2, <1>3, <1>4, <2>1, <2>3 DEF Grown
  <2>4. QED
    BY <1>3, <2>2, <2>3
<1>8. \A n \in DOMAIN new : IsNamed(new[n]) => name # NoName
  BY <1>3, <1>4 DEF Grown
<1>9. cache # NoName \/ NamedBefore(new)
  BY <1>1, <1>3 DEF Grown, NamedBefore
<1>10. QED
  BY <1>5, <1>6, <1>7, <1>8, <1>9 DEF Grown, new, data

\* A put is answered.
LEMMA Answered ==
  ASSUME NEW q \in Seq(Answers), NEW cache, NEW name, NEW w, NEW ok \in BOOLEAN,
         Ack(w, ok) \in Answers, Grown(q, cache, name), ok => Heard(q, cache, name) /\ name # NoName
  PROVE  /\ Grown(Append(q, Ack(w, ok)), cache, name)
         /\ Heard(q, cache, name) => Heard(Append(q, Ack(w, ok)), cache, name)
<1> DEFINE ack == Ack(w, ok)
           new == Append(q, ack)
<1>1. ~ IsData(ack) /\ ~ IsNamed(ack) /\ (Accepts(ack) <=> ok) /\ ack \in Answers
  BY DEF Ack, IsData, IsNamed, Accepts
<1> HIDE DEF ack
<1>2. /\ Len(q) \in Nat /\ DOMAIN q = 1 .. Len(q) /\ DOMAIN new = 1 .. Len(q) + 1
      /\ \A n \in 1 .. Len(q) : new[n] = q[n]
      /\ new[Len(q) + 1] = ack
  BY <1>1, Appended
<1> HIDE DEF new
<1>3. /\ \A n \in DOMAIN new : (n \in DOMAIN q /\ new[n] = q[n]) \/ (n = Len(q) + 1 /\ new[n] = ack)
      /\ \A n \in DOMAIN q : n \in DOMAIN new /\ new[n] = q[n] /\ n < Len(q) + 1
  BY <1>2
<1>4. Heard(q, cache, name) => Heard(new, cache, name)
  BY <1>1, <1>3 DEF Heard, LastData
<1>5. NamesStay(new)
  BY <1>1, <1>3 DEF Grown, NamesStay
<1>6. ASSUME cache = NoName PROVE NamedBefore(new)
  <2>1. NamedBefore(q)
    BY <1>6 DEF Grown
  <2>2. ok => \E m \in DOMAIN q : IsNamed(q[m])
    BY <1>6 DEF Heard, LastData, IsNamed, IsData
  <2>3. QED
    BY <1>1, <1>3, <2>1, <2>2 DEF NamedBefore
<1>7. Grown(new, cache, name)
  BY <1>1, <1>3, <1>5, <1>6 DEF Grown
<1>8. QED
  BY <1>4, <1>7 DEF new, ack

\* The first message is taken: a name into the cache, an answer for a put.
LEMMA TakenNames ==
  ASSUME NEW q \in Seq(Answers), q # <<>>, NEW cache, NEW name, Grown(q, cache, name)
  PROVE  LET new == IF IsData(Head(q)) THEN Head(q).name ELSE cache
         IN  /\ Grown(Tail(q), new, name)
             /\ Heard(q, cache, name) => Heard(Tail(q), new, name)
             /\ cache # NoName => new # NoName
             /\ Accepts(Head(q)) => cache # NoName
<1> DEFINE t == Tail(q)
           new == IF IsData(Head(q)) THEN Head(q).name ELSE cache
<1>1. /\ Head(q) = q[1] /\ Len(q) \in Nat \ {0} /\ DOMAIN q = 1 .. Len(q)
      /\ DOMAIN t = 1 .. Len(q) - 1
      /\ \A n \in 1 .. Len(q) - 1 : t[n] = q[n + 1]
  BY Taken
<1> HIDE DEF t
<1>2. \A n \in DOMAIN t : n + 1 \in DOMAIN q /\ t[n] = q[n + 1] /\ 1 < n + 1
  BY <1>1
<1>3. \A n \in DOMAIN q : n = 1 \/ (n - 1 \in DOMAIN t /\ t[n - 1] = q[n] /\ (n - 1) + 1 = n)
  BY <1>1
<1>4. /\ \A m, n \in DOMAIN t : m < n <=> m + 1 < n + 1
      /\ \A n \in DOMAIN q : ~ n < 1
  BY <1>1
<1>5. 1 \in DOMAIN q
  BY <1>1
<1>6. new # NoName => name # NoName /\ \A n \in DOMAIN t : IsData(t[n]) => IsNamed(t[n])
  <2>1. CASE IsData(Head(q))
    <3>1. SUFFICES ASSUME Head(q).name # NoName
                   PROVE  name # NoName /\ \A n \in DOMAIN t : IsData(t[n]) => IsNamed(t[n])
      BY <2>1
    <3>2. IsNamed(q[1])
      BY <1>1, <2>1, <3>1 DEF IsNamed, IsData
    <3>3. QED
      BY <1>2, <1>5, <3>2 DEF Grown, NamesStay
  <2>2. CASE ~ IsData(Head(q))
    BY <1>2, <2>2 DEF Grown
  <2>3. QED
    BY <2>1, <2>2
<1>7. cache # NoName => new # NoName
  BY <1>1, <1>5 DEF Grown, IsNamed
<1>8. NamesStay(t)
  BY <1>2, <1>4 DEF Grown, NamesStay
<1>9. \A n \in DOMAIN t : IsNamed(t[n]) => name # NoName
  BY <1>2 DEF Grown
<1>10. ASSUME new = NoName PROVE NamedBefore(t)
  <2>1. NamedBefore(q)
    BY <1>7, <1>10 DEF Grown
  <2>2. ~ IsNamed(q[1])
    BY <1>1, <1>10 DEF IsNamed, IsData
  <2>3. SUFFICES ASSUME NEW n \in DOMAIN t, Accepts(t[n])
                 PROVE  \E m \in DOMAIN t : m < n /\ IsNamed(t[m])
    BY DEF NamedBefore
  <2>4. PICK m \in DOMAIN q : m < n + 1 /\ IsNamed(q[m])
    BY <1>2, <2>1, <2>3 DEF NamedBefore
  <2>5. m - 1 \in DOMAIN t /\ t[m - 1] = q[m]
    BY <1>3, <2>2, <2>4
  <2>6. m - 1 < n
    BY <1>1, <2>4
  <2>7. QED
    BY <2>4, <2>5, <2>6
<1>11. Grown(t, new, name)
  BY <1>6, <1>8, <1>9, <1>10 DEF Grown
<1>12. Accepts(Head(q)) => cache # NoName
  BY <1>1, <1>4, <1>5 DEF Grown, NamedBefore
<1>13. Heard(q, cache, name) => Heard(t, new, name)
  <2>1. CASE LastData(q, name)
    <3>1. PICK n \in DOMAIN q : /\ IsData(q[n]) /\ q[n].name = name
                                /\ \A m \in DOMAIN q : n < m => ~ IsData(q[m])
      BY <2>1 DEF LastData
    <3>2. CASE n = 1
      <4>1. new = name /\ \A m \in DOMAIN t : ~ IsData(t[m])
        BY <1>1, <1>2, <3>1, <3>2
      <4>2. QED
        BY <4>1 DEF Heard
    <3>3. CASE n - 1 \in DOMAIN t /\ t[n - 1] = q[n] /\ (n - 1) + 1 = n
      <4>1. \A m \in DOMAIN t : n - 1 < m => ~ IsData(t[m])
        BY <1>2, <1>4, <3>1, <3>3
      <4>2. LastData(t, name)
        BY <3>1, <3>3, <4>1 DEF LastData
      <4>3. QED
        BY <4>2 DEF Heard
    <3>4. QED
      BY <1>3, <3>2, <3>3
  <2>2. CASE cache = name /\ \A n \in DOMAIN q : ~ IsData(q[n])
    <3>1. new = name /\ \A m \in DOMAIN t : ~ IsData(t[m])
      BY <1>1, <1>2, <1>5, <2>2
    <3>2. QED
      BY <3>1 DEF Heard
  <2>3. QED
    BY <2>1, <2>2 DEF Heard
<1>14. QED
  BY <1>7, <1>11, <1>12, <1>13 DEF t

Hearing == Listening /\ NamesGrow

LEMMA FirstStays ==
  ASSUME NEW S, NEW q \in Seq(S), NEW e \in S
  PROVE  /\ Append(q, e) # <<>>
         /\ Append(q, e)[1] = IF q = <<>> THEN e ELSE q[1]
<1>1. CASE q = <<>>
  <2>1. Append(<<>>, e) = <<e>>
    OBVIOUS
  <2>2. QED
    BY <1>1, <2>1
<1>2. CASE q # <<>>
  <2>1. 1 \in 1 .. Len(q)
    BY <1>2, Taken
  <2>2. QED
    BY <1>2, <2>1, Appended
<1>3. QED
  BY <1>1, <1>2

LEMMA ServerHearing ==
  ASSUME Types, Hearing,
         ServerListen \/ ServerPut \/ ServerRefuse \/ \E name \in OthersNames : OthersWrite(name)
  PROVE  Hearing'
<1> DEFINE q == toClient
           cache == sdk.cache
<1>1. q \in Seq(Answers) /\ Grown(q, cache, stored.name) /\ NoName \notin Known
  BY NameFacts DEF Types, QueueTypes, Hearing, NamesGrow
<1>2. CASE ServerListen
  <2>1. /\ toClient' = Append(q, Data(stored.name)) /\ Data(stored.name) \in Answers /\ watching'
        /\ UNCHANGED <<stored, online, sdk>>
    BY <1>2, Listens
  <2>2. Grown(toClient', cache, stored.name) /\ Heard(toClient', cache, stored.name)
    BY <1>1, <2>1, NameTold
  <2>3. QED
    BY <2>1, <2>2 DEF Hearing, Listening, NamesGrow
<1>3. ASSUME toServer # <<>>, Head(toServer).kind = "put" PROVE watching
  <2>1. online /\ sdk.listening /\ Head(toServer) = toServer[1]
    BY <1>3, FirstPut
  <2>2. toServer[1] # Listen
    BY <1>3, <2>1 DEF Listen
  <2>3. QED
    BY <2>1, <2>2 DEF Hearing, Listening
<1>4. CASE ServerPut
  <2> DEFINE w    == Head(toServer).write
             told == IF watching /\ w.name # stored.name THEN Append(q, Data(w.name)) ELSE q
  <2>1. /\ toServer # <<>> /\ Head(toServer).kind = "put" /\ stored' = w /\ w \in Own
        /\ told \in Seq(Answers) /\ Ack(w, TRUE) \in Answers /\ Data(w.name) \in Answers
        /\ toClient' = Append(told, Ack(w, TRUE)) /\ UNCHANGED <<sdk, watching, online>>
    BY <1>4, Stores
  <2>2. watching /\ Heard(q, cache, stored.name)
    BY <1>3, <2>1 DEF Hearing, Listening
  <2>3. w.name # NoName
    BY <1>1, <2>1 DEF Own
  <2>4. Grown(told, cache, w.name) /\ Heard(told, cache, w.name)
    <3>1. CASE w.name # stored.name
      <4>1. told = Append(q, Data(w.name))
        BY <2>2, <3>1
      <4>2. QED
        BY <1>1, <2>1, <2>3, <4>1, NameTold
    <3>2. CASE w.name = stored.name
      <4>1. told = q
        BY <3>2
      <4>2. QED
        BY <1>1, <2>2, <3>2, <4>1
    <3>3. QED
      BY <3>1, <3>2
  <2> HIDE DEF told
  <2>5. Grown(toClient', cache, w.name) /\ Heard(toClient', cache, w.name)
    BY <2>1, <2>3, <2>4, Answered
  <2>6. QED
    BY <2>1, <2>2, <2>5 DEF Hearing, Listening, NamesGrow
<1>5. CASE ServerRefuse
  <2> DEFINE w == Head(toServer).write
  <2>1. /\ toServer # <<>> /\ Head(toServer).kind = "put" /\ Ack(w, FALSE) \in Answers
        /\ toClient' = Append(q, Ack(w, FALSE)) /\ UNCHANGED <<stored, sdk, watching, online>>
    BY <1>5, Refuses
  <2>2. watching /\ Heard(q, cache, stored.name)
    BY <1>3, <2>1 DEF Hearing, Listening
  <2>3. Grown(toClient', cache, stored.name) /\ Heard(toClient', cache, stored.name)
    BY <1>1, <2>1, <2>2, Answered
  <2>4. QED
    BY <2>1, <2>2, <2>3 DEF Hearing, Listening, NamesGrow
<1>6. CASE \E name \in OthersNames : OthersWrite(name)
  <2>1. PICK name \in OthersNames : OthersWrite(name)
    BY <1>6
  <2>2. /\ stored' = Theirs(name) /\ name \in Known /\ Data(name) \in Answers
        /\ toClient' = (IF watching /\ name # stored.name THEN Append(q, Data(name)) ELSE q)
        /\ UNCHANGED <<toServer, sdk, watching, online>>
    BY <2>1, StoresOthers
  <2>3. stored'.name = name /\ name # NoName
    BY <1>1, <2>2 DEF Theirs
  <2>4. Grown(toClient', cache, name) /\ (watching => Heard(toClient', cache, name))
    <3>1. CASE watching /\ name # stored.name
      <4>1. toClient' = Append(q, Data(name))
        BY <2>2, <3>1
      <4>2. QED
        BY <1>1, <2>2, <2>3, <4>1, NameTold
    <3>2. CASE ~ watching \/ name = stored.name
      <4>1. toClient' = q
        BY <2>2, <3>2
      <4>2. Grown(q, cache, name)
        BY <1>1, <2>3 DEF Grown
      <4>3. watching => Heard(q, cache, name)
        BY <3>2 DEF Hearing, Listening
      <4>4. QED
        BY <4>1, <4>2, <4>3
    <3>3. QED
      BY <3>1, <3>2
  <2>5. QED
    BY <2>2, <2>3, <2>4 DEF Hearing, Listening, NamesGrow
<1>7. QED
  BY <1>2, <1>4, <1>5, <1>6

LEMMA ClientHearing ==
  ASSUME Types, PutsInOrder, Hearing, ReceiveData \/ ReceiveAck
  PROVE  Hearing'
<1> DEFINE q == toClient
           new == IF IsData(Head(q)) THEN Head(q).name ELSE sdk.cache
<1>1. /\ q # <<>> /\ q \in Seq(Answers) /\ toClient' = Tail(q) /\ sdk'.cache = new
      /\ UNCHANGED <<stored, watching, online, toServer>> /\ sdk'.listening = sdk.listening
  <2>1. CASE ReceiveData
    BY <2>1, Caches DEF IsData, Types, QueueTypes
  <2>2. CASE ReceiveAck
    <3>1. UNCHANGED <<stored, watching, online, toServer>>
      BY <2>2 DEF ReceiveAck, server
    <3>2. QED
      BY <2>2, <3>1, FirstAck DEF IsData, Types, QueueTypes
  <2>3. QED
    BY <2>1, <2>2
<1>2. /\ Grown(toClient', new, stored.name)
      /\ Heard(q, sdk.cache, stored.name) => Heard(toClient', new, stored.name)
  BY <1>1, TakenNames DEF Hearing, NamesGrow
<1> HIDE DEF new
<1>3. QED
  BY <1>1, <1>2 DEF Hearing, Listening, NamesGrow

\* A step that only sends.
LEMMA HearingStays ==
  ASSUME Types, Hearing, UNCHANGED <<stored, watching, online, toClient>>, sdk'.cache = sdk.cache,
         sdk'.listening = sdk.listening,
         online => toServer' = toServer \/ \E r \in Requests' : toServer' = Append(toServer, r),
         toServer \in Seq(Requests')
  PROVE  Hearing'
<1>1. toServer # <<>> /\ online => toServer' # <<>> /\ toServer'[1] = toServer[1]
  BY FirstStays
<1>2. QED
  BY <1>1 DEF Hearing, Listening, NamesGrow

LEMMA HearingNext ==
  ASSUME Types, PutsInOrder, Hearing, [Next]_vars
  PROVE  Hearing'
<1>1. toServer \in Seq(Requests)
  BY DEF Types, QueueTypes
<1>2. CASE Kill \/ Drop
  <2>1. toClient' = <<>> /\ watching' = FALSE /\ stored' = stored
    BY <1>2 DEF Kill, Drop
  <2>2. sdk'.cache # NoName => sdk.cache # NoName
    BY <1>2 DEF Kill, Drop, FreshClient
  <2>3. Grown(<<>>, sdk'.cache, stored.name)
    BY <2>2, Nothing DEF Hearing, NamesGrow, Grown, NamesStay, NamedBefore
  <2>4. ~ (online' /\ sdk'.listening)
    BY <1>2 DEF Kill, Drop, FreshClient
  <2>5. QED
    BY <2>1, <2>3, <2>4 DEF Hearing, Listening, NamesGrow
<1>3. CASE ShowLabel \/ OpenEdit
  <2>1. PICK kind \in {"label", "field"} : Show(kind)
    BY <1>3 DEF ShowLabel, OpenEdit
  <2>2. /\ sdk'.cache = sdk.cache /\ UNCHANGED <<stored, watching, online, toClient>>
        /\ toServer' = IF sdk.listening THEN toServer ELSE Request(Listen)
        /\ sdk'.listening
    BY <2>1, ShowFacts DEF Show, server
  <2>3. CASE sdk.listening
    BY <2>2, <2>3 DEF Hearing, Listening, NamesGrow
  <2>4. CASE ~ sdk.listening
    <3>1. toServer = <<>> /\ ~ watching
      BY <2>4 DEF Types, Idle
    <3>2. online => toServer' = <<Listen>>
      BY <2>2, <2>4, <3>1 DEF Request
    <3>3. online => toServer' # <<>> /\ toServer'[1] = Listen
      BY <3>2
    <3>4. QED
      BY <2>2, <3>1, <3>3 DEF Hearing, Listening, NamesGrow
  <2>5. QED
    BY <2>3, <2>4
<1>4. ASSUME Grows, NEW name \in Known', NEW blocks \in Seq(Blocks'), SetValue(name, blocks),
             UNCHANGED <<stored, watching, online, toClient>>
      PROVE  Hearing'
  <2> DEFINE w == [write |-> writes + 1, name |-> name]
  <2>1. /\ Put(w) \in Requests' /\ toServer' = (IF online THEN Append(toServer, Put(w)) ELSE toServer)
        /\ UNCHANGED <<sdk.listening, sdk.cache>>
    BY <1>4, SetValueFacts
  <2>2. toServer \in Seq(Requests')
    BY <1>4, Growing
  <2> HIDE DEF w
  <2>3. QED
    BY <1>4, <2>1, <2>2, HearingStays
<1>5. CASE Leave \/ Cover
  <2>1. PICK kind \in {"closed", "field"} : Disappear(kind)
    BY <1>5 DEF Leave, Cover
  <2>2. /\ WrittenBack(shown[Field].text) \in Known' /\ mainQueue \in Seq(Blocks') /\ Grows
        /\ SetValue(WrittenBack(shown[Field].text), mainQueue)
        /\ UNCHANGED <<stored, watching, online, toClient>>
    BY <2>1, WritesBack DEF server
  <2>3. QED
    BY <1>4, <2>2
<1>6. CASE HandleEvent
  <2>1. CASE Named(Head(mainQueue).name)
    BY <1>6, <2>1, PassesOn DEF server, Hearing, Listening, NamesGrow
  <2>2. CASE ~ Named(Head(mainQueue).name)
    <3> DEFINE rest == Append(Tail(mainQueue), SetText(Head(mainQueue).view, writes + 1))
    <3>1. /\ SetValue(writes + 1, rest) /\ rest \in Seq(Blocks') /\ Grows /\ writes + 1 \in Known'
          /\ UNCHANGED <<stored, watching, online, toClient>>
      BY <1>6, <2>2, Invents DEF server
    <3> HIDE DEF rest
    <3>2. QED
      BY <1>4, <3>1
  <2>3. QED
    BY <2>1, <2>2
<1>7. CASE Reconnect
  <2>1. /\ online' /\ ~ watching /\ UNCHANGED <<stored, watching, toClient, sdk>>
        /\ toServer' = (IF sdk.listening THEN <<Listen>> ELSE <<>>)
                         \o [k \in DOMAIN sdk.pending |-> Put(sdk.pending[k])]
        /\ [k \in DOMAIN sdk.pending |-> Put(sdk.pending[k])] \in Seq(Requests)
    BY <1>7, Restores
  <2> DEFINE puts == [k \in DOMAIN sdk.pending |-> Put(sdk.pending[k])]
             listen == <<Listen>>
  <2>2. listen \in Seq(Requests) /\ 1 \in 1 .. Len(listen) /\ listen[1] = Listen
    <3>1. Listen \in Requests
      BY DEF Requests
    <3>2. QED
      BY <3>1, Single
  <2>3. puts \in Seq(Requests)
    BY <2>1
  <2>4. sdk.listening => toServer' = listen \o puts
    BY <2>1
  <2> HIDE DEF puts, listen
  <2>5. sdk.listening => toServer' # <<>> /\ toServer'[1] = Listen
    <3>1. SUFFICES ASSUME sdk.listening PROVE toServer' # <<>> /\ toServer'[1] = Listen
      OBVIOUS
    <3>2. /\ 1 \in DOMAIN (listen \o puts) /\ (listen \o puts)[1] = Listen
      BY <2>2, <2>3, Joined
    <3>3. QED
      BY <2>4, <3>1, <3>2, Nothing
  <2>6. QED
    BY <2>1, <2>5 DEF Hearing, Listening, NamesGrow
<1>8. CASE ShowText \/ (\E text \in Texts : Type(text)) \/ UNCHANGED vars
  <2>1. UNCHANGED <<stored, watching, online, toClient, toServer, sdk>>
    BY <1>8 DEF ShowText, Type, vars, server, network
  <2>2. QED
    BY <2>1 DEF Hearing, Listening, NamesGrow
<1>9. QED
  BY <1>2, <1>3, <1>5, <1>6, <1>7, <1>8, ServerHearing, ClientHearing
  DEF Next, Server, Client, Main, User, Fault

-----------------------------------------------------------------------------
(* What an app has found.                                                  *)

IsEvent(b)    == b.kind = "event"
NamedEvent(b) == b.kind = "event" /\ b.name # NoName

\* An event with a name waits.
NameWaits(q) == \E n \in DOMAIN q : NamedEvent(q[n])

\* No event without a name waits behind one with a name; none waits at all.
EventsStay(q) == \A m, n \in DOMAIN q : m < n /\ NamedEvent(q[m]) /\ IsEvent(q[n]) => NamedEvent(q[n])
AllNamed(q)   == \A n \in DOMAIN q : IsEvent(q[n]) => NamedEvent(q[n])

\* As long as no write was refused: once a name is found, or an event with one waits, the
\* client's view has a name, and every event to come.
Finding ==
  ~ refused => /\ knows \/ NameWaits(mainQueue) => Value(sdk) # NoName
               /\ EventsStay(mainQueue)
               /\ knows => AllNamed(mainQueue)

\* Events of one name are raised.
LEMMA EventsJoined ==
  ASSUME NEW S, NEW q \in Seq(S), NEW r \in Seq(S), NEW name,
         \A n \in DOMAIN r : r[n].kind = "event" /\ r[n].name = name
  PROVE  /\ NameWaits(q \o r) => NameWaits(q) \/ name # NoName
         /\ EventsStay(q) /\ (NameWaits(q) => name # NoName) => EventsStay(q \o r)
         /\ AllNamed(q) /\ name # NoName => AllNamed(q \o r)
<1> DEFINE new == q \o r
           L   == Len(q)
<1>1. /\ L \in Nat /\ Len(r) \in Nat /\ DOMAIN q = 1 .. L /\ DOMAIN r = 1 .. Len(r)
      /\ DOMAIN new = 1 .. L + Len(r)
      /\ \A n \in 1 .. L : new[n] = q[n]
      /\ \A n \in 1 .. Len(r) : new[L + n] = r[n]
      /\ \A n \in DOMAIN new : n \in 1 .. L \/ (n - L \in 1 .. Len(r) /\ L + (n - L) = n)
  BY Joined
<1> HIDE DEF new, L
<1>2. /\ \A n \in DOMAIN new : \/ n \in DOMAIN q /\ new[n] = q[n]
                               \/ n \notin DOMAIN q /\ n - L \in DOMAIN r /\ new[n] = r[n - L]
      /\ \A m \in DOMAIN new : \A n \in DOMAIN q : m < n => m \in DOMAIN q
  <2>1. \A n \in DOMAIN new : \/ n \in DOMAIN q /\ new[n] = q[n]
                              \/ n - L \in DOMAIN r /\ new[n] = r[n - L] /\ n > L
    BY <1>1
  <2>2. \A n \in DOMAIN new : n > L => n \notin DOMAIN q
    BY <1>1
  <2>3. \A m \in DOMAIN new : \A n \in DOMAIN q : m < n => m \in DOMAIN q
    BY <1>1
  <2>4. QED
    BY <2>1, <2>2, <2>3
<1>3. \A n \in DOMAIN new : \/ n \in DOMAIN q /\ new[n] = q[n]
                            \/ n \notin DOMAIN q /\ new[n].kind = "event" /\ new[n].name = name
  BY <1>2
<1>4. NameWaits(new) => NameWaits(q) \/ name # NoName
  BY <1>3 DEF NameWaits, NamedEvent
<1>5. AllNamed(q) /\ name # NoName => AllNamed(new)
  BY <1>3 DEF AllNamed, NamedEvent, IsEvent
<1>6. ASSUME EventsStay(q), NameWaits(q) => name # NoName PROVE EventsStay(new)
  <2>1. SUFFICES ASSUME NEW m \in DOMAIN new, NEW n \in DOMAIN new, m < n, NamedEvent(new[m]),
                        IsEvent(new[n])
                 PROVE  NamedEvent(new[n])
    BY DEF EventsStay
  <2>2. CASE n \in DOMAIN q
    BY <1>2, <1>3, <1>6, <2>1, <2>2 DEF EventsStay
  <2>3. CASE n \notin DOMAIN q
    <3>1. name # NoName
      BY <1>3, <1>6, <2>1 DEF NameWaits, NamedEvent
    <3>2. QED
      BY <1>3, <2>3, <3>1 DEF NamedEvent
  <2>4. QED
    BY <2>2, <2>3
<1>7. QED
  BY <1>4, <1>5, <1>6 DEF new

\* A block is handled; a text may be posted.
LEMMA EventsTaken ==
  ASSUME NEW S, NEW q \in Seq(S), q # <<>>, EventsStay(q)
  PROVE  /\ NameWaits(Tail(q)) => NameWaits(q)
         /\ NamedEvent(Head(q)) => NameWaits(q) /\ AllNamed(Tail(q))
         /\ EventsStay(Tail(q))
         /\ AllNamed(q) => AllNamed(Tail(q)) /\ (IsEvent(Head(q)) => NamedEvent(Head(q)))
<1> DEFINE t == Tail(q)
<1>1. /\ Head(q) = q[1] /\ Len(q) \in Nat \ {0} /\ DOMAIN q = 1 .. Len(q)
      /\ DOMAIN t = 1 .. Len(q) - 1
      /\ \A n \in 1 .. Len(q) - 1 : t[n] = q[n + 1]
  BY Taken
<1> HIDE DEF t
<1>2. /\ \A n \in DOMAIN t : n + 1 \in DOMAIN q /\ t[n] = q[n + 1] /\ 1 < n + 1
      /\ \A m, n \in DOMAIN t : m < n => m + 1 < n + 1
      /\ 1 \in DOMAIN q
  BY <1>1
<1>3. /\ NameWaits(t) => NameWaits(q)
      /\ NamedEvent(Head(q)) => NameWaits(q)
  BY <1>1, <1>2 DEF NameWaits
<1>4. NamedEvent(Head(q)) => AllNamed(t)
  BY <1>1, <1>2 DEF AllNamed, EventsStay
<1>5. EventsStay(t)
  BY <1>2 DEF EventsStay
<1>6. AllNamed(q) => AllNamed(t) /\ (IsEvent(Head(q)) => NamedEvent(Head(q)))
  BY <1>1, <1>2 DEF AllNamed
<1>7. QED
  BY <1>3, <1>4, <1>5, <1>6 DEF t

LEMMA TextAppended ==
  ASSUME NEW S, NEW q \in Seq(S), NEW text \in S, text.kind = "text"
  PROVE  /\ NameWaits(Append(q, text)) => NameWaits(q)
         /\ EventsStay(q) => EventsStay(Append(q, text))
         /\ AllNamed(q) => AllNamed(Append(q, text))
<1> DEFINE new == Append(q, text)
<1>1. /\ Len(q) \in Nat /\ DOMAIN q = 1 .. Len(q) /\ DOMAIN new = 1 .. Len(q) + 1
      /\ \A n \in 1 .. Len(q) : new[n] = q[n]
      /\ new[Len(q) + 1] = text
  BY Appended
<1> HIDE DEF new
<1>2. /\ \A n \in DOMAIN new : (n \in DOMAIN q /\ new[n] = q[n]) \/ new[n] = text
      /\ ~ IsEvent(text) /\ ~ NamedEvent(text)
  BY <1>1 DEF IsEvent, NamedEvent
<1>3. NameWaits(new) => NameWaits(q)
  BY <1>2 DEF NameWaits
<1>4. EventsStay(q) => EventsStay(new)
  BY <1>2 DEF EventsStay
<1>5. AllNamed(q) => AllNamed(new)
  BY <1>2 DEF AllNamed
<1>6. QED
  BY <1>3, <1>4, <1>5 DEF new

\* A changed client: a view that had a name has one.
LEMMA FindingRaises ==
  ASSUME Types, Finding, Value(sdk') \in Names', mainQueue' = mainQueue \o Raised(sdk'),
         DOMAIN shown \subseteq DOMAIN shown',
         knows' = knows, ~ refused' => ~ refused,
         ~ refused' /\ Value(sdk) # NoName => Value(sdk') # NoName,
         mainQueue \in Seq(Blocks')
  PROVE  Finding'
<1> DEFINE r == Raised(sdk')
<1>1. /\ r \in Seq([kind : {"event"}, view : DOMAIN shown, name : Names'])
      /\ \A n \in DOMAIN r : r[n].kind = "event" /\ r[n].name = Value(sdk')
  BY RaisedFacts
<1>2. r \in Seq(Blocks')
  <2>1. [kind : {"event"}, view : DOMAIN shown, name : Names'] \subseteq Blocks'
    BY DEF Blocks
  <2>2. QED
    BY <1>1, <2>1, Wider
<1>3. mainQueue' = mainQueue \o r
  OBVIOUS
<1> HIDE DEF r
<1>4. SUFFICES ASSUME ~ refused' PROVE Finding'
  BY DEF Finding
<1>5. /\ knows \/ NameWaits(mainQueue) => Value(sdk') # NoName
      /\ EventsStay(mainQueue)
      /\ knows => AllNamed(mainQueue)
  BY <1>4 DEF Finding
<1>6. /\ NameWaits(mainQueue') => NameWaits(mainQueue) \/ Value(sdk') # NoName
      /\ EventsStay(mainQueue')
      /\ AllNamed(mainQueue) /\ Value(sdk') # NoName => AllNamed(mainQueue')
  BY <1>1, <1>2, <1>3, <1>5, EventsJoined
<1>7. QED
  BY <1>5, <1>6 DEF Finding

LEMMA NewNames ==
  ASSUME Types, Grows
  PROVE  NoName \notin Known'
<1>1. /\ NoName # Blank /\ NoName \notin OthersNames /\ NoName \notin Nat
      /\ \A text \in Texts : Trimmed[text] # NoName
  BY ChannelNameAssumption
<1>2. \A n \in 1 .. writes' : n \in Nat
  BY DEF Grows
<1>3. QED
  BY <1>1, <1>2 DEF Known

\* A name is written: every event that is raised has it.
LEMMA FindingWrites ==
  ASSUME Types, Grows, NEW name \in Known', NEW blocks \in Seq(Blocks'), SetValue(name, blocks),
         ~ refused => EventsStay(blocks) /\ (knows => AllNamed(blocks)),
         UNCHANGED <<knows, refused>>
  PROVE  Finding'
<1>1. Value(sdk') = name /\ mainQueue' = blocks \o Raised(sdk') /\ name # NoName
  BY SetValueFacts, NewNames
<1> DEFINE r == Raised(sdk')
<1>2. /\ r \in Seq([kind : {"event"}, view : DOMAIN shown, name : Names'])
      /\ \A n \in DOMAIN r : r[n].kind = "event" /\ r[n].name = name
  BY <1>1, RaisedFacts DEF Names
<1>3. r \in Seq(Blocks')
  <2>1. [kind : {"event"}, view : DOMAIN shown, name : Names'] \subseteq Blocks'
    BY DEF Blocks, Grows
  <2>2. QED
    BY <1>2, <2>1, Wider
<1>4. mainQueue' = blocks \o r
  BY <1>1
<1> HIDE DEF r
<1>5. SUFFICES ASSUME ~ refused' PROVE Finding'
  BY DEF Finding
<1>6. EventsStay(mainQueue') /\ (knows => AllNamed(mainQueue'))
  BY <1>1, <1>2, <1>3, <1>4, <1>5, EventsJoined
<1>7. QED
  BY <1>1, <1>6 DEF Finding

LEMMA ClientFinds ==
  ASSUME Types, PutsInOrder, Hearing, Finding, ReceiveData \/ ReceiveAck
  PROVE  Finding'
<1>1. UNCHANGED <<writes, shown>> /\ mainQueue' = mainQueue \o Raised(sdk') /\ sdk' \in Clients
  BY Caches, FirstAck DEF ReceiveData, ReceiveAck
<1>2. UNCHANGED <<Names, Blocks, Clients>> /\ writes \in Nat
  BY <1>1, SameSets DEF Types
<1>3. Value(sdk') \in Names' /\ mainQueue \in Seq(Blocks')
  BY <1>1, <1>2, ValueIsName DEF Types, QueueTypes
<1>4. /\ toClient \in Seq(Answers)
      /\ toClient # <<>> => /\ IsData(Head(toClient)) /\ sdk.cache # NoName => Head(toClient).name # NoName
                            /\ Accepts(Head(toClient)) => sdk.cache # NoName
  BY TakenNames DEF Types, QueueTypes, Hearing, NamesGrow
<1>5. CASE ReceiveData
  <2>1. /\ toClient # <<>> /\ IsData(Head(toClient)) /\ sdk'.cache = Head(toClient).name
        /\ sdk'.pending = sdk.pending /\ UNCHANGED <<knows, refused>>
    BY <1>5, Caches DEF IsData
  <2>2. Value(sdk) # NoName => Value(sdk') # NoName
    BY <1>4, <2>1 DEF Value
  <2>3. QED
    BY <1>1, <1>3, <2>1, <2>2, FindingRaises
<1>6. CASE ReceiveAck
  <2>1. /\ toClient # <<>> /\ Head(toClient).kind = "ack" /\ sdk'.cache = sdk.cache
        /\ refused' = (refused \/ ~ Head(toClient).ok)
    BY <1>6, FirstAck
  <2>2. knows' = knows
    BY <1>6 DEF ReceiveAck
  <2>3. ~ refused' => sdk'.cache # NoName
    BY <1>4, <2>1 DEF Accepts
  <2>4. sdk'.pending # <<>> => Value(sdk') # NoName
    BY <1>1, <1>2, ValueIsName, NameFacts
  <2>5. ~ refused' => Value(sdk') # NoName
    BY <2>3, <2>4 DEF Value
  <2>6. QED
    BY <1>1, <1>3, <2>1, <2>2, <2>5, FindingRaises
<1>7. QED
  BY <1>5, <1>6

LEMMA MainFinds ==
  ASSUME Types, Finding, HandleEvent \/ ShowText
  PROVE  Finding'
<1> DEFINE block == Head(mainQueue)
<1>1. mainQueue # <<>> /\ mainQueue \in Seq(Blocks) /\ refused' = refused /\ Tail(mainQueue) \in Seq(Blocks)
  BY FirstBlock DEF HandleEvent, ShowText, Types, QueueTypes, history
<1>2. ~ refused => /\ knows \/ NameWaits(mainQueue) => Value(sdk) # NoName
                   /\ EventsStay(mainQueue)
                   /\ knows => AllNamed(mainQueue)
  BY DEF Finding
<1>3. ~ refused => /\ NameWaits(Tail(mainQueue)) => NameWaits(mainQueue)
                   /\ NamedEvent(block) => NameWaits(mainQueue) /\ AllNamed(Tail(mainQueue))
                   /\ EventsStay(Tail(mainQueue))
                   /\ knows => AllNamed(Tail(mainQueue)) /\ (IsEvent(block) => NamedEvent(block))
  BY <1>1, <1>2, EventsTaken
<1>4. CASE ShowText
  <2>1. mainQueue' = Tail(mainQueue) /\ UNCHANGED <<sdk, knows>>
    BY <1>4 DEF ShowText, history
  <2>2. QED
    BY <1>1, <1>2, <1>3, <2>1 DEF Finding
<1>5. CASE HandleEvent /\ Named(block.name)
  <2> DEFINE text == SetText(block.view, block.name)
  <2>1. /\ block.kind = "event" /\ text \in Blocks /\ mainQueue' = Append(Tail(mainQueue), text)
        /\ knows' /\ UNCHANGED sdk
    BY <1>5, PassesOn
  <2>2. NamedEvent(block) /\ text.kind = "text"
    BY <1>5, <2>1 DEF NamedEvent, Named, SetText
  <2> HIDE DEF text
  <2>3. /\ NameWaits(mainQueue') => NameWaits(Tail(mainQueue))
        /\ EventsStay(Tail(mainQueue)) => EventsStay(mainQueue')
        /\ AllNamed(Tail(mainQueue)) => AllNamed(mainQueue')
    BY <1>1, <2>1, <2>2, TextAppended
  <2>4. QED
    BY <1>1, <1>2, <1>3, <2>1, <2>2, <2>3 DEF Finding
<1>6. CASE HandleEvent /\ ~ Named(block.name)
  <2> DEFINE text == SetText(block.view, writes + 1)
             rest == Append(Tail(mainQueue), text)
  <2>1. /\ text \in Blocks' /\ SetValue(writes + 1, rest) /\ rest \in Seq(Blocks') /\ Grows
        /\ writes + 1 \in Known' /\ UNCHANGED <<refused, knows>>
    BY <1>6, Invents
  <2>2. text.kind = "text"
    BY DEF SetText
  <2>3. Tail(mainQueue) \in Seq(Blocks')
    <3>1. Blocks \subseteq Blocks'
      BY <2>1, Growing
    <3>2. QED
      BY <1>1, <3>1, Wider
  <2> HIDE DEF text
  <2>4. /\ EventsStay(Tail(mainQueue)) => EventsStay(rest)
        /\ AllNamed(Tail(mainQueue)) => AllNamed(rest)
    BY <2>1, <2>2, <2>3, TextAppended
  <2> HIDE DEF rest
  <2>5. QED
    BY <1>3, <2>1, <2>4, FindingWrites
<1>7. QED
  BY <1>4, <1>5, <1>6

LEMMA UserFinds ==
  ASSUME Types, Finding, User
  PROVE  Finding'
<1>1. CASE ShowLabel \/ OpenEdit
  <2>1. PICK kind \in {"label", "field"} : Show(kind)
    BY <1>1 DEF ShowLabel, OpenEdit
  <2> DEFINE e == Event(Len(shown) + 1, Value(sdk))
             one == <<e>>
  <2>2. /\ Value(sdk') = Value(sdk) /\ Grows
        /\ mainQueue' = (IF Complete(sdk) THEN Append(mainQueue, e) ELSE mainQueue)
        /\ e \in Blocks'
    BY <2>1, ShowFacts
  <2>3. UNCHANGED <<knows, refused>>
    BY <2>1 DEF Show, history
  <2>4. mainQueue \in Seq(Blocks')
    BY <2>2, Growing
  <2>5. CASE Complete(sdk)
    <3>1. e.kind = "event" /\ e.name = Value(sdk)
      BY DEF Event
    <3> HIDE DEF e
    <3>2. /\ one \in Seq(Blocks') /\ \A n \in DOMAIN one : one[n].kind = "event" /\ one[n].name = Value(sdk)
      BY <2>2, <3>1, Single
    <3>3. mainQueue' = mainQueue \o one
      BY <2>2, <2>4, <2>5, AppendedBy
    <3> HIDE DEF one
    <3>4. SUFFICES ASSUME ~ refused' PROVE Finding'
      BY DEF Finding
    <3>5. /\ knows \/ NameWaits(mainQueue) => Value(sdk) # NoName
          /\ EventsStay(mainQueue)
          /\ knows => AllNamed(mainQueue)
      BY <2>3, <3>4 DEF Finding
    <3>6. /\ NameWaits(mainQueue') => NameWaits(mainQueue) \/ Value(sdk) # NoName
          /\ EventsStay(mainQueue')
          /\ AllNamed(mainQueue) /\ Value(sdk) # NoName => AllNamed(mainQueue')
      BY <2>4, <3>2, <3>3, <3>5, EventsJoined
    <3>7. QED
      BY <2>2, <2>3, <3>5, <3>6 DEF Finding
  <2>6. CASE ~ Complete(sdk)
    BY <2>2, <2>3, <2>6 DEF Finding
  <2>7. QED
    BY <2>5, <2>6
<1>2. CASE Leave \/ Cover
  <2>1. PICK kind \in {"closed", "field"} : Disappear(kind)
    BY <1>2 DEF Leave, Cover
  <2>2. /\ WrittenBack(shown[Field].text) \in Known' /\ mainQueue \in Seq(Blocks') /\ Grows
        /\ SetValue(WrittenBack(shown[Field].text), mainQueue)
        /\ UNCHANGED <<knows, refused>>
    BY <2>1, WritesBack
  <2>3. QED
    BY <2>2, FindingWrites DEF Finding
<1>3. CASE \E text \in Texts : Type(text)
  BY <1>3 DEF Type, Finding, history
<1>4. QED
  BY <1>1, <1>2, <1>3 DEF User

LEMMA FindingNext ==
  ASSUME Types, PutsInOrder, Hearing, Finding, [Next]_vars
  PROVE  Finding'
<1>1. CASE Kill
  <2>1. mainQueue' = <<>> /\ ~ knows'
    BY <1>1 DEF Kill
  <2>2. QED
    BY <2>1, Nothing DEF Finding, NameWaits, EventsStay
<1>2. CASE \/ Server \/ Drop \/ ServerRefuse \/ Reconnect \/ UNCHANGED vars
           \/ \E name \in OthersNames : OthersWrite(name)
  <2>1. UNCHANGED <<sdk, mainQueue, knows, refused>>
    BY <1>2 DEF Server, ServerListen, ServerPut, Drop, ServerRefuse, Reconnect, OthersWrite, vars, history
  <2>2. QED
    BY <2>1 DEF Finding
<1>3. QED
  BY <1>1, <1>2, ClientFinds, MainFinds, UserFinds DEF Next, Client, Main, Fault

-----------------------------------------------------------------------------
(* What the views hear.                                                    *)

\* A block of this kind for view k.
For(b, kind, k) == b.kind = kind /\ b.view = k

\* The last one that waits says this name; none waits.
LastSays(q, kind, k, name) ==
  \E n \in DOMAIN q :
    For(q[n], kind, k) /\ q[n].name = name /\ \A m \in DOMAIN q : n < m => ~ For(q[m], kind, k)
Silent(q, kind, k) == \A n \in DOMAIN q : ~ For(q[n], kind, k)

\* The last event for a view says this name, or the last text when there is no event, or
\* the view shows it when there is neither.
Hears(q, k, view, name) ==
  \/ LastSays(q, "event", k, name)
  \/ /\ Silent(q, "event", k)
     /\ LastSays(q, "text", k, name) \/ (Silent(q, "text", k) /\ name # NoName
                                           /\ (view.typed \/ view.text = name))

\* Every view hears the name of the client's view, once that is complete.
Hearers == Complete(sdk) => \A k \in DOMAIN shown : Hears(mainQueue, k, shown[k], Value(sdk))

LEMMA ForAppended ==
  ASSUME NEW S, NEW q \in Seq(S), NEW b \in S, NEW kind, NEW k, NEW name
  PROVE  /\ ~ For(b, kind, k) => /\ LastSays(q, kind, k, name) => LastSays(Append(q, b), kind, k, name)
                                 /\ Silent(q, kind, k) => Silent(Append(q, b), kind, k)
         /\ For(b, kind, k) /\ b.name = name => LastSays(Append(q, b), kind, k, name)
<1> DEFINE new == Append(q, b)
<1>1. /\ Len(q) \in Nat /\ DOMAIN q = 1 .. Len(q) /\ DOMAIN new = 1 .. Len(q) + 1
      /\ \A n \in 1 .. Len(q) : new[n] = q[n]
      /\ new[Len(q) + 1] = b
  BY Appended
<1> HIDE DEF new
<1>2. /\ \A n \in DOMAIN new : (n \in DOMAIN q /\ new[n] = q[n]) \/ (n = Len(q) + 1 /\ new[n] = b)
      /\ \A n \in DOMAIN q : n \in DOMAIN new
      /\ \A n \in DOMAIN new : ~ Len(q) + 1 < n
      /\ Len(q) + 1 \in DOMAIN new
  BY <1>1
<1>3. ASSUME ~ For(b, kind, k), LastSays(q, kind, k, name) PROVE LastSays(new, kind, k, name)
  BY <1>1, <1>2, <1>3 DEF LastSays
<1>4. ASSUME ~ For(b, kind, k), Silent(q, kind, k) PROVE Silent(new, kind, k)
  BY <1>1, <1>2, <1>4 DEF Silent
<1>5. ASSUME For(b, kind, k), b.name = name PROVE LastSays(new, kind, k, name)
  BY <1>1, <1>2, <1>5 DEF LastSays
<1>6. QED
  BY <1>3, <1>4, <1>5 DEF new

LEMMA ForTaken ==
  ASSUME NEW S, NEW q \in Seq(S), q # <<>>, NEW kind, NEW k, NEW name
  PROVE  /\ Silent(q, kind, k) => Silent(Tail(q), kind, k) /\ ~ For(Head(q), kind, k)
         /\ LastSays(q, kind, k, name) =>
              \/ LastSays(Tail(q), kind, k, name)
              \/ For(Head(q), kind, k) /\ Head(q).name = name /\ Silent(Tail(q), kind, k)
<1> DEFINE t == Tail(q)
<1>1. /\ Head(q) = q[1] /\ Len(q) \in Nat \ {0} /\ DOMAIN q = 1 .. Len(q)
      /\ DOMAIN t = 1 .. Len(q) - 1
      /\ \A n \in 1 .. Len(q) - 1 : t[n] = q[n + 1]
  BY Taken
<1> HIDE DEF t
<1>2. /\ \A n \in DOMAIN t : n + 1 \in DOMAIN q /\ t[n] = q[n + 1] /\ 1 < n + 1
      /\ \A n \in DOMAIN q : n = 1 \/ (n - 1 \in DOMAIN t /\ t[n - 1] = q[n] /\ (n - 1) + 1 = n)
      /\ 1 \in DOMAIN q
  BY <1>1
<1>3. \A n \in DOMAIN q : \A m \in DOMAIN t : n - 1 < m => n < m + 1
  BY <1>1
<1>4. Silent(q, kind, k) => Silent(t, kind, k) /\ ~ For(Head(q), kind, k)
  BY <1>1, <1>2 DEF Silent
<1>5. ASSUME LastSays(q, kind, k, name)
      PROVE  \/ LastSays(t, kind, k, name)
             \/ For(Head(q), kind, k) /\ Head(q).name = name /\ Silent(t, kind, k)
  <2>1. PICK n \in DOMAIN q : /\ For(q[n], kind, k) /\ q[n].name = name
                              /\ \A m \in DOMAIN q : n < m => ~ For(q[m], kind, k)
    BY <1>5 DEF LastSays
  <2>2. CASE n = 1
    BY <1>1, <1>2, <2>1, <2>2 DEF Silent
  <2>3. CASE n - 1 \in DOMAIN t /\ t[n - 1] = q[n]
    <3>1. \A m \in DOMAIN t : n - 1 < m => ~ For(t[m], kind, k)
      BY <1>2, <1>3, <2>1
    <3>2. QED
      BY <2>1, <2>3, <3>1 DEF LastSays
  <2>4. QED
    BY <1>2, <2>2, <2>3
<1>6. QED
  BY <1>4, <1>5 DEF t

\* Once an event is raised for every view, each of them hears its name.
LEMMA AllHear ==
  ASSUME NEW S, NEW q \in Seq(S), NEW r \in Seq(S), NEW name,
         \A n \in DOMAIN r : r[n].kind = "event" /\ r[n].name = name /\ r[n].view = n,
         NEW k \in DOMAIN r
  PROVE  LastSays(q \o r, "event", k, name)
<1> DEFINE new == q \o r
           L   == Len(q)
<1>1. /\ L \in Nat /\ Len(r) \in Nat /\ DOMAIN q = 1 .. L /\ DOMAIN r = 1 .. Len(r)
      /\ DOMAIN new = 1 .. L + Len(r)
      /\ \A n \in 1 .. Len(r) : new[L + n] = r[n]
      /\ \A n \in DOMAIN new : n \in 1 .. L \/ (n - L \in 1 .. Len(r) /\ L + (n - L) = n)
  BY Joined
<1> HIDE DEF new, L
<1>2. L + k \in DOMAIN new /\ new[L + k] = r[k]
  BY <1>1
<1>3. ASSUME NEW m \in DOMAIN new, L + k < m PROVE ~ For(new[m], "event", k)
  <2>1. m - L \in DOMAIN r /\ new[m] = r[m - L] /\ m - L # k
    BY <1>1, <1>3
  <2>2. QED
    BY <2>1 DEF For
<1>4. For(r[k], "event", k) /\ r[k].name = name
  BY DEF For
<1>5. QED
  BY <1>2, <1>3, <1>4 DEF LastSays, new

\* A changed client tells every view, or none has to hear.
LEMMA HearersRaise ==
  ASSUME Types, Value(sdk') \in Names', NEW blocks \in Seq(Blocks'), DOMAIN shown' = DOMAIN shown,
         mainQueue' = blocks \o Raised(sdk'),
         Complete(sdk) /\ Value(sdk') = Value(sdk) =>
           \A k \in DOMAIN shown : Hears(blocks, k, shown'[k], Value(sdk))
  PROVE  Hearers'
<1> DEFINE r == Raised(sdk')
<1>1. CASE Complete(sdk') /\ (~ Complete(sdk) \/ Value(sdk') # Value(sdk))
  <2>1. /\ r \in Seq([kind : {"event"}, view : DOMAIN shown, name : Names'])
        /\ \A n \in DOMAIN r : r[n].kind = "event" /\ r[n].name = Value(sdk')
        /\ DOMAIN r = DOMAIN shown
        /\ \A k \in DOMAIN shown : r[k].view = k
    BY <1>1, RaisedFacts
  <2>2. r \in Seq(Blocks')
    <3>1. [kind : {"event"}, view : DOMAIN shown, name : Names'] \subseteq Blocks'
      BY DEF Blocks
    <3>2. QED
      BY <2>1, <3>1, Wider
  <2>3. mainQueue' = blocks \o r
    OBVIOUS
  <2> HIDE DEF r
  <2>4. \A k \in DOMAIN shown : LastSays(mainQueue', "event", k, Value(sdk'))
    BY <2>1, <2>2, <2>3, AllHear
  <2>5. QED
    BY <2>4 DEF Hearers, Hears
<1>2. CASE ~ (Complete(sdk') /\ (~ Complete(sdk) \/ Value(sdk') # Value(sdk)))
  <2>1. r = <<>>
    BY <1>2, RaisedFacts
  <2>2. mainQueue' = blocks
    <3>1. blocks \o <<>> = blocks
      BY AppendedBy, ConcatEmptySeq
    <3>2. QED
      BY <2>1, <3>1
  <2>3. QED
    BY <1>2, <2>2 DEF Hearers
<1>3. QED
  BY <1>1, <1>2

LEMMA ClientHears ==
  ASSUME Types, PutsInOrder, Hearers, ReceiveData \/ ReceiveAck
  PROVE  Hearers'
<1>1. UNCHANGED <<writes, shown>> /\ mainQueue' = mainQueue \o Raised(sdk') /\ sdk' \in Clients
  BY Caches, FirstAck DEF ReceiveData, ReceiveAck
<1>2. UNCHANGED <<Names, Blocks, Clients>> /\ writes \in Nat
  BY <1>1, SameSets DEF Types
<1>3. Value(sdk') \in Names' /\ mainQueue \in Seq(Blocks')
  BY <1>1, <1>2, ValueIsName DEF Types, QueueTypes
<1>4. Complete(sdk) => \A k \in DOMAIN shown : Hears(mainQueue, k, shown'[k], Value(sdk))
  BY <1>1 DEF Hearers
<1>5. QED
  BY <1>1, <1>3, <1>4, HearersRaise

LEMMA UserHears ==
  ASSUME Types, Hearers, User
  PROVE  Hearers'
<1>1. CASE ShowLabel \/ OpenEdit
  <2>1. PICK kind \in {"label", "field"} : Show(kind)
    BY <1>1 DEF ShowLabel, OpenEdit
  <2> DEFINE new == Len(shown) + 1
             e   == Event(new, Value(sdk))
  <2>2. /\ Len(shown) \in Nat /\ DOMAIN shown = 1 .. Len(shown) /\ DOMAIN shown' = 1 .. new
        /\ \A k \in DOMAIN shown : shown'[k] = shown[k]
        /\ Value(sdk') = Value(sdk) /\ (Complete(sdk') <=> Complete(sdk)) /\ Grows
        /\ mainQueue' = (IF Complete(sdk) THEN Append(mainQueue, e) ELSE mainQueue)
        /\ e \in Blocks'
    BY <2>1, ShowFacts
  <2>3. mainQueue \in Seq(Blocks')
    BY <2>2, Growing
  <2>4. SUFFICES ASSUME Complete(sdk), NEW k \in DOMAIN shown'
                 PROVE  Hears(mainQueue', k, shown'[k], Value(sdk))
    BY <2>2 DEF Hearers
  <2>5. mainQueue' = Append(mainQueue, e)
    BY <2>2, <2>4
  <2>6. /\ For(e, "event", new) /\ e.name = Value(sdk)
        /\ k # new => ~ For(e, "event", k) /\ ~ For(e, "text", k)
    BY DEF Event, For
  <2> HIDE DEF e, new
  <2>7. CASE k = new
    <3>1. LastSays(Append(mainQueue, e), "event", k, Value(sdk))
      BY <2>2, <2>3, <2>6, <2>7, ForAppended
    <3>2. QED
      BY <2>5, <3>1 DEF Hears
  <2>8. CASE k # new
    <3>1. k \in DOMAIN shown
      BY <2>2, <2>8 DEF new
    <3>2. Hears(mainQueue, k, shown'[k], Value(sdk))
      BY <2>2, <2>4, <3>1 DEF Hearers
    <3>3. /\ LastSays(mainQueue, "event", k, Value(sdk)) => LastSays(Append(mainQueue, e), "event", k, Value(sdk))
          /\ Silent(mainQueue, "event", k) => Silent(Append(mainQueue, e), "event", k)
      BY <2>2, <2>3, <2>6, <2>8, ForAppended
    <3>4. /\ LastSays(mainQueue, "text", k, Value(sdk)) => LastSays(Append(mainQueue, e), "text", k, Value(sdk))
          /\ Silent(mainQueue, "text", k) => Silent(Append(mainQueue, e), "text", k)
      BY <2>2, <2>3, <2>6, <2>8, ForAppended
    <3>5. QED
      BY <2>5, <3>2, <3>3, <3>4 DEF Hears
  <2>9. QED
    BY <2>7, <2>8
<1>2. CASE Leave \/ Cover
  <2>1. PICK kind \in {"closed", "field"} : Disappear(kind)
    BY <1>2 DEF Leave, Cover
  <2> DEFINE name == WrittenBack(shown[Field].text)
             view == [shown[Field] EXCEPT !.kind = kind]
  <2>2. /\ name \in Known' /\ mainQueue \in Seq(Blocks') /\ Grows /\ SetValue(name, mainQueue)
        /\ shown' = [shown EXCEPT ![Field] = view] /\ Field \in DOMAIN shown /\ shown[Field] \in Views
    BY <2>1, WritesBack
  <2> HIDE DEF name
  <2>3. Value(sdk') = name /\ mainQueue' = mainQueue \o Raised(sdk')
    BY <2>2, SetValueFacts
  <2>4. /\ DOMAIN shown' = DOMAIN shown
        /\ \A k \in DOMAIN shown : shown'[k].typed = shown[k].typed /\ shown'[k].text = shown[k].text
    BY <2>2 DEF Views
  <2>5. Complete(sdk) => \A k \in DOMAIN shown : Hears(mainQueue, k, shown'[k], Value(sdk))
    BY <2>4 DEF Hearers, Hears
  <2>6. Value(sdk') \in Names'
    BY <2>2, <2>3 DEF Names
  <2>7. QED
    BY <2>2, <2>3, <2>4, <2>5, <2>6, HearersRaise
<1>3. CASE \E text \in Texts : Type(text)
  <2>1. PICK text \in Texts : Type(text)
    BY <1>3
  <2>2. /\ shown' = [shown EXCEPT ![Field] = [shown[Field] EXCEPT !.text = text, !.typed = TRUE]]
        /\ Field \in DOMAIN shown /\ UNCHANGED <<sdk, mainQueue>>
    BY <2>1, FieldFacts DEF Type
  <2>3. shown[Field] \in Views
    BY <2>2, ElementOfSeq, LenProperties DEF Types, ViewTypes
  <2>4. DOMAIN shown' = DOMAIN shown /\ \A k \in DOMAIN shown : shown'[k] = shown[k] \/ shown'[k].typed
    BY <2>2, <2>3 DEF Views
  <2>5. QED
    BY <2>2, <2>4 DEF Hearers, Hears
<1>4. QED
  BY <1>1, <1>2, <1>3 DEF User

LEMMA MainHears ==
  ASSUME Types, Hearers, HandleEvent \/ ShowText
  PROVE  Hearers'
<1> DEFINE block == Head(mainQueue)
           v     == Value(sdk)
<1>1. /\ mainQueue # <<>> /\ mainQueue \in Seq(Blocks) /\ Tail(mainQueue) \in Seq(Blocks)
      /\ v \in Names /\ NoName \notin Known
  BY FirstBlock, ValueIsName, NameFacts DEF HandleEvent, ShowText, Types, QueueTypes
<1>2. ASSUME NEW k, NEW kind
      PROVE  /\ Silent(mainQueue, kind, k) => Silent(Tail(mainQueue), kind, k) /\ ~ For(block, kind, k)
             /\ LastSays(mainQueue, kind, k, v) =>
                  \/ LastSays(Tail(mainQueue), kind, k, v)
                  \/ For(block, kind, k) /\ block.name = v /\ Silent(Tail(mainQueue), kind, k)
  BY <1>1, ForTaken
<1>3. CASE ShowText
  <2>1. /\ block.kind = "text" /\ block.view \in DOMAIN shown /\ block.name \in Known
        /\ mainQueue' = Tail(mainQueue) /\ DOMAIN shown' = DOMAIN shown /\ UNCHANGED sdk
        /\ shown'[block.view].text = block.name
        /\ \A k \in DOMAIN shown : k # block.view => shown'[k] = shown[k]
    BY <1>3, Shows
  <2>2. SUFFICES ASSUME Complete(sdk), NEW k \in DOMAIN shown
                 PROVE  Hears(Tail(mainQueue), k, shown'[k], v)
    BY <2>1 DEF Hearers
  <2>3. Hears(mainQueue, k, shown[k], v) /\ ~ For(block, "event", k)
    BY <2>1, <2>2 DEF Hearers, For
  <2>4. CASE LastSays(mainQueue, "event", k, v)
    BY <1>2, <2>3, <2>4 DEF Hears
  <2>5. CASE Silent(mainQueue, "event", k) /\ LastSays(mainQueue, "text", k, v)
    <3>1. Silent(Tail(mainQueue), "event", k)
      BY <1>2, <2>5
    <3>2. CASE LastSays(Tail(mainQueue), "text", k, v)
      BY <3>1, <3>2 DEF Hears
    <3>3. CASE For(block, "text", k) /\ block.name = v /\ Silent(Tail(mainQueue), "text", k)
      <4>1. k = block.view
        BY <3>3 DEF For
      <4>2. v # NoName /\ shown'[k].text = v
        BY <1>1, <2>1, <3>3, <4>1
      <4>3. QED
        BY <3>1, <3>3, <4>2 DEF Hears
    <3>4. QED
      BY <1>2, <2>5, <3>2, <3>3
  <2>6. CASE /\ Silent(mainQueue, "event", k) /\ Silent(mainQueue, "text", k) /\ v # NoName
             /\ shown[k].typed \/ shown[k].text = v
    <3>1. /\ Silent(Tail(mainQueue), "event", k) /\ Silent(Tail(mainQueue), "text", k)
          /\ ~ For(block, "text", k)
      BY <1>2, <2>6
    <3>2. shown'[k] = shown[k]
      BY <2>1, <3>1 DEF For
    <3>3. QED
      BY <2>6, <3>1, <3>2 DEF Hears
  <2>7. QED
    BY <2>3, <2>4, <2>5, <2>6 DEF Hears
<1>4. CASE HandleEvent /\ Named(block.name)
  <2> DEFINE text == SetText(block.view, block.name)
  <2>1. /\ block.kind = "event" /\ text \in Blocks /\ mainQueue' = Append(Tail(mainQueue), text)
        /\ UNCHANGED <<sdk, shown>>
    BY <1>4, PassesOn
  <2>2. /\ For(text, "text", block.view) /\ text.name = block.name
        /\ \A k : ~ For(text, "event", k) /\ (k # block.view => ~ For(text, "text", k))
    BY DEF SetText, For
  <2>3. block.name # NoName
    BY <1>4 DEF Named
  <2> HIDE DEF text
  <2>4. SUFFICES ASSUME Complete(sdk), NEW k \in DOMAIN shown
                 PROVE  Hears(Append(Tail(mainQueue), text), k, shown[k], v)
    BY <2>1 DEF Hearers
  <2>5. Hears(mainQueue, k, shown[k], v) /\ ~ For(block, "text", k)
    BY <2>1, <2>4 DEF Hearers, For
  <2>6. /\ LastSays(Tail(mainQueue), "event", k, v) => LastSays(Append(Tail(mainQueue), text), "event", k, v)
        /\ Silent(Tail(mainQueue), "event", k) => Silent(Append(Tail(mainQueue), text), "event", k)
    BY <1>1, <2>1, <2>2, ForAppended
  <2>7. k # block.view =>
          /\ LastSays(Tail(mainQueue), "text", k, v) => LastSays(Append(Tail(mainQueue), text), "text", k, v)
          /\ Silent(Tail(mainQueue), "text", k) => Silent(Append(Tail(mainQueue), text), "text", k)
    BY <1>1, <2>1, <2>2, ForAppended
  <2>8. k = block.view /\ block.name = v => LastSays(Append(Tail(mainQueue), text), "text", k, v)
    BY <1>1, <2>1, <2>2, ForAppended
  <2>9. CASE LastSays(mainQueue, "event", k, v)
    <3>1. CASE LastSays(Tail(mainQueue), "event", k, v)
      BY <2>6, <3>1 DEF Hears
    <3>2. CASE For(block, "event", k) /\ block.name = v /\ Silent(Tail(mainQueue), "event", k)
      <4>1. k = block.view
        BY <3>2 DEF For
      <4>2. QED
        BY <2>6, <2>8, <3>2, <4>1 DEF Hears
    <3>3. QED
      BY <1>2, <2>9, <3>1, <3>2
  <2>10. CASE Silent(mainQueue, "event", k)
    <3>1. Silent(Tail(mainQueue), "event", k) /\ ~ For(block, "event", k)
      BY <1>2, <2>10
    <3>2. k # block.view
      BY <2>1, <3>1 DEF For
    <3>3. /\ LastSays(mainQueue, "text", k, v) => LastSays(Tail(mainQueue), "text", k, v)
          /\ Silent(mainQueue, "text", k) => Silent(Tail(mainQueue), "text", k)
      BY <1>2, <2>5
    <3>4. \/ LastSays(mainQueue, "event", k, v)
          \/ LastSays(mainQueue, "text", k, v)
          \/ Silent(mainQueue, "text", k) /\ v # NoName /\ (shown[k].typed \/ shown[k].text = v)
      BY <2>5 DEF Hears
    <3>5. QED
      BY <2>6, <2>7, <2>9, <3>1, <3>2, <3>3, <3>4 DEF Hears
  <2>11. QED
    BY <2>5, <2>9, <2>10 DEF Hears
<1>5. CASE HandleEvent /\ ~ Named(block.name)
  <2> DEFINE rest == Append(Tail(mainQueue), SetText(block.view, writes + 1))
  <2>1. /\ SetValue(writes + 1, rest) /\ rest \in Seq(Blocks') /\ Grows /\ writes + 1 \in Known'
        /\ UNCHANGED shown
    BY <1>5, Invents
  <2> HIDE DEF rest
  <2>2. Value(sdk') = writes + 1 /\ mainQueue' = rest \o Raised(sdk')
    BY <2>1, SetValueFacts
  <2>3. v # writes + 1
    <3>1. writes \in Nat /\ NoName \notin Nat
      BY ChannelNameAssumption DEF Types
    <3>2. v \in Nat => v \in 1 .. writes
      BY <1>1, <3>1, NameFacts DEF Names
    <3>3. QED
      BY <3>1, <3>2
  <2>4. Value(sdk') \in Names'
    BY <2>1, <2>2 DEF Names
  <2>5. QED
    BY <2>1, <2>2, <2>3, <2>4, HearersRaise
<1>6. QED
  BY <1>3, <1>4, <1>5

LEMMA HearersNext ==
  ASSUME Types, PutsInOrder, Hearers, [Next]_vars
  PROVE  Hearers'
<1>1. CASE Kill
  <2>1. shown' = <<>>
    BY <1>1 DEF Kill
  <2>2. QED
    BY <2>1, Nothing DEF Hearers
<1>2. CASE \/ Server \/ Drop \/ ServerRefuse \/ Reconnect \/ UNCHANGED vars
           \/ \E name \in OthersNames : OthersWrite(name)
  <2>1. UNCHANGED <<sdk, mainQueue, shown>>
    BY <1>2 DEF Server, ServerListen, ServerPut, Drop, ServerRefuse, Reconnect, OthersWrite, vars
  <2>2. QED
    BY <2>1 DEF Hearers
<1>3. QED
  BY <1>1, <1>2, ClientHears, MainHears, UserHears DEF Next, Client, Main, Fault

-----------------------------------------------------------------------------
(* The theorems.                                                           *)

\* The inductive invariant.
NInv == Types /\ PutsInOrder /\ Settling /\ Hearing /\ Finding /\ Hearers

LEMMA NInit == Init => NInv
<1> SUFFICES ASSUME Init PROVE NInv
  OBVIOUS
<1>1. Types
  BY TypesInit
<1>2. /\ stored = NoWrite /\ watching = FALSE /\ online = TRUE /\ knows = FALSE
      /\ settled = 0 /\ sdk = FreshClient /\ shown = <<>>
      /\ toServer = <<>> /\ toClient = <<>> /\ mainQueue = <<>>
  BY DEF Init
<1>3. sdk.pending = <<>> /\ sdk.cache = NoName /\ ~ sdk.listening
  BY <1>2 DEF FreshClient
<1>4. PutsInOrder
  <2>1. Pending = {} /\ Ordered(sdk.pending)
    BY <1>3, Nothing DEF Pending, Held, Ordered
  <2>2. QED
    BY <1>2, <2>1, NoWrites DEF PutsInOrder
<1>5. Settling
  BY <1>2, Nothing DEF Settling, LastAccepted
<1>6. Hearing
  BY <1>2, <1>3, Nothing DEF Hearing, Listening, NamesGrow, Grown, NamesStay, NamedBefore
<1>7. Finding
  BY <1>2, Nothing DEF Finding, NameWaits, EventsStay
<1>8. Hearers
  BY <1>2, Nothing DEF Hearers
<1>9. QED
  BY <1>1, <1>4, <1>5, <1>6, <1>7, <1>8 DEF NInv

\* The inductive invariant holds in every state.
THEOREM NamesInvariance == Spec => []NInv
<1>1. ASSUME NInv, [Next]_vars PROVE NInv'
  BY <1>1, TypesNext, PutsInOrderNext, SettlingNext, HearingNext, FindingNext, HearersNext DEF NInv
<1>2. QED
  BY NInit, <1>1, PTL DEF Spec

\* Types: what is written is a name, never null, and the number of an invented one is that
\* of a write; at most one field is open, and no block waits for a view that is gone.
THEOREM TypeCorrect == Spec => []TypeOK
<1>1. ASSUME NInv PROVE TypeOK
  <2>1. Types
    BY <1>1 DEF NInv
  <2>2. Own \subseteq Write
    BY <2>1 DEF Own, Write, Types
  <2>3. sdk.pending \in Seq(Write)
    BY <2>1, <2>2, Wider DEF Types, Clients
  <2>4. shown \in Seq([kind : {"label", "field", "closed"}, typed : BOOLEAN,
                       text : Known \cup Texts \cup {NoName}])
    <3>1. Views \subseteq [kind : {"label", "field", "closed"}, typed : BOOLEAN,
                           text : Known \cup Texts \cup {NoName}]
      BY DEF Views, Names
    <3>2. QED
      BY <2>1, <3>1, Wider DEF Types, ViewTypes
  <2>5. \A n \in DOMAIN mainQueue : mainQueue[n].view \in DOMAIN shown
    <3>1. \A n \in DOMAIN mainQueue : mainQueue[n] \in Blocks
      BY <2>1, ElementOfSeq, LenProperties DEF Types, QueueTypes
    <3>2. QED
      BY <3>1, Kinds
  <2>6. {watching, online, knows, refused} \subseteq BOOLEAN
    BY <2>1 DEF Types
  <2>7. /\ sdk.cache \in Known \cup {NoName} /\ (sdk.complete => sdk.listening)
        /\ stored \in Write \cup {NoWrite} /\ settled \in 0 .. writes
        /\ ~ online => toServer = <<>> /\ toClient = <<>> /\ ~ watching
        /\ \A j, k \in DOMAIN shown : shown[j].kind = "field" /\ shown[k].kind = "field" => j = k
    BY <2>1 DEF Types, Clients, Names, Idle, ViewTypes
  <2>8. QED
    BY <2>3, <2>4, <2>5, <2>6, <2>7 DEF TypeOK
<1>2. QED
  BY NamesInvariance, <1>1, PTL

\* Once the main queue is quiet, every view shows the name of the client's view: each of
\* them heard it last, whatever was invented, received or written meanwhile.
THEOREM QuietViewsAreCurrent == Spec => []QuietTextIsCurrent
<1>1. ASSUME NInv PROVE QuietTextIsCurrent
  <2>1. SUFFICES ASSUME mainQueue = <<>>, Complete(sdk), NEW k \in DOMAIN shown
                 PROVE  IsCurrent(shown[k])
    BY DEF QuietTextIsCurrent
  <2>2. Hears(mainQueue, k, shown[k], Value(sdk))
    BY <1>1, <2>1 DEF NInv, Hearers
  <2>3. shown[k].typed \/ shown[k].text = Value(sdk)
    BY <2>1, <2>2, Nothing DEF Hears, LastSays
  <2>4. shown[k].kind = "label" => ~ shown[k].typed
    BY <1>1, <2>1 DEF NInv, Types, ViewTypes
  <2>5. QED
    BY <2>3, <2>4 DEF IsCurrent
<1>2. QED
  BY NamesInvariance, <1>1, PTL

\* Of the device's own writes the last one stands, also when a write is stored again after
\* a lost connection.
THEOREM LastWriteStands == Spec => []OwnLastWriteStands
<1>1. ASSUME NInv PROVE OwnLastWriteStands
  <2>1. SUFFICES ASSUME sdk.pending = <<>>, stored.write # 0, settled # 0, ~ refused
                 PROVE  stored.write = settled
    BY DEF OwnLastWriteStands
  <2>2. Pending = {}
    BY <2>1, Nothing DEF Pending, Held
  <2>3. QED
    BY <1>1, <2>1, <2>2 DEF NInv, Settling
<1>2. QED
  BY NamesInvariance, <1>1, PTL

\* Only an edit screen that disappears and an observer that finds no name write.
LEMMA WritesMade ==
  ASSUME Types, PutsInOrder, [Next]_vars
  PROVE  \/ Leave \/ Cover
         \/ HandleEvent /\ ~ Named(Head(mainQueue).name)
         \/ sdk'.pending \in Seq(Own) /\ Len(sdk'.pending) <= Len(sdk.pending)
<1>1. sdk.pending \in Seq(Own) /\ Len(sdk.pending) \in Nat
  BY LenProperties DEF Types, Clients
<1>2. CASE sdk'.pending = sdk.pending
  BY <1>1, <1>2
<1>3. CASE Kill
  <2>1. sdk'.pending = <<>>
    BY <1>3 DEF Kill, FreshClient
  <2>2. QED
    BY <1>1, <2>1, Nothing
<1>4. CASE ReceiveAck
  <2>1. sdk.pending # <<>> /\ sdk'.pending = Tail(sdk.pending)
    BY <1>4, FirstAck
  <2>2. /\ Tail(sdk.pending) \in Seq(Own) /\ Len(sdk.pending) \in Nat
        /\ Len(Tail(sdk.pending)) = Len(sdk.pending) - 1
    BY <1>1, <2>1, Taken
  <2>3. QED
    BY <2>1, <2>2
<1>5. CASE ShowLabel \/ OpenEdit
  <2>1. PICK kind \in {"label", "field"} : Show(kind)
    BY <1>5 DEF ShowLabel, OpenEdit
  <2>2. sdk'.pending = sdk.pending
    BY <2>1, ShowFacts
  <2>3. QED
    BY <1>2, <2>2
<1>6. CASE ReceiveData
  <2>1. sdk'.pending = sdk.pending
    BY <1>6, Caches
  <2>2. QED
    BY <1>2, <2>1
<1>7. CASE HandleEvent /\ Named(Head(mainQueue).name)
  <2>1. sdk' = sdk
    BY <1>7, PassesOn
  <2>2. QED
    BY <1>2, <2>1
<1>8. CASE \/ Server \/ Drop \/ ServerRefuse \/ Reconnect \/ UNCHANGED vars \/ ShowText
           \/ (\E text \in Texts : Type(text)) \/ \E name \in OthersNames : OthersWrite(name)
  <2>1. sdk' = sdk
    BY <1>8 DEF Server, ServerListen, ServerPut, Drop, ServerRefuse, Reconnect, OthersWrite, ShowText,
                Type, vars
  <2>2. QED
    BY <1>2, <2>1
<1>9. QED
  BY <1>3, <1>4, <1>5, <1>6, <1>7, <1>8 DEF Next, Client, Main, User, Fault

\* An app that has found a name never writes a random one in its place, unless one of its
\* writes was refused: no later event is without a name, and what the edit screen writes
\* back was there before.
THEOREM NamesStand == Spec => FoundNamesStand
<1> DEFINE Stands == knows /\ ~ refused =>
                       \A n \in DOMAIN sdk'.pending :
                         sdk'.pending[n].write > writes => sdk'.pending[n].name # writes'
<1>1. ASSUME NInv, [Next]_vars PROVE Stands
  <2>1. Types /\ PutsInOrder /\ Finding /\ writes \in Nat
    BY <1>1 DEF NInv, Types
  <2>2. SUFFICES ASSUME knows, ~ refused, NEW n \in DOMAIN sdk'.pending,
                        sdk'.pending[n].write > writes
                 PROVE  sdk'.pending[n].name # writes'
    OBVIOUS
  <2>3. ASSUME NEW q \in Seq(Own), NEW m \in DOMAIN q PROVE ~ q[m].write > writes
    <3>1. q[m] \in Own
      BY <2>3, ElementOfSeq, LenProperties
    <3>2. QED
      BY <2>1, <3>1 DEF Own
  <2>4. CASE Leave \/ Cover
    <3>1. PICK kind \in {"closed", "field"} : Disappear(kind)
      BY <2>4 DEF Leave, Cover
    <3> DEFINE name == WrittenBack(shown[Field].text)
               w    == [write |-> writes + 1, name |-> name]
    <3>2. /\ name \in Known /\ name \in Known' /\ SetValue(name, mainQueue)
          /\ mainQueue \in Seq(Blocks') /\ Grows /\ writes' = writes + 1
      BY <2>1, <3>1, WritesBack
    <3> HIDE DEF name
    <3>3. sdk'.pending = Append(sdk.pending, w) /\ w \in Own'
      BY <2>1, <3>2, SetValueFacts
    <3>4. w.name # writes'
      <4>1. name \in Nat => name \in 1 .. writes
        BY <2>1, <3>2, NameFacts
      <4>2. QED
        BY <2>1, <3>2, <4>1
    <3>5. sdk.pending \in Seq(Own) /\ sdk.pending \in Seq(Own')
      BY <2>1, <3>2, Growing DEF Types, Clients
    <3> HIDE DEF w
    <3>6. /\ Len(sdk.pending) \in Nat /\ DOMAIN sdk.pending = 1 .. Len(sdk.pending)
          /\ DOMAIN sdk'.pending = 1 .. Len(sdk.pending) + 1
          /\ \A m \in 1 .. Len(sdk.pending) : sdk'.pending[m] = sdk.pending[m]
          /\ sdk'.pending[Len(sdk.pending) + 1] = w
      BY <3>3, <3>5, Appended
    <3>7. n \in DOMAIN sdk.pending \/ n = Len(sdk.pending) + 1
      BY <3>6
    <3>8. n \notin DOMAIN sdk.pending
      BY <2>2, <2>3, <3>5, <3>6
    <3>9. QED
      BY <3>4, <3>6, <3>7, <3>8
  <2>5. ~ (HandleEvent /\ ~ Named(Head(mainQueue).name))
    <3>1. SUFFICES ASSUME HandleEvent, ~ Named(Head(mainQueue).name) PROVE FALSE
      OBVIOUS
    <3>2. mainQueue # <<>> /\ mainQueue \in Seq(Blocks) /\ Head(mainQueue).kind = "event"
      BY <2>1, <3>1 DEF HandleEvent, Types, QueueTypes
    <3>3. AllNamed(mainQueue) /\ EventsStay(mainQueue)
      BY <2>1, <2>2 DEF Finding
    <3>4. NamedEvent(Head(mainQueue))
      BY <3>2, <3>3, EventsTaken DEF IsEvent
    <3>5. QED
      BY <3>1, <3>4 DEF NamedEvent, Named
  <2>6. CASE sdk'.pending \in Seq(Own)
    BY <2>2, <2>3, <2>6
  <2>7. QED
    BY <1>1, <2>1, <2>4, <2>5, <2>6, WritesMade
<1>2. Spec => [][Stands]_vars
  BY NamesInvariance, <1>1, PTL DEF Spec
<1>3. QED
  BY <1>2 DEF FoundNamesStand

\* An edit screen that disappears untouched, with nothing waiting on the main queue, writes
\* the name there is: its field shows it.
THEOREM UntouchedScreensKeepNames == Spec => UntouchedKeepsName
<1> DEFINE Keeps == mainQueue = <<>> /\ Complete(sdk) /\ Len(sdk'.pending) > Len(sdk.pending)
                      /\ ~ shown[Field].typed
                      => Value(sdk') = Value(sdk)
<1>1. ASSUME NInv, [Next]_vars PROVE Keeps
  <2>1. Types /\ PutsInOrder /\ Hearers /\ writes \in Nat
    BY <1>1 DEF NInv, Types
  <2>2. SUFFICES ASSUME mainQueue = <<>>, Complete(sdk), Len(sdk'.pending) > Len(sdk.pending),
                        ~ shown[Field].typed
                 PROVE  Value(sdk') = Value(sdk)
    OBVIOUS
  <2>3. ~ HandleEvent
    BY <2>2 DEF HandleEvent
  <2>4. ~ (sdk'.pending \in Seq(Own) /\ Len(sdk'.pending) <= Len(sdk.pending))
    <3>1. SUFFICES ASSUME sdk'.pending \in Seq(Own) PROVE ~ Len(sdk'.pending) <= Len(sdk.pending)
      OBVIOUS
    <3>2. Len(sdk'.pending) \in Nat /\ Len(sdk.pending) \in Nat
      BY <2>1, <3>1, LenProperties DEF Types, Clients
    <3>3. QED
      BY <2>2, <3>2
  <2>5. Leave \/ Cover
    BY <1>1, <2>1, <2>3, <2>4, WritesMade
  <2>6. PICK kind \in {"closed", "field"} : Disappear(kind)
    BY <2>5 DEF Leave, Cover
  <2> DEFINE name == WrittenBack(shown[Field].text)
  <2>7. /\ Field \in DOMAIN shown /\ name \in Known' /\ SetValue(name, mainQueue)
        /\ mainQueue \in Seq(Blocks') /\ Grows
    BY <2>1, <2>6, WritesBack
  <2>8. Hears(mainQueue, Field, shown[Field], Value(sdk))
    BY <2>1, <2>2, <2>7 DEF Hearers
  <2>9. shown[Field].text = Value(sdk) /\ Value(sdk) # NoName
    BY <2>2, <2>8, Nothing DEF Hears, LastSays
  <2>10. Value(sdk) \in Known
    BY <2>1, <2>9, ValueIsName DEF Types, Names
  <2>11. name = Value(sdk)
    BY <2>1, <2>9, <2>10, NameFacts DEF WrittenBack
  <2> HIDE DEF name
  <2>12. Value(sdk') = name
    BY <2>1, <2>7, SetValueFacts
  <2>13. QED
    BY <2>11, <2>12
<1>2. Spec => [][Keeps]_vars
  BY NamesInvariance, <1>1, PTL DEF Spec
<1>3. QED
  BY <1>2 DEF UntouchedKeepsName
=============================================================================
