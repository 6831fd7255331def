------------------------- MODULE ConversationProofs -------------------------
(***************************************************************************)
(* Proofs about Conversation for any devices, clocks and bounds.           *)
(*                                                                         *)
(* The inductive invariant follows a message from its sender's pending     *)
(* writes to every screen: messages are told apart by their writes; what   *)
(* is under way is pending or stored; a client that listens has, or is     *)
(* about to get, all that is stored, and each write in its view before its *)
(* answer, so that a view never shrinks; the events waiting on a main      *)
(* queue are growing views, the last of which is the present one.          *)
(***************************************************************************)
EXTENDS Conversation, SequenceTheorems, FiniteSetTheorems, TLAPS

Requests == [kind : {"listen"}] \cup [kind : {"put"}, msg : Message]
Answers  == [kind : {"full"}, msgs : SUBSET Message] \cup [kind : {"update", "ack"}, msg : Message]
Clients  == [listening : BOOLEAN, complete : BOOLEAN, cache : SUBSET Message,
             pending : Seq(Message)]

-----------------------------------------------------------------------------
(* Sequences of answers under way, and the cache that awaits them.         *)

\* What an answer adds to the cache.
Brings(a) == IF a.kind = "full" THEN a.msgs ELSE IF a.kind = "update" THEN {a.msg} ELSE {}

\* The cache has a message or is about to get it.
Reaches(cache, q, m) == m \in cache \/ \E k \in 1 .. Len(q) : m \in Brings(q[k])

\* The answer to a put comes after its message, once there is a whole node to add it to.
AcksFollow(done, cache, q) ==
  \A k \in 1 .. Len(q) :
    q[k].kind = "ack" /\ (done \/ \E j \in 1 .. k - 1 : q[j].kind = "full")
      => q[k].msg \in cache \/ \E j \in 1 .. k - 1 : q[k].msg \in Brings(q[j])

\* A whole node lacks nothing that came before it.
NodesGrow(cache, q) ==
  \A k \in 1 .. Len(q) :
    q[k].kind = "full" => /\ cache \subseteq q[k].msgs
                          /\ \A j \in 1 .. k - 1 : Brings(q[j]) \subseteq q[k].msgs

Flows(done, cache, q) == AcksFollow(done, cache, q) /\ NodesGrow(cache, q)

\* Receiving the next answer, which is a whole node, a child or an answer to a put.
LEMMA ReceiveFlows ==
  ASSUME NEW done \in BOOLEAN, NEW cache, NEW q \in Seq(Answers), q # <<>>,
         Flows(done, cache, q)
  PROVE  /\ Head(q).kind = "full" =>
              /\ cache \subseteq Head(q).msgs
              /\ Flows(TRUE, Head(q).msgs, Tail(q))
              /\ \A m : Reaches(cache, q, m) => Reaches(Head(q).msgs, Tail(q), m)
         /\ Head(q).kind = "update" =>
              /\ Flows(done, cache \cup {Head(q).msg}, Tail(q))
              /\ \A m : Reaches(cache, q, m) => Reaches(cache \cup {Head(q).msg}, Tail(q), m)
         /\ Head(q).kind = "ack" =>
              /\ done => Head(q).msg \in cache
              /\ Flows(done, cache, Tail(q))
              /\ \A m : Reaches(cache, q, m) => Reaches(cache, Tail(q), m)
<1>1. /\ Head(q) = q[1] /\ Len(q) \in Nat \ {0} /\ Len(Tail(q)) = Len(q) - 1
      /\ \A k \in 1 .. Len(q) - 1 : Tail(q)[k] = q[k + 1]
  BY HeadTailProperties, EmptySeq
<1> DEFINE new == IF Head(q).kind = "full" THEN Head(q).msgs ELSE cache \cup Brings(Head(q))
<1>2. \A m : m \in cache \/ m \in Brings(q[1]) => m \in new
  BY <1>1 DEF Flows, NodesGrow, Brings
<1>3. NodesGrow(new, Tail(q))
  <2> SUFFICES ASSUME NEW k \in 1 .. Len(q) - 1, q[k + 1].kind = "full"
               PROVE  /\ new \subseteq q[k + 1].msgs
                      /\ \A j \in 1 .. k - 1 : Brings(Tail(q)[j]) \subseteq q[k + 1].msgs
    BY <1>1 DEF NodesGrow
  <2>1. k + 1 \in 1 .. Len(q) /\ 1 \in 1 .. (k + 1) - 1
    BY <1>1
  <2>2. cache \subseteq q[k + 1].msgs /\ \A j \in 1 .. (k + 1) - 1 : Brings(q[j]) \subseteq q[k + 1].msgs
    BY <2>1 DEF Flows, NodesGrow
  <2>3. new \subseteq q[k + 1].msgs
    BY <1>1, <2>1, <2>2 DEF Brings
  <2>4. ASSUME NEW j \in 1 .. k - 1 PROVE Brings(Tail(q)[j]) \subseteq q[k + 1].msgs
    <3>1. j + 1 \in 1 .. (k + 1) - 1 /\ Tail(q)[j] = q[j + 1]
      BY <1>1
    <3>2. QED
      BY <2>2, <3>1
  <2>5. QED
    BY <2>3, <2>4
<1>4. AcksFollow(done \/ Head(q).kind = "full", new, Tail(q))
  <2> SUFFICES ASSUME NEW k \in 1 .. Len(q) - 1, q[k + 1].kind = "ack",
                      \/ done \/ q[1].kind = "full"
                      \/ \E j \in 1 .. k - 1 : Tail(q)[j].kind = "full"
               PROVE  \/ q[k + 1].msg \in new
                      \/ \E j \in 1 .. k - 1 : q[k + 1].msg \in Brings(Tail(q)[j])
    BY <1>1 DEF AcksFollow
  <2>1. \A j \in 1 .. k - 1 : Tail(q)[j] = q[j + 1] /\ j + 1 \in 1 .. (k + 1) - 1
    BY <1>1
  <2>2. k + 1 \in 1 .. Len(q) /\ 1 \in 1 .. (k + 1) - 1
    BY <1>1
  <2>3. \/ q[k + 1].msg \in cache
        \/ \E j \in 1 .. (k + 1) - 1 : q[k + 1].msg \in Brings(q[j])
    BY <2>1, <2>2 DEF Flows, AcksFollow
  <2>4. CASE q[k + 1].msg \in cache
    BY <1>2, <2>4
  <2>5. ASSUME NEW j \in 1 .. (k + 1) - 1, q[k + 1].msg \in Brings(q[j])
        PROVE  q[k + 1].msg \in new \/ \E l \in 1 .. k - 1 : q[k + 1].msg \in Brings(Tail(q)[l])
    <3>1. CASE j = 1
      BY <1>2, <2>5, <3>1
    <3>2. CASE j # 1
      <4>1. j - 1 \in 1 .. k - 1 /\ (j - 1) + 1 = j
        BY <3>2
      <4>2. QED
        BY <2>1, <2>5, <4>1
    <3>3. QED
      BY <3>1, <3>2
  <2>6. QED
    BY <2>3, <2>4, <2>5
<1>5. ASSUME NEW m, Reaches(cache, q, m) PROVE Reaches(new, Tail(q), m)
  <2>1. CASE m \in cache \/ m \in Brings(q[1])
    BY <1>2, <2>1 DEF Reaches
  <2>2. CASE \E k \in 2 .. Len(q) : m \in Brings(q[k])
    <3>1. PICK k \in 2 .. Len(q) : m \in Brings(q[k])
      BY <2>2
    <3>2. k - 1 \in 1 .. Len(Tail(q)) /\ Tail(q)[k - 1] = q[k]
      BY <1>1
    <3>3. QED
      BY <3>1, <3>2 DEF Reaches
  <2>3. QED
    BY <1>1, <1>5, <2>1, <2>2 DEF Reaches
<1>6. Head(q).kind = "ack" /\ done => Head(q).msg \in cache
  BY <1>1 DEF Flows, AcksFollow
<1>7. /\ Head(q).kind = "full" => new = Head(q).msgs /\ cache \subseteq Head(q).msgs
      /\ Head(q).kind = "update" => new = cache \cup {Head(q).msg}
      /\ Head(q).kind = "ack" => new = cache
  BY <1>1 DEF Brings, Flows, NodesGrow
<1> HIDE DEF new
<1>8. QED
  BY <1>3, <1>4, <1>5, <1>6, <1>7 DEF Flows

\* Sending one more answer.
LEMMA SendFlows ==
  ASSUME NEW done \in BOOLEAN, NEW cache, NEW q \in Seq(Answers), NEW a \in Answers,
         Flows(done, cache, q),
         a.kind = "full" => \A m : Reaches(cache, q, m) => m \in a.msgs,
         a.kind = "ack" /\ (done \/ \E j \in 1 .. Len(q) : q[j].kind = "full")
           => Reaches(cache, q, a.msg)
  PROVE  /\ Append(q, a) \in Seq(Answers)
         /\ Flows(done, cache, Append(q, a))
         /\ \A m : Reaches(cache, Append(q, a), m) <=> Reaches(cache, q, m) \/ m \in Brings(a)
<1> DEFINE new == Append(q, a)
<1>1. /\ new \in Seq(Answers) /\ Len(q) \in Nat /\ Len(new) = Len(q) + 1
      /\ \A k \in 1 .. Len(q) : new[k] = q[k]
      /\ new[Len(q) + 1] = a
  BY AppendProperties, LenProperties
<1> HIDE DEF new
<1>2. \A k \in 1 .. Len(new) :
        /\ \A j \in 1 .. k - 1 : new[j] = q[j]
        /\ (k \in 1 .. Len(q) /\ new[k] = q[k]) \/ (k = Len(q) + 1 /\ new[k] = a)
  BY <1>1
<1>3. AcksFollow(done, cache, new)
  <2> SUFFICES ASSUME NEW k \in 1 .. Len(new), new[k].kind = "ack",
                      done \/ \E j \in 1 .. k - 1 : new[j].kind = "full"
               PROVE  new[k].msg \in cache \/ \E j \in 1 .. k - 1 : new[k].msg \in Brings(new[j])
    BY DEF AcksFollow
  <2>1. CASE k \in 1 .. Len(q) /\ new[k] = q[k]
    <3>1. done \/ \E j \in 1 .. k - 1 : q[j].kind = "full"
      BY <1>2
    <3>2. q[k].msg \in cache \/ \E j \in 1 .. k - 1 : q[k].msg \in Brings(q[j])
      BY <2>1, <3>1 DEF Flows, AcksFollow
    <3>3. QED
      BY <1>2, <2>1, <3>2
  <2>2. CASE k = Len(q) + 1 /\ new[k] = a
    <3>1. k - 1 = Len(q)
      BY <1>1, <2>2
    <3>2. Reaches(cache, q, a.msg)
      BY <1>2, <2>2, <3>1
    <3>3. QED
      BY <1>2, <2>2, <3>1, <3>2 DEF Reaches
  <2>3. QED
    BY <1>2, <2>1, <2>2
<1>4. NodesGrow(cache, new)
  <2> SUFFICES ASSUME NEW k \in 1 .. Len(new), new[k].kind = "full"
               PROVE  /\ cache \subseteq new[k].msgs
                      /\ \A j \in 1 .. k - 1 : Brings(new[j]) \subseteq new[k].msgs
    BY DEF NodesGrow
  <2>1. CASE k \in 1 .. Len(q) /\ new[k] = q[k]
    BY <1>2, <2>1 DEF Flows, NodesGrow
  <2>2. CASE k = Len(q) + 1 /\ new[k] = a
    <3>1. k - 1 = Len(q)
      BY <1>1, <2>2
    <3>2. QED
      BY <1>2, <2>2, <3>1 DEF Reaches
  <2>3. QED
    BY <1>2, <2>1, <2>2
<1>5. ASSUME NEW m PROVE Reaches(cache, new, m) <=> Reaches(cache, q, m) \/ m \in Brings(a)
  <2>1. ASSUME NEW k \in 1 .. Len(new), m \in Brings(new[k])
        PROVE  Reaches(cache, q, m) \/ m \in Brings(a)
    BY <1>2, <2>1 DEF Reaches
  <2>2. ASSUME NEW k \in 1 .. Len(q), m \in Brings(q[k]) PROVE Reaches(cache, new, m)
    <3>1. k \in 1 .. Len(new)
      BY <1>1
    <3>2. QED
      BY <1>1, <2>2, <3>1 DEF Reaches
  <2>3. m \in Brings(a) => Reaches(cache, new, m)
    <3>1. Len(q) + 1 \in 1 .. Len(new)
      BY <1>1
    <3>2. QED
      BY <1>1, <3>1 DEF Reaches
  <2>4. QED
    BY <2>1, <2>2, <2>3 DEF Reaches
<1>6. QED
  BY <1>1, <1>3, <1>4, <1>5 DEF Flows, new

-----------------------------------------------------------------------------
(* Pending writes and the value of a view.                                 *)

Elements(list) == {list[k] : k \in DOMAIN list}

\* Pending writes have numbers of their own.
Numbered(list) == \A k, l \in DOMAIN list : list[k].write = list[l].write => k = l

\* Messages are told apart by their writes, which are also their keys.
Distinct(msgs) ==
  /\ \A m \in msgs : m.key = m.write
  /\ \A m, n \in msgs : m.write = n.write => m = n

\* The view is the cache and the pending writes together.
LEMMA ValueIsUnion ==
  ASSUME NEW c \in Clients, Distinct(c.cache \cup Elements(c.pending)), Numbered(c.pending)
  PROVE  Value(c) = c.cache \cup Elements(c.pending)
<1> DEFINE p    == c.pending
           over == {p[k] : k \in {k \in DOMAIN p : \A l \in DOMAIN p : l > k => p[l].key # p[k].key}}
<1>1. p \in Seq(Message) /\ DOMAIN p = 1 .. Len(p)
  BY LenProperties DEF Clients
<1>2. \A k \in DOMAIN p : p[k] \in Elements(p)
  BY DEF Elements
<1>3. \A k, l \in DOMAIN p : l > k => p[l].key # p[k].key
  BY <1>1, <1>2 DEF Distinct, Numbered
<1>4. over = Elements(p)
  BY <1>3 DEF Elements
<1>5. \A n \in c.cache : n \in Elements(p) \/ \A m \in Elements(p) : m.key # n.key
  BY DEF Distinct
<1>6. Value(c) = {n \in c.cache : \A m \in over : m.key # n.key} \cup over
  BY DEF Value
<1> HIDE DEF over, p
<1>7. QED
  BY <1>4, <1>5, <1>6 DEF p

\* A pending write that is taken out leaves the others as they were.
LEMMA WithoutFacts ==
  ASSUME NEW list \in Seq(Message), NEW w, Numbered(list)
  PROVE  /\ Without(list, w) \in Seq(Message)
         /\ Numbered(Without(list, w))
         /\ Elements(Without(list, w)) = {m \in Elements(list) : m.write # w}
<1>1. Len(list) \in Nat /\ DOMAIN list = 1 .. Len(list) /\ \A n \in 1 .. Len(list) : list[n] \in Message
  BY LenProperties, ElementOfSeq
<1>2. CASE ~ \E n \in DOMAIN list : list[n].write = w
  BY <1>2 DEF Without, Elements
<1>3. CASE \E n \in DOMAIN list : list[n].write = w
  <2> DEFINE k   == CHOOSE k \in DOMAIN list : list[k].write = w
             at(n) == IF n < k THEN n ELSE n + 1
             new == [n \in 1 .. Len(list) - 1 |-> list[at(n)]]
  <2>1. k \in 1 .. Len(list) /\ list[k].write = w
    BY <1>1, <1>3
  <2>2. Without(list, w) = new
    BY <1>3 DEF Without
  <2> HIDE DEF k
  <2>3. \A n \in 1 .. Len(list) - 1 : at(n) \in 1 .. Len(list) /\ at(n) # k
    BY <1>1, <2>1
  <2>4. \A n, l \in 1 .. Len(list) - 1 : at(n) = at(l) => n = l
    BY <1>1, <2>1
  <2>5. \A n \in 1 .. Len(list) : n # k => \E l \in 1 .. Len(list) - 1 : at(l) = n
    <3> SUFFICES ASSUME NEW n \in 1 .. Len(list), n # k
                 PROVE  \E l \in 1 .. Len(list) - 1 : at(l) = n
      OBVIOUS
    <3>1. CASE n < k
      <4>1. n \in 1 .. Len(list) - 1 /\ at(n) = n
        BY <1>1, <2>1, <3>1
      <4>2. QED
        BY <4>1
    <3>2. CASE n > k
      <4>1. n - 1 \in 1 .. Len(list) - 1 /\ at(n - 1) = n
        BY <1>1, <2>1, <3>2
      <4>2. QED
        BY <4>1
    <3>3. QED
      BY <2>1, <3>1, <3>2
  <2> HIDE DEF at
  <2>6. DOMAIN new = 1 .. Len(list) - 1 /\ \A n \in 1 .. Len(list) - 1 : new[n] = list[at(n)]
    OBVIOUS
  <2>7. new \in Seq(Message)
    <3>1. Len(list) - 1 \in Nat /\ new \in [1 .. Len(list) - 1 -> Message]
      BY <1>1, <2>1, <2>3
    <3>2. QED
      BY <3>1, SeqDef
  <2> HIDE DEF new
  <2>8. Numbered(new)
    BY <1>1, <2>3, <2>4, <2>6 DEF Numbered
  <2>9. \A n \in 1 .. Len(list) : n # k => list[n].write # w
    BY <1>1, <2>1 DEF Numbered
  <2>10. Elements(new) = {m \in Elements(list) : m.write # w}
    <3>1. \A n \in 1 .. Len(list) - 1 : new[n] \in Elements(list) /\ new[n].write # w
      BY <1>1, <2>3, <2>6, <2>9 DEF Elements
    <3>2. ASSUME NEW n \in 1 .. Len(list), list[n].write # w
          PROVE  \E l \in 1 .. Len(list) - 1 : new[l] = list[n]
      BY <2>1, <2>5, <2>6, <3>2
    <3>3. /\ Elements(new) = {new[n] : n \in 1 .. Len(list) - 1}
          /\ Elements(list) = {list[n] : n \in 1 .. Len(list)}
      BY <1>1, <2>6 DEF Elements
    <3>4. \A m \in Elements(list) : m.write # w => m \in Elements(new)
      BY <3>2, <3>3
    <3>5. \A m \in Elements(new) : m \in Elements(list) /\ m.write # w
      BY <3>1, <3>3
    <3>6. QED
      BY <3>4, <3>5
  <2>11. QED
    BY <2>2, <2>7, <2>8, <2>10
<1>4. QED
  BY <1>2, <1>3

-----------------------------------------------------------------------------
(* The invariant.                                                          *)

Pending(d) == Elements(sdk[d].pending)
Waiting == UNION {Pending(d) : d \in Devices}

Entry == [write : 1 .. MaxSends, key : 0 .. MaxSends, date : Int, delivered : BOOLEAN,
          seen : BOOLEAN, origin : {"outgoing", "incoming"}]

Types ==
  /\ stored \subseteq Message
  /\ watching \subseteq Devices
  /\ online \in [Devices -> BOOLEAN]
  /\ toServer \in [Devices -> Seq(Requests)]
  /\ toClient \in [Devices -> Seq(Answers)]
  /\ sdk \in [Devices -> Clients]
  /\ mainQueue \in [Devices -> Seq(SUBSET Message)]
  /\ open \in [Devices -> 0 .. MaxObservers]
  /\ display \in [Devices -> Seq(Entry)]
  /\ crashed \in BOOLEAN
  /\ sends \in 0 .. MaxSends /\ drops \in 0 .. MaxDrops /\ kills \in 0 .. MaxKills
  /\ appears \in 0 .. MaxAppears

\* Messages are told apart, each is its writer's, and the next one is new.
Apart ==
  /\ Distinct(stored \cup Waiting)
  /\ \A m \in stored \cup Waiting : m.write <= sends
  /\ \A d \in Devices : /\ Numbered(sdk[d].pending)
                        /\ \A m \in Pending(d) : m.from = d
  /\ IsFiniteSet(stored)
  /\ \A d \in Devices : IsFiniteSet(Pending(d))

\* Where messages are: a put is pending or was stored; what the server told is stored.
Located(d) ==
  /\ sdk[d].cache \subseteq stored
  /\ \A r \in Elements(toServer[d]) : r.kind = "put" => r.msg \in stored \cup Pending(d)
  /\ \A a \in Elements(toClient[d]) :
       IF a.kind = "full" THEN a.msgs \subseteq stored ELSE a.msg \in stored

\* A client whose view is complete is listened for, or will be before its next put;
\* what the server has reaches a listener, each put before its answer.
Linked(d) ==
  /\ ~ online[d] => toServer[d] = <<>> /\ toClient[d] = <<>> /\ d \notin watching
  /\ sdk[d].complete \/ d \in watching => sdk[d].listening
  /\ \A r \in Elements(toServer[d]) : r.kind = "listen" => sdk[d].listening
  /\ (\E k \in 1 .. Len(toClient[d]) : toClient[d][k].kind = "full") => d \in watching
  /\ d \in watching => \A m \in stored : Reaches(sdk[d].cache, toClient[d], m)
  /\ sdk[d].complete /\ online[d] /\ d \notin watching
       => toServer[d] # <<>> /\ toServer[d][1].kind = "listen"
  /\ Flows(sdk[d].complete, sdk[d].cache, toClient[d])

\* The events q that wait for n observers are growing views, from the messages
\* shown to the present view v; there are none before it is complete.
Grows(done, n, q, shown, v) ==
  /\ ~ done \/ n = 0 => q = <<>> /\ shown = {}
  /\ \A k, l \in 1 .. Len(q) : k < l => q[k] \subseteq q[l]
  /\ \A k \in 1 .. Len(q) : q[k] \subseteq v /\ shown \subseteq Writes(q[k])
  /\ shown \subseteq Writes(v)
  /\ done /\ n > 0 => IF q = <<>> THEN shown = Writes(v) ELSE q[Len(q)] = v

Growing(d) == Grows(sdk[d].complete, open[d], mainQueue[d], OnList(display[d]), Value(sdk[d]))

IInv ==
  /\ Types
  /\ Apart
  /\ \A d \in Devices : Located(d) /\ Linked(d) /\ Growing(d)
  /\ AckedIsStored
  /\ NothingShownTwice
  /\ NeverEmptyList

-----------------------------------------------------------------------------
(* Types.                                                                  *)

LEMMA RequestTypes ==
  /\ Listen \in Requests
  /\ \A m \in Message : Put(m) \in Requests
  /\ \A m \in Message : Update(m) \in Answers /\ Ack(m) \in Answers
  /\ \A ms \in SUBSET Message : Full(ms) \in Answers
BY DEF Listen, Put, Update, Ack, Full, Requests, Answers

LEMMA ValueType ==
  ASSUME NEW c \in Clients
  PROVE  Value(c) \in SUBSET Message
BY LenProperties, ElementOfSeq DEF Value, Clients

\* A snapshot in the order of a list: each message of it once.
LEMMA SortedFacts ==
  ASSUME NEW msgs, IsFiniteSet(msgs), NEW list \in Sorted(msgs)
  PROVE  /\ list \in Seq(msgs)
         /\ {list[k] : k \in DOMAIN list} = msgs
         /\ \A k, l \in DOMAIN list : list[k] = list[l] => k = l
<1>1. /\ list \in [1 .. Cardinality(msgs) -> msgs]
      /\ \A k, l \in DOMAIN list : list[k] = list[l] => k = l
  BY DEF Sorted
<1>2. Cardinality(msgs) \in Nat
  BY FS_CardinalityType
<1>3. list \in Seq(msgs)
  BY <1>1, <1>2, SeqDef
<1>4. list \in Injection(1 .. Cardinality(msgs), msgs)
  BY <1>1 DEF Injection, IsInjective
<1>5. Cardinality(1 .. Cardinality(msgs)) = Cardinality(msgs)
  BY <1>2, FS_Interval
<1>6. list \in Surjection(1 .. Cardinality(msgs), msgs)
  BY <1>4, <1>5, FS_Injection
<1>7. {list[k] : k \in DOMAIN list} = msgs
  BY <1>1, <1>6 DEF Surjection
<1>8. QED
  BY <1>1, <1>3, <1>7

\* What one observer gives the chat view.
LEMMA ShownFacts ==
  ASSUME NEW d \in Devices, NEW ms \in SUBSET Message, IsFiniteSet(ms), Distinct(ms),
         NEW list \in Sorted({Shown(d, m) : m \in ms})
  PROVE  /\ list \in Seq(Entry)
         /\ OnList(list) = Writes(ms)
         /\ \A k, l \in DOMAIN list : list[k].write = list[l].write => k = l
<1> DEFINE msgs == {Shown(d, m) : m \in ms}
           show == [m \in ms |-> Shown(d, m)]
<1>1. show \in Surjection(ms, msgs)
  BY DEF Surjection
<1>2. IsFiniteSet(msgs)
  BY <1>1, FS_Surjection
<1>3. \A m \in ms : Shown(d, m) \in Entry /\ Shown(d, m).write = m.write
  BY DEF Shown, Entry, Message
<1>4. \A x, y \in msgs : x.write = y.write => x = y
  BY <1>3 DEF Distinct
<1>5. msgs \subseteq Entry
  BY <1>3
<1> HIDE DEF msgs
<1>6. /\ list \in Seq(msgs) /\ {list[k] : k \in DOMAIN list} = msgs
      /\ \A k, l \in DOMAIN list : list[k] = list[l] => k = l
  BY <1>2, SortedFacts DEF msgs
<1>7. list \in Seq(Entry)
  BY <1>5, <1>6, SeqMonotonic
<1>8. OnList(list) = {x.write : x \in msgs}
  BY <1>6 DEF OnList
<1>9. {x.write : x \in msgs} = Writes(ms)
  BY <1>3 DEF Writes, msgs
<1>10. QED
  BY <1>4, <1>6, <1>7, <1>8, <1>9

LEMMA IInvInit == Init => IInv
<1> SUFFICES ASSUME Init PROVE IInv
  OBVIOUS
<1>1. FreshClient \in Clients /\ Value(FreshClient) = {} /\ Elements(<<>>) = {}
  BY EmptySeq DEF FreshClient, Clients, Value, Elements
<1>2. Types
  <2>1. /\ <<>> \in Seq(Requests) /\ <<>> \in Seq(Answers) /\ <<>> \in Seq(SUBSET Message)
        /\ <<>> \in Seq(Entry)
    BY EmptySeq
  <2>2. 0 \in 0 .. MaxSends /\ 0 \in 0 .. MaxDrops /\ 0 \in 0 .. MaxKills /\ 0 \in 0 .. MaxAppears
        /\ 0 \in 0 .. MaxObservers
    BY ConversationAssumption
  <2>3. QED
    BY <1>1, <2>1, <2>2 DEF Init, Types
<1>3. \A d \in Devices : sdk[d] = FreshClient /\ sdk[d].pending = <<>>
  BY DEF Init, FreshClient
<1>4. \A d \in Devices : Pending(d) = {}
  BY <1>1, <1>3 DEF Pending
<1>5. Apart
  <2>1. stored \cup Waiting = {} /\ stored = {}
    BY <1>4 DEF Init, Waiting
  <2>2. Distinct({}) /\ Numbered(<<>>) /\ IsFiniteSet({})
    BY FS_EmptySet DEF Distinct, Numbered
  <2>3. QED
    BY <1>3, <1>4, <2>1, <2>2 DEF Apart
<1>6. ASSUME NEW d \in Devices PROVE Located(d) /\ Linked(d) /\ Growing(d)
  <2>1. /\ toServer[d] = <<>> /\ toClient[d] = <<>> /\ mainQueue[d] = <<>> /\ display[d] = <<>>
        /\ open[d] = 0 /\ d \notin watching /\ stored = {} /\ Len(<<>>) = 0
        /\ ~ sdk[d].complete /\ sdk[d].cache = {} /\ Value(sdk[d]) = {}
    BY <1>1, <1>3 DEF Init, FreshClient
  <2>2. Located(d) /\ Linked(d)
    BY <1>1, <2>1 DEF Located, Linked, Flows, AcksFollow, NodesGrow
  <2>3. OnList(<<>>) = {}
    BY DEF OnList
  <2>4. Growing(d)
    BY <2>1, <2>3 DEF Growing, Grows
  <2>5. QED
    BY <2>2, <2>4
<1>7. AckedIsStored /\ NothingShownTwice /\ NeverEmptyList
  BY DEF Init, AckedIsStored, NothingShownTwice, NeverEmptyList
<1>8. QED
  BY <1>2, <1>5, <1>6, <1>7 DEF IInv

\* The message that is sent.
NewMessage(d) == [write |-> sends + 1, key |-> PushKey(sends + 1), from |-> d, date |-> Now(d)]

LEMMA Bounds ==
  /\ MaxSends \in Nat /\ MaxDrops \in Nat /\ MaxKills \in Nat /\ MaxAppears \in Nat
  /\ MaxObservers \in Nat
BY ConversationAssumption

\* What SetClient does to the main queue.
LEMMA SetClientTypes ==
  ASSUME Types, NEW d \in Devices, NEW new \in Clients, SetClient(d, new)
  PROVE  sdk' \in [Devices -> Clients] /\ mainQueue' \in [Devices -> Seq(SUBSET Message)]
<1>1. Value(new) \in SUBSET Message
  BY ValueType
<1>2. open[d] \in Nat
  BY ConversationAssumption DEF Types
<1>3. Raised(sdk[d], new, open[d]) \in Seq(SUBSET Message)
  <2>1. [k \in 1 .. open[d] |-> Value(new)] \in [1 .. open[d] -> SUBSET Message]
    BY <1>1
  <2>2. [k \in 1 .. open[d] |-> Value(new)] \in Seq(SUBSET Message)
    BY <1>2, <2>1, SeqDef
  <2>3. QED
    BY <2>2, EmptySeq DEF Raised
<1>4. mainQueue[d] \o Raised(sdk[d], new, open[d]) \in Seq(SUBSET Message)
  BY <1>3, ConcatProperties DEF Types
<1>5. QED
  BY <1>4 DEF SetClient, Types

LEMMA RequestSent ==
  ASSUME Types, NEW d \in Devices, NEW r \in Requests
  PROVE  Request(d, r) \in Seq(Requests)
BY AppendProperties DEF Request, Types

\* What comes first on a connection.
LEMMA HeadTypes ==
  ASSUME Types, NEW d \in Devices
  PROVE  /\ toServer[d] # <<>> =>
              /\ Tail(toServer[d]) \in Seq(Requests)
              /\ Head(toServer[d]).kind = "put" => Head(toServer[d]).msg \in Message
         /\ toClient[d] # <<>> =>
              /\ Tail(toClient[d]) \in Seq(Answers)
              /\ Head(toClient[d]).kind = "full" => Head(toClient[d]).msgs \subseteq Message
              /\ Head(toClient[d]).kind # "full" => Head(toClient[d]).msg \in Message
         /\ mainQueue[d] # <<>> =>
              /\ Tail(mainQueue[d]) \in Seq(SUBSET Message)
              /\ Head(mainQueue[d]) \in SUBSET Message
<1>1. /\ toServer[d] # <<>> => /\ Tail(toServer[d]) \in Seq(Requests)
                               /\ Head(toServer[d]) \in Requests
      /\ toClient[d] # <<>> => /\ Tail(toClient[d]) \in Seq(Answers)
                               /\ Head(toClient[d]) \in Answers
      /\ mainQueue[d] # <<>> => /\ Tail(mainQueue[d]) \in Seq(SUBSET Message)
                                /\ Head(mainQueue[d]) \in SUBSET Message
  BY HeadTailProperties DEF Types
<1>2. QED
  BY <1>1 DEF Requests, Answers

\* The new views of the client: each is one, with the fields it changes.
LEMMA NewClients ==
  ASSUME NEW c \in Clients, NEW m \in Message, NEW ms \in SUBSET Message
  PROVE  /\ [c EXCEPT !.listening = TRUE] \in Clients
         /\ [c EXCEPT !.cache = ms, !.complete = TRUE] \in Clients
         /\ [c EXCEPT !.cache = Store(@, m)] \in Clients
         /\ [c EXCEPT !.pending = Append(@, m)] \in Clients
         /\ Numbered(c.pending) => [c EXCEPT !.pending = Without(@, m.write)] \in Clients
<1>1. c.pending \in Seq(Message) /\ c.cache \subseteq Message
  BY DEF Clients
<1>2. Append(c.pending, m) \in Seq(Message)
  BY <1>1, AppendProperties
<1>3. Store(c.cache, m) \subseteq Message
  BY <1>1 DEF Store
<1>4. Numbered(c.pending) => Without(c.pending, m.write) \in Seq(Message)
  BY <1>1, WithoutFacts
<1>5. QED
  BY <1>1, <1>2, <1>3, <1>4 DEF Clients

\* A view holds what is stored or pending, so that its messages are told apart.
LEMMA ViewFacts ==
  ASSUME IInv, NEW d \in Devices
  PROVE  /\ Value(sdk[d]) = sdk[d].cache \cup Pending(d)
         /\ sdk[d].cache \subseteq stored /\ Pending(d) \subseteq Waiting
         /\ IsFiniteSet(Value(sdk[d]))
         /\ Distinct(Value(sdk[d]))
<1>1. sdk[d] \in Clients /\ sdk[d].cache \subseteq stored /\ Pending(d) \subseteq Waiting
  BY DEF IInv, Types, Located, Waiting
<1>2. sdk[d].cache \cup Pending(d) \subseteq stored \cup Waiting
  BY <1>1
<1>3. Distinct(sdk[d].cache \cup Pending(d)) /\ Numbered(sdk[d].pending)
  BY <1>2 DEF IInv, Apart, Distinct
<1>4. Value(sdk[d]) = sdk[d].cache \cup Pending(d)
  BY <1>1, <1>3, ValueIsUnion DEF Pending
<1>5. IsFiniteSet(sdk[d].cache) /\ IsFiniteSet(Pending(d))
  BY <1>1, FS_Subset DEF IInv, Apart
<1>6. IsFiniteSet(sdk[d].cache \cup Pending(d))
  BY <1>5, FS_Union
<1>7. QED
  BY <1>1, <1>3, <1>4, <1>6

\* So does an event that waits on the main queue.
LEMMA EventFacts ==
  ASSUME IInv, NEW d \in Devices, mainQueue[d] # <<>>
  PROVE  /\ Head(mainQueue[d]) \in SUBSET Message
         /\ Head(mainQueue[d]) \subseteq Value(sdk[d])
         /\ IsFiniteSet(Head(mainQueue[d]))
         /\ Distinct(Head(mainQueue[d]))
<1>1. /\ mainQueue[d] \in Seq(SUBSET Message) /\ 1 \in 1 .. Len(mainQueue[d])
      /\ Head(mainQueue[d]) = mainQueue[d][1]
  BY EmptySeq, HeadTailProperties DEF IInv, Types
<1>2. Head(mainQueue[d]) \subseteq Value(sdk[d])
  BY <1>1 DEF IInv, Growing, Grows
<1>3. QED
  BY <1>1, <1>2, ViewFacts, FS_Subset, ElementOfSeq DEF Distinct

LEMMA TypesNext == IInv /\ Next => Types'
<1> SUFFICES ASSUME IInv, NEW d \in Devices,
                    \/ User(d) \/ ShowSnapshot(d) \/ Kill(d) \/ Server(d) \/ Client(d)
                    \/ Drop(d) \/ Reconnect(d)
             PROVE  Types'
  BY DEF Next
<1> USE DEF IInv
<1>1. sdk[d] \in Clients /\ Numbered(sdk[d].pending)
  BY DEF Types, Apart
<1>2. /\ <<>> \in Seq(Requests) /\ <<>> \in Seq(Answers) /\ <<>> \in Seq(SUBSET Message)
      /\ <<>> \in Seq(Entry)
  BY EmptySeq
<1>4. [sdk[d] EXCEPT !.listening = TRUE] \in Clients
  BY <1>1 DEF Clients
<1>5. CASE ListenFromList(d)
  BY <1>4, <1>5, RequestTypes, RequestSent DEF ListenFromList, Types, screens, counters, server
<1>6. CASE Appear(d)
  <2>1. Append(mainQueue[d], Value(sdk[d])) \in Seq(SUBSET Message)
    BY <1>1, ValueType, AppendProperties DEF Types
  <2>2. open'[d] \in 0 .. MaxObservers /\ appears' \in 0 .. MaxAppears
    <3>1. open[d] \in 0 .. MaxObservers /\ appears \in 0 .. MaxAppears
      BY DEF Types
    <3>2. open'[d] = open[d] + 1 /\ appears' = appears + 1
      BY <1>6 DEF Appear, Types
    <3>3. QED
      BY <1>6, <3>1, <3>2, Bounds DEF Appear
  <2>3. toServer' \in [Devices -> Seq(Requests)] /\ sdk' \in [Devices -> Clients]
    BY <1>4, <1>6, RequestTypes, RequestSent DEF Appear, Types
  <2>4. mainQueue' \in [Devices -> Seq(SUBSET Message)] /\ open' \in [Devices -> 0 .. MaxObservers]
    BY <1>6, <2>1, <2>2 DEF Appear, Types
  <2>5. UNCHANGED <<stored, watching, online, toClient, display, crashed, sends, drops, kills>>
    BY <1>6 DEF Appear, server
  <2>6. QED
    BY <2>2, <2>3, <2>4, <2>5 DEF Types
<1>7. CASE Dismiss(d)
  <2>1. 0 \in 0 .. MaxObservers
    BY Bounds
  <2>2. QED
    BY <1>2, <1>7, <2>1 DEF Dismiss, Types, server, network, counters
<1>8. CASE SendMessage(d)
  <2>1. NewMessage(d) \in Message
    <3>1. sends + 1 \in 1 .. MaxSends /\ sends + 1 \in 0 .. MaxSends /\ sends \in Nat
      BY <1>8, Bounds DEF SendMessage, Types
    <3>2. sends + 1 + Skew[d] \in Int
      BY <3>1, ConversationAssumption
    <3>3. QED
      BY <3>1, <3>2 DEF NewMessage, Message, PushKey, Now
  <2>2. [sdk[d] EXCEPT !.pending = Append(@, NewMessage(d))] \in Clients
    BY <1>1, <2>1, NewClients
  <2>3. SetClient(d, [sdk[d] EXCEPT !.pending = Append(@, NewMessage(d))])
    BY <1>8 DEF SendMessage, NewMessage
  <2>4. toServer' \in [Devices -> Seq(Requests)]
    BY <1>8, <2>1, RequestTypes, RequestSent DEF SendMessage, NewMessage, Types
  <2>5. sends' \in 0 .. MaxSends
    BY <1>8, ConversationAssumption DEF SendMessage, Types
  <2>6. QED
    BY <1>8, <2>2, <2>3, <2>4, <2>5, SetClientTypes DEF SendMessage, Types, server
<1>9. CASE ShowSnapshot(d)
  <2>1. display' \in [Devices -> Seq(Entry)] /\ crashed' \in BOOLEAN
    <3>1. CASE PassedOn(Head(mainQueue[d]))
      <4>1. PICK list \in Sorted({Shown(d, m) : m \in Head(mainQueue[d])}) :
              display' = [display EXCEPT ![d] = list]
        BY <1>9, <3>1 DEF ShowSnapshot
      <4>2. list \in Seq(Entry)
        BY <1>9, EventFacts, ShownFacts DEF ShowSnapshot
      <4>3. QED
        BY <1>9, <3>1, <4>1, <4>2 DEF ShowSnapshot, Types
    <3>2. CASE ~ PassedOn(Head(mainQueue[d]))
      BY <1>9, <3>2 DEF ShowSnapshot, Types
    <3>3. QED
      BY <3>1, <3>2
  <2>2. QED
    BY <1>9, <2>1, HeadTypes DEF ShowSnapshot, Types, server, network, counters
<1>10. CASE Kill(d)
  <2>1. FreshClient \in Clients
    BY EmptySeq DEF FreshClient, Clients
  <2>2. kills' \in 0 .. MaxKills /\ 0 \in 0 .. MaxObservers
    BY <1>10, ConversationAssumption DEF Kill, Types
  <2>3. QED
    BY <1>2, <1>10, <2>1, <2>2 DEF Kill, Types
<1>11. CASE ServerListen(d)
  <2>1. Append(toClient[d], Full(stored)) \in Seq(Answers)
    BY RequestTypes, AppendProperties DEF Types
  <2>2. QED
    BY <1>11, <2>1, HeadTypes DEF ServerListen, Types, screens, counters
<1>12. CASE ServerPut(d)
  <2> DEFINE m == Head(toServer[d]).msg
             told == IF m \in stored THEN {} ELSE watching
  <2>1. m \in Message
    BY <1>12, HeadTypes DEF ServerPut
  <2>2. \A e \in Devices :
          toClient[e] \o (IF e \in told THEN <<Update(m)>> ELSE <<>>)
                      \o (IF e = d THEN <<Ack(m)>> ELSE <<>>) \in Seq(Answers)
    <3> TAKE e \in Devices
    <3>1. /\ toClient[e] \in Seq(Answers)
          /\ (IF e \in told THEN <<Update(m)>> ELSE <<>>) \in Seq(Answers)
          /\ (IF e = d THEN <<Ack(m)>> ELSE <<>>) \in Seq(Answers)
      BY <1>2, <2>1, RequestTypes DEF Types
    <3> HIDE DEF told, m
    <3>2. QED
      BY <3>1, ConcatProperties
  <2>3. stored' \subseteq Message
    BY <1>12, <2>1 DEF ServerPut, Store, Types
  <2>4. toClient' \in [Devices -> Seq(Answers)]
    BY <1>12, <2>2 DEF ServerPut
  <2>5. toServer' \in [Devices -> Seq(Requests)]
    BY <1>12, HeadTypes DEF ServerPut, Types
  <2>6. QED
    BY <1>12, <2>3, <2>4, <2>5 DEF ServerPut, Types, screens, counters
<1>13. CASE ReceiveFull(d)
  <2>1. [sdk[d] EXCEPT !.cache = Head(toClient[d]).msgs, !.complete = TRUE] \in Clients
    BY <1>1, <1>13, HeadTypes DEF ReceiveFull, Clients
  <2>2. QED
    BY <1>13, <2>1, HeadTypes, SetClientTypes DEF ReceiveFull, Types, server, counters
<1>14. CASE ReceiveUpdate(d)
  <2>1. [sdk[d] EXCEPT !.cache = Store(@, Head(toClient[d]).msg)] \in Clients
    BY <1>1, <1>14, HeadTypes DEF ReceiveUpdate, Clients, Store
  <2>2. QED
    BY <1>14, <2>1, HeadTypes, SetClientTypes DEF ReceiveUpdate, Types, server, counters
<1>15. CASE ReceiveAck(d)
  <2>1. [sdk[d] EXCEPT !.pending = Without(@, Head(toClient[d]).msg.write)] \in Clients
    BY <1>1, WithoutFacts DEF Clients
  <2>2. SetClient(d, [sdk[d] EXCEPT !.pending = Without(@, Head(toClient[d]).msg.write)])
    BY <1>15 DEF ReceiveAck
  <2>3. QED
    BY <1>15, <2>1, <2>2, HeadTypes, SetClientTypes DEF ReceiveAck, Types, server, counters
<1>16. CASE Drop(d)
  <2>1. drops' \in 0 .. MaxDrops
    BY <1>16, ConversationAssumption DEF Drop, Types
  <2>2. QED
    BY <1>2, <1>16, <2>1 DEF Drop, Types, screens
<1>17. CASE Reconnect(d)
  <2>1. Restored(sdk[d]) \in Seq(Requests)
    <3>1. /\ sdk[d].pending \in Seq(Message) /\ DOMAIN sdk[d].pending = 1 .. Len(sdk[d].pending)
          /\ Len(sdk[d].pending) \in Nat
      BY <1>1, LenProperties DEF Clients
    <3>2. [k \in DOMAIN sdk[d].pending |-> Put(sdk[d].pending[k])]
            \in [1 .. Len(sdk[d].pending) -> Requests]
      BY <3>1, ElementOfSeq, RequestTypes
    <3>3. [k \in DOMAIN sdk[d].pending |-> Put(sdk[d].pending[k])] \in Seq(Requests)
      BY <3>1, <3>2, SeqDef
    <3>4. (IF sdk[d].listening THEN <<Listen>> ELSE <<>>) \in Seq(Requests)
      BY <1>2, RequestTypes
    <3>5. QED
      BY <3>3, <3>4, ConcatProperties DEF Restored
  <2>2. QED
    BY <1>17, <2>1 DEF Reconnect, Types, server, screens, counters
<1>18. QED
  BY <1>5, <1>6, <1>7, <1>8, <1>9, <1>10, <1>11, <1>12, <1>13, <1>14, <1>15, <1>16, <1>17
     DEF User, Server, Client

-----------------------------------------------------------------------------
(* Messages are told apart.                                                *)

\* A put that is under way is stored beside the others.
LEMMA PutFacts ==
  ASSUME IInv, NEW d \in Devices, ServerPut(d)
  PROVE  /\ Head(toServer[d]) = toServer[d][1]
         /\ Head(toServer[d]).msg \in stored \cup Pending(d)
         /\ stored' = stored \cup {Head(toServer[d]).msg}
<1> DEFINE m == Head(toServer[d]).msg
<1>1. toServer[d] \in Seq(Requests) /\ 1 \in 1 .. Len(toServer[d]) /\ Head(toServer[d]) = toServer[d][1]
  BY EmptySeq, HeadTailProperties DEF IInv, Types, ServerPut
<1>2. m \in stored \cup Pending(d)
  BY <1>1, LenProperties DEF IInv, Located, ServerPut, Elements
<1>3. m \in stored \cup Waiting
  BY <1>2 DEF Waiting
<1>4. \A c \in stored : c.key = m.key => c = m
  BY <1>3 DEF IInv, Apart, Distinct
<1>5. stored' = Store(stored, m)
  BY DEF ServerPut
<1>6. QED
  BY <1>1, <1>2, <1>4, <1>5 DEF Store

\* What the client takes from the server: a message that is stored.
LEMMA AnswerFacts ==
  ASSUME IInv, NEW d \in Devices, toClient[d] # <<>>
  PROVE  /\ Head(toClient[d]) = toClient[d][1] /\ 1 \in 1 .. Len(toClient[d])
         /\ Head(toClient[d]).kind = "full" => Head(toClient[d]).msgs \subseteq stored
         /\ Head(toClient[d]).kind # "full" =>
              /\ Head(toClient[d]).msg \in stored
              /\ Store(sdk[d].cache, Head(toClient[d]).msg) = sdk[d].cache \cup {Head(toClient[d]).msg}
<1> DEFINE m == Head(toClient[d]).msg
<1>1. /\ toClient[d] \in Seq(Answers) /\ 1 \in 1 .. Len(toClient[d])
      /\ Head(toClient[d]) = toClient[d][1]
  BY EmptySeq, HeadTailProperties DEF IInv, Types
<1>2. IF Head(toClient[d]).kind = "full" THEN Head(toClient[d]).msgs \subseteq stored ELSE m \in stored
  BY <1>1, LenProperties DEF IInv, Located, Elements
<1>3. m \in stored => \A c \in sdk[d].cache : c.key = m.key => c = m
  BY DEF IInv, Located, Apart, Distinct
<1>4. m \in stored => Store(sdk[d].cache, m) = sdk[d].cache \cup {m}
  BY <1>3 DEF Store
<1>5. QED
  BY <1>1, <1>2, <1>4

\* The pending writes after a step.
LEMMA PendingNext ==
  ASSUME IInv, NEW d \in Devices, NEW e \in Devices
  PROVE  /\ (\/ ListenFromList(d) \/ Appear(d) \/ Dismiss(d) \/ ShowSnapshot(d) \/ Server(d)
             \/ ReceiveFull(d) \/ ReceiveUpdate(d) \/ Drop(d) \/ Reconnect(d))
              => sdk'[e].pending = sdk[e].pending
         /\ SendMessage(d) => sdk'[e].pending = IF e = d THEN Append(sdk[d].pending, NewMessage(d))
                                                         ELSE sdk[e].pending
         /\ ReceiveAck(d) =>
              sdk'[e].pending = IF e = d THEN Without(sdk[d].pending, Head(toClient[d]).msg.write)
                                         ELSE sdk[e].pending
         /\ Kill(d) => sdk'[e].pending = IF e = d THEN <<>> ELSE sdk[e].pending
<1>1. sdk \in [Devices -> Clients] /\ sdk[d] \in Clients
  BY DEF IInv, Types
<1>2. (\/ ListenFromList(d) \/ Appear(d) \/ Dismiss(d) \/ ShowSnapshot(d) \/ Server(d)
       \/ ReceiveFull(d) \/ ReceiveUpdate(d) \/ Drop(d) \/ Reconnect(d))
        => sdk'[e].pending = sdk[e].pending
  <2>1. Dismiss(d) \/ ShowSnapshot(d) \/ Server(d) \/ Drop(d) \/ Reconnect(d) => sdk' = sdk
    BY DEF Dismiss, ShowSnapshot, Server, ServerListen, ServerPut, Drop, Reconnect
  <2>2. ListenFromList(d) \/ Appear(d) => sdk'[e].pending = sdk[e].pending
    BY <1>1 DEF ListenFromList, Appear, Clients
  <2>3. ReceiveFull(d) => sdk'[e].pending = sdk[e].pending
    BY <1>1 DEF ReceiveFull, SetClient, Clients
  <2>4. ReceiveUpdate(d) => sdk'[e].pending = sdk[e].pending
    BY <1>1 DEF ReceiveUpdate, SetClient, Clients
  <2>5. QED
    BY <2>1, <2>2, <2>3, <2>4
<1>3. SendMessage(d) => sdk'[e].pending = IF e = d THEN Append(sdk[d].pending, NewMessage(d))
                                                   ELSE sdk[e].pending
  BY <1>1 DEF SendMessage, SetClient, Clients, NewMessage
<1>4. ReceiveAck(d) =>
        sdk'[e].pending = IF e = d THEN Without(sdk[d].pending, Head(toClient[d]).msg.write)
                                   ELSE sdk[e].pending
  BY <1>1 DEF ReceiveAck, SetClient, Clients
<1>5. Kill(d) => sdk'[e].pending = IF e = d THEN <<>> ELSE sdk[e].pending
  BY <1>1 DEF Kill, FreshClient
<1>6. QED
  BY <1>2, <1>3, <1>4, <1>5

\* Messages that only move, or vanish, stay apart.
LEMMA ApartMoves ==
  ASSUME Apart, stored' \subseteq stored \cup Waiting, IsFiniteSet(stored'), sends' = sends,
         \A e \in Devices : Pending(e)' \subseteq Pending(e) /\ Numbered(sdk'[e].pending)
  PROVE  Apart'
<1>1. Waiting' \subseteq Waiting
  BY DEF Waiting
<1>2. Distinct(stored' \cup Waiting')
  BY <1>1 DEF Apart, Distinct
<1>3. \A e \in Devices : IsFiniteSet(Pending(e)')
  BY FS_Subset DEF Apart
<1>4. QED
  BY <1>1, <1>2, <1>3 DEF Apart

LEMMA ApartNext == IInv /\ Next => Apart'
<1> SUFFICES ASSUME IInv, NEW d \in Devices,
                    \/ User(d) \/ ShowSnapshot(d) \/ Kill(d) \/ Server(d) \/ Client(d)
                    \/ Drop(d) \/ Reconnect(d)
             PROVE  Apart'
  BY DEF Next
<1>1. Apart /\ \A e \in Devices : sdk[e].pending \in Seq(Message) /\ Numbered(sdk[e].pending)
  BY DEF IInv, Types, Apart, Clients
<1>2. CASE SendMessage(d)
  <2> DEFINE m == NewMessage(d)
  <2>1. m.write = sends + 1 /\ m.key = m.write /\ m.from = d /\ sends \in Nat /\ sends' = sends + 1
        /\ m \in Message
    <3>1. sends \in Nat /\ sends' = sends + 1 /\ sends + 1 \in 1 .. MaxSends
          /\ sends + 1 \in 0 .. MaxSends
      BY <1>2, Bounds DEF SendMessage, IInv, Types
    <3>2. sends + 1 + Skew[d] \in Int
      BY <3>1, ConversationAssumption
    <3>3. QED
      BY <3>1, <3>2 DEF NewMessage, PushKey, Now, Message
  <2> HIDE DEF m
  <2>2. \A n \in stored \cup Waiting : n.write <= sends /\ n \in Message
    BY <1>1, ElementOfSeq, LenProperties DEF IInv, Types, Apart, Waiting, Pending, Elements
  <2>3. \A n \in stored \cup Waiting : n.write # m.write /\ n.write <= sends'
    BY <2>1, <2>2 DEF Message
  <2>4. /\ sdk'[d].pending = Append(sdk[d].pending, m)
        /\ \A e \in Devices \ {d} : sdk'[e].pending = sdk[e].pending
    BY <1>2, PendingNext DEF m
  <2>5. /\ DOMAIN sdk'[d].pending = 1 .. Len(sdk[d].pending) + 1
        /\ DOMAIN sdk[d].pending = 1 .. Len(sdk[d].pending) /\ Len(sdk[d].pending) \in Nat
        /\ \A k \in 1 .. Len(sdk[d].pending) : sdk'[d].pending[k] = sdk[d].pending[k]
        /\ sdk'[d].pending[Len(sdk[d].pending) + 1] = m
    BY <1>1, <2>1, <2>4, AppendProperties, LenProperties
  <2>6. Pending(d)' = Pending(d) \cup {m} /\ \A e \in Devices \ {d} : Pending(e)' = Pending(e)
    <3>1. Pending(d)' = {sdk'[d].pending[k] : k \in 1 .. Len(sdk[d].pending) + 1}
      BY <2>5 DEF Pending, Elements
    <3>2. Pending(d) = {sdk[d].pending[k] : k \in 1 .. Len(sdk[d].pending)}
      BY <2>5 DEF Pending, Elements
    <3>3. Pending(d)' \subseteq Pending(d) \cup {m}
      BY <2>5, <3>1, <3>2
    <3>4. Pending(d) \cup {m} \subseteq Pending(d)'
      <4>1. \A k \in 1 .. Len(sdk[d].pending) : k \in 1 .. Len(sdk[d].pending) + 1
        OBVIOUS
      <4>2. Len(sdk[d].pending) + 1 \in 1 .. Len(sdk[d].pending) + 1
        BY <2>5
      <4>3. QED
        BY <2>5, <3>1, <3>2, <4>1, <4>2
    <3>5. \A e \in Devices \ {d} : Pending(e)' = Pending(e)
      BY <2>4 DEF Pending
    <3>6. QED
      BY <3>3, <3>4, <3>5
  <2>7. Waiting' = Waiting \cup {m} /\ stored' = stored
    BY <1>2, <2>6 DEF Waiting, SendMessage, server
  <2>8. Distinct(stored' \cup Waiting')
    BY <1>1, <2>1, <2>3, <2>7 DEF Apart, Distinct
  <2>9. \A n \in stored' \cup Waiting' : n.write <= sends'
    BY <2>1, <2>3, <2>7
  <2>10. Numbered(sdk'[d].pending)
    <3>1. \A k \in 1 .. Len(sdk[d].pending) : sdk[d].pending[k] \in stored \cup Waiting
      BY <2>5 DEF Waiting, Pending, Elements
    <3>2. \A k \in 1 .. Len(sdk[d].pending) : sdk'[d].pending[k].write # m.write
      BY <2>3, <2>5, <3>1
    <3>3. \A k \in 1 .. Len(sdk[d].pending) + 1 :
            k \in 1 .. Len(sdk[d].pending) \/ k = Len(sdk[d].pending) + 1
      BY <2>5
    <3>4. \A k, l \in 1 .. Len(sdk[d].pending) :
            sdk'[d].pending[k].write = sdk'[d].pending[l].write => k = l
      <4>1. \A k, l \in 1 .. Len(sdk[d].pending) :
              sdk[d].pending[k].write = sdk[d].pending[l].write => k = l
        BY <1>1, <2>5 DEF Numbered
      <4>2. QED
        BY <2>5, <4>1
    <3>5. QED
      BY <2>5, <3>2, <3>3, <3>4 DEF Numbered
  <2>11. \A e \in Devices : Numbered(sdk'[e].pending)
    BY <1>1, <2>4, <2>10
  <2>12. \A e \in Devices : \A n \in Pending(e)' : n.from = e
    BY <1>1, <2>1, <2>6 DEF Apart
  <2>13. \A e \in Devices : IsFiniteSet(Pending(e)')
    BY <1>1, <2>6, FS_AddElement DEF Apart
  <2>14. QED
    BY <1>1, <2>7, <2>8, <2>9, <2>11, <2>12, <2>13 DEF Apart
<1>3. CASE ReceiveAck(d)
  <2>1. \A e \in Devices : Pending(e)' \subseteq Pending(e) /\ Numbered(sdk'[e].pending)
    BY <1>1, <1>3, PendingNext, WithoutFacts DEF Pending
  <2>2. stored' = stored /\ sends' = sends
    BY <1>3 DEF ReceiveAck, server, counters
  <2>3. QED
    BY <1>1, <2>1, <2>2, ApartMoves DEF Apart
<1>4. CASE Kill(d)
  <2>1. \A e \in Devices : Pending(e)' \subseteq Pending(e) /\ Numbered(sdk'[e].pending)
    BY <1>1, <1>4, PendingNext DEF Pending, Elements, Numbered
  <2>2. stored' = stored /\ sends' = sends
    BY <1>4 DEF Kill
  <2>3. QED
    BY <1>1, <2>1, <2>2, ApartMoves DEF Apart
<1>5. CASE ServerPut(d)
  <2>1. \A e \in Devices : Pending(e)' \subseteq Pending(e) /\ Numbered(sdk'[e].pending)
    <3>1. \A e \in Devices : sdk'[e].pending = sdk[e].pending
      BY <1>5, PendingNext DEF Server
    <3>2. QED
      BY <1>1, <3>1 DEF Pending
  <2>2. stored' \subseteq stored \cup Waiting /\ IsFiniteSet(stored')
    <3>1. /\ stored' = stored \cup {Head(toServer[d]).msg}
          /\ Head(toServer[d]).msg \in stored \cup Pending(d)
      BY <1>5, PutFacts
    <3>2. IsFiniteSet(stored')
      BY <1>1, <3>1, FS_AddElement DEF Apart
    <3>3. QED
      BY <3>1, <3>2 DEF Waiting
  <2>3. sends' = sends
    BY <1>5 DEF ServerPut, counters
  <2>4. QED
    BY <1>1, <2>1, <2>2, <2>3, ApartMoves
<1>6. CASE \/ ListenFromList(d) \/ Appear(d) \/ Dismiss(d) \/ ShowSnapshot(d) \/ ServerListen(d)
           \/ ReceiveFull(d) \/ ReceiveUpdate(d) \/ Drop(d) \/ Reconnect(d)
  <2>1. \A e \in Devices : Pending(e)' \subseteq Pending(e) /\ Numbered(sdk'[e].pending)
    <3>1. \A e \in Devices : sdk'[e].pending = sdk[e].pending
      BY <1>6, PendingNext DEF Server
    <3>2. QED
      BY <1>1, <3>1 DEF Pending
  <2>2. stored' = stored /\ sends' = sends
    BY <1>6 DEF ListenFromList, Appear, Dismiss, ShowSnapshot, ServerListen, ReceiveFull,
                ReceiveUpdate, Drop, Reconnect, server, counters
  <2>3. QED
    BY <1>1, <2>1, <2>2, ApartMoves DEF Apart
<1>7. QED
  BY <1>2, <1>3, <1>4, <1>5, <1>6 DEF User, Server, Client

-----------------------------------------------------------------------------
(* Where messages are.                                                     *)

LEMMA ElementFacts ==
  ASSUME NEW S, NEW q \in Seq(S)
  PROVE  /\ \A x \in S : Append(q, x) \in Seq(S) /\ Elements(Append(q, x)) = Elements(q) \cup {x}
         /\ q # <<>> => Elements(Tail(q)) \subseteq Elements(q)
         /\ Elements(<<>>) = {}
         /\ Elements(q) \subseteq S
<1>1. Len(q) \in Nat /\ DOMAIN q = 1 .. Len(q) /\ \A k \in 1 .. Len(q) : q[k] \in S
  BY LenProperties, ElementOfSeq
<1>2. ASSUME NEW x \in S PROVE Append(q, x) \in Seq(S) /\ Elements(Append(q, x)) = Elements(q) \cup {x}
  <2>1. /\ Append(q, x) \in Seq(S) /\ DOMAIN Append(q, x) = 1 .. Len(q) + 1
        /\ \A k \in 1 .. Len(q) : Append(q, x)[k] = q[k]
        /\ Append(q, x)[Len(q) + 1] = x
    BY AppendProperties, LenProperties
  <2>2. \A k \in 1 .. Len(q) + 1 : k \in 1 .. Len(q) \/ k = Len(q) + 1
    BY <1>1
  <2>3. Len(q) + 1 \in 1 .. Len(q) + 1 /\ \A k \in 1 .. Len(q) : k \in 1 .. Len(q) + 1
    BY <1>1
  <2>4. /\ Elements(Append(q, x)) = {Append(q, x)[k] : k \in 1 .. Len(q) + 1}
        /\ Elements(q) = {q[k] : k \in 1 .. Len(q)}
    BY <1>1, <2>1 DEF Elements
  <2>5. Elements(Append(q, x)) \subseteq Elements(q) \cup {x}
    BY <2>1, <2>2, <2>4
  <2>6. Elements(q) \cup {x} \subseteq Elements(Append(q, x))
    BY <2>1, <2>3, <2>4
  <2>7. QED
    BY <2>1, <2>5, <2>6
<1>3. q # <<>> => Elements(Tail(q)) \subseteq Elements(q)
  <2> SUFFICES ASSUME q # <<>> PROVE Elements(Tail(q)) \subseteq Elements(q)
    OBVIOUS
  <2>1. /\ DOMAIN Tail(q) = 1 .. Len(q) - 1
        /\ \A k \in 1 .. Len(q) - 1 : Tail(q)[k] = q[k + 1]
    BY HeadTailProperties, LenProperties
  <2>2. \A k \in 1 .. Len(q) - 1 : k + 1 \in DOMAIN q
    BY <1>1
  <2>3. QED
    BY <2>1, <2>2 DEF Elements
<1>4. QED
  BY <1>1, <1>2, <1>3 DEF Elements

\* Requests and answers that move on, and messages that only go to the server.
LEMMA LocatedMoves ==
  ASSUME NEW e \in Devices, Located(e), stored \subseteq stored', sdk'[e].cache \subseteq stored',
         Pending(e) \subseteq Pending(e)' \cup stored',
         \A q \in Elements(toServer'[e]) :
           q \in Elements(toServer[e]) \/ (q.kind = "put" => q.msg \in stored' \cup Pending(e)'),
         \A a \in Elements(toClient'[e]) :
           \/ a \in Elements(toClient[e])
           \/ IF a.kind = "full" THEN a.msgs \subseteq stored' ELSE a.msg \in stored'
  PROVE  Located(e)'
BY DEF Located

LEMMA Queues ==
  ASSUME IInv, NEW e \in Devices
  PROVE  /\ \A q \in Requests : /\ Elements(Request(e, q)) \subseteq Elements(toServer[e]) \cup {q}
                                /\ Elements(Append(toServer[e], q)) = Elements(toServer[e]) \cup {q}
         /\ \A a \in Answers : Elements(Append(toClient[e], a)) = Elements(toClient[e]) \cup {a}
         /\ toServer[e] # <<>> => Elements(Tail(toServer[e])) \subseteq Elements(toServer[e])
         /\ toClient[e] # <<>> => Elements(Tail(toClient[e])) \subseteq Elements(toClient[e])
         /\ Elements(<<>>) = {}
BY ElementFacts DEF IInv, Types, Request

\* What ServerPut adds to a connection.
LEMMA PutAnswers ==
  ASSUME IInv, NEW d \in Devices, ServerPut(d), NEW e \in Devices
  PROVE  LET m    == Head(toServer[d]).msg
             told == IF m \in stored THEN {} ELSE watching
             mid  == IF e \in told THEN Append(toClient[e], Update(m)) ELSE toClient[e]
         IN  /\ m \in Message
             /\ mid \in Seq(Answers)
             /\ toClient'[e] = IF e = d THEN Append(mid, Ack(m)) ELSE mid
<1> DEFINE m    == Head(toServer[d]).msg
           told == IF m \in stored THEN {} ELSE watching
           mid  == IF e \in told THEN Append(toClient[e], Update(m)) ELSE toClient[e]
<1>1. toClient[e] \in Seq(Answers) /\ m \in Message /\ Update(m) \in Answers /\ Ack(m) \in Answers
  BY HeadTypes, RequestTypes DEF IInv, Types, ServerPut
<1>2. toClient'[e] = toClient[e] \o (IF e \in told THEN <<Update(m)>> ELSE <<>>)
                                 \o (IF e = d THEN <<Ack(m)>> ELSE <<>>)
  BY DEF ServerPut
<1> HIDE DEF m, told
<1>3. mid = toClient[e] \o (IF e \in told THEN <<Update(m)>> ELSE <<>>) /\ mid \in Seq(Answers)
  <2>1. /\ Append(toClient[e], Update(m)) = toClient[e] \o <<Update(m)>>
        /\ Append(toClient[e], Update(m)) \in Seq(Answers)
        /\ toClient[e] \o <<>> = toClient[e]
    BY <1>1, AppendIsConcat, AppendProperties, ConcatEmptySeq
  <2>2. QED
    BY <1>1, <2>1
<1> HIDE DEF mid
<1>4. toClient'[e] = IF e = d THEN Append(mid, Ack(m)) ELSE mid
  BY <1>1, <1>2, <1>3, AppendIsConcat, ConcatEmptySeq
<1>5. QED
  BY <1>1, <1>3, <1>4 DEF m, told, mid

\* The views of the clients after a step.
LEMMA ViewNext ==
  ASSUME IInv, NEW d \in Devices
  PROVE  /\ User(d) \/ ShowSnapshot(d) \/ Kill(d) \/ Server(d) \/ Client(d) \/ Drop(d) \/ Reconnect(d)
              => \A e \in Devices \ {d} : sdk'[e] = sdk[e]
         /\ Dismiss(d) \/ ShowSnapshot(d) \/ Server(d) \/ Drop(d) \/ Reconnect(d) => sdk' = sdk
         /\ ListenFromList(d) \/ Appear(d) =>
              /\ sdk'[d].listening /\ sdk'[d].complete = sdk[d].complete
              /\ sdk'[d].cache = sdk[d].cache
         /\ SendMessage(d) \/ ReceiveAck(d) =>
              /\ sdk'[d].listening = sdk[d].listening /\ sdk'[d].complete = sdk[d].complete
              /\ sdk'[d].cache = sdk[d].cache
         /\ ReceiveFull(d) =>
              /\ sdk'[d].listening = sdk[d].listening /\ sdk'[d].complete
              /\ sdk'[d].cache = Head(toClient[d]).msgs
         /\ ReceiveUpdate(d) =>
              /\ sdk'[d].listening = sdk[d].listening /\ sdk'[d].complete = sdk[d].complete
              /\ sdk'[d].cache = Store(sdk[d].cache, Head(toClient[d]).msg)
         /\ Kill(d) => sdk'[d] = FreshClient
<1>1. sdk \in [Devices -> Clients] /\ sdk[d] \in Clients
  BY DEF IInv, Types
<1>2. Dismiss(d) \/ ShowSnapshot(d) \/ Server(d) \/ Drop(d) \/ Reconnect(d) => sdk' = sdk
  BY DEF Dismiss, ShowSnapshot, Server, ServerListen, ServerPut, Drop, Reconnect
<1>3. ASSUME ListenFromList(d) \/ Appear(d)
      PROVE  sdk' = [sdk EXCEPT ![d] = [sdk[d] EXCEPT !.listening = TRUE]]
  BY <1>1, <1>3 DEF ListenFromList, Appear
<1>4. ASSUME SendMessage(d)
      PROVE  sdk' = [sdk EXCEPT ![d] = [sdk[d] EXCEPT !.pending = Append(@, NewMessage(d))]]
  BY <1>4 DEF SendMessage, SetClient, NewMessage
<1>5. ASSUME ReceiveAck(d)
      PROVE  sdk' = [sdk EXCEPT ![d] =
                       [sdk[d] EXCEPT !.pending = Without(@, Head(toClient[d]).msg.write)]]
  BY <1>5 DEF ReceiveAck, SetClient
<1>6. ASSUME ReceiveFull(d)
      PROVE  sdk' = [sdk EXCEPT ![d] =
                       [sdk[d] EXCEPT !.cache = Head(toClient[d]).msgs, !.complete = TRUE]]
  BY <1>6 DEF ReceiveFull, SetClient
<1>7. ASSUME ReceiveUpdate(d)
      PROVE  sdk' = [sdk EXCEPT ![d] = [sdk[d] EXCEPT !.cache = Store(@, Head(toClient[d]).msg)]]
  BY <1>7 DEF ReceiveUpdate, SetClient
<1>8. ASSUME Kill(d) PROVE sdk' = [sdk EXCEPT ![d] = FreshClient]
  BY <1>8 DEF Kill
<1>9. ASSUME NEW new, sdk' = [sdk EXCEPT ![d] = new]
      PROVE  sdk'[d] = new /\ \A e \in Devices \ {d} : sdk'[e] = sdk[e]
  BY <1>1, <1>9
<1>10. User(d) \/ ShowSnapshot(d) \/ Kill(d) \/ Server(d) \/ Client(d) \/ Drop(d) \/ Reconnect(d)
         => \A e \in Devices \ {d} : sdk'[e] = sdk[e]
  BY <1>2, <1>3, <1>4, <1>5, <1>6, <1>7, <1>8, <1>9 DEF User, Client
<1>11. ListenFromList(d) \/ Appear(d) => sdk'[d] = [sdk[d] EXCEPT !.listening = TRUE]
  BY <1>3, <1>9
<1>12. SendMessage(d) => sdk'[d] = [sdk[d] EXCEPT !.pending = Append(@, NewMessage(d))]
  BY <1>4, <1>9
<1>13. ReceiveAck(d) =>
         sdk'[d] = [sdk[d] EXCEPT !.pending = Without(@, Head(toClient[d]).msg.write)]
  BY <1>5, <1>9
<1>14. ReceiveFull(d) =>
         sdk'[d] = [sdk[d] EXCEPT !.cache = Head(toClient[d]).msgs, !.complete = TRUE]
  BY <1>6, <1>9
<1>15. ReceiveUpdate(d) => sdk'[d] = [sdk[d] EXCEPT !.cache = Store(@, Head(toClient[d]).msg)]
  BY <1>7, <1>9
<1>16. Kill(d) => sdk'[d] = FreshClient
  BY <1>8, <1>9
<1>17. ListenFromList(d) \/ Appear(d) =>
         /\ sdk'[d].listening /\ sdk'[d].complete = sdk[d].complete
         /\ sdk'[d].cache = sdk[d].cache
  BY <1>1, <1>11 DEF Clients
<1>18. SendMessage(d) \/ ReceiveAck(d) =>
         /\ sdk'[d].listening = sdk[d].listening /\ sdk'[d].complete = sdk[d].complete
         /\ sdk'[d].cache = sdk[d].cache
  BY <1>1, <1>12, <1>13 DEF Clients
<1>19. ReceiveFull(d) =>
         /\ sdk'[d].listening = sdk[d].listening /\ sdk'[d].complete
         /\ sdk'[d].cache = Head(toClient[d]).msgs
  BY <1>1, <1>14 DEF Clients
<1>20. ReceiveUpdate(d) =>
         /\ sdk'[d].listening = sdk[d].listening /\ sdk'[d].complete = sdk[d].complete
         /\ sdk'[d].cache = Store(sdk[d].cache, Head(toClient[d]).msg)
  BY <1>1, <1>15 DEF Clients
<1>21. QED
  BY <1>2, <1>10, <1>16, <1>17, <1>18, <1>19, <1>20

LEMMA NewMessageType ==
  ASSUME IInv, NEW d \in Devices, SendMessage(d)
  PROVE  NewMessage(d) \in Message
<1>1. sends + 1 \in 1 .. MaxSends /\ sends + 1 \in 0 .. MaxSends /\ sends \in Nat
  BY Bounds DEF SendMessage, IInv, Types
<1>2. sends + 1 + Skew[d] \in Int
  BY <1>1, ConversationAssumption
<1>3. QED
  BY <1>1, <1>2 DEF NewMessage, Message, PushKey, Now

\* An answer takes out of the pending writes what the server stored, and only that.
LEMMA AckedArePending ==
  ASSUME IInv, NEW d \in Devices, ReceiveAck(d), NEW e \in Devices
  PROVE  /\ Pending(e)' \subseteq Pending(e)
         /\ Pending(e) \subseteq Pending(e)' \cup stored
         /\ e # d => Pending(e)' = Pending(e)
         /\ e = d => Pending(e) \subseteq Pending(e)' \cup {Head(toClient[d]).msg}
<1> DEFINE m == Head(toClient[d]).msg
<1>1. m \in stored
  BY AnswerFacts DEF ReceiveAck
<1>2. sdk[d].pending \in Seq(Message) /\ Numbered(sdk[d].pending)
  BY DEF IInv, Types, Apart, Clients
<1>3. e # d => Pending(e)' = Pending(e)
  BY PendingNext DEF Pending
<1>4. e = d => Pending(e)' = {n \in Pending(d) : n.write # m.write}
  <2>1. e = d => sdk'[e].pending = Without(sdk[d].pending, m.write)
    BY PendingNext
  <2>2. Elements(Without(sdk[d].pending, m.write)) = {n \in Elements(sdk[d].pending) : n.write # m.write}
    BY <1>2, WithoutFacts
  <2>3. QED
    BY <2>1, <2>2 DEF Pending
<1>5. \A n \in Pending(d) : n.write = m.write => n = m
  BY <1>1 DEF IInv, Apart, Distinct, Waiting
<1>6. QED
  BY <1>1, <1>3, <1>4, <1>5

\* A connection that is restored listens first, then sends what is pending.
LEMMA RestoredFacts ==
  ASSUME IInv, NEW d \in Devices
  PROVE  /\ \A q \in Elements(Restored(sdk[d])) :
              /\ q.kind = "put" => q.msg \in Pending(d)
              /\ q.kind = "listen" => sdk[d].listening
         /\ sdk[d].listening => Restored(sdk[d]) # <<>> /\ Restored(sdk[d])[1].kind = "listen"
<1> DEFINE p    == sdk[d].pending
           puts == [k \in DOMAIN p |-> Put(p[k])]
           head == IF sdk[d].listening THEN <<Listen>> ELSE <<>>
<1>1. p \in Seq(Message) /\ DOMAIN p = 1 .. Len(p) /\ Len(p) \in Nat
  BY LenProperties DEF IInv, Types, Clients
<1>2. puts \in Seq(Requests) /\ Len(puts) = Len(p) /\ \A k \in 1 .. Len(p) : puts[k] = Put(p[k])
  <2>1. puts \in [1 .. Len(p) -> Requests]
    BY <1>1, ElementOfSeq, RequestTypes
  <2>2. puts \in Seq(Requests)
    BY <1>1, <2>1, SeqDef
  <2>3. QED
    BY <1>1, <2>1, <2>2, LenProperties
<1>3. /\ head \in Seq(Requests) /\ Len(head) = IF sdk[d].listening THEN 1 ELSE 0
      /\ sdk[d].listening => head[1] = Listen
  BY RequestTypes, EmptySeq
<1>4. Restored(sdk[d]) = head \o puts
  BY DEF Restored
<1>5. \A k \in 1 .. Len(p) : Put(p[k]).msg \in Pending(d)
  BY <1>1 DEF Put, Pending, Elements
<1> HIDE DEF puts, head, p
<1>6. /\ Len(head \o puts) = Len(head) + Len(puts) /\ head \o puts \in Seq(Requests)
      /\ \A k \in 1 .. Len(head) + Len(puts) :
           (head \o puts)[k] = IF k <= Len(head) THEN head[k] ELSE puts[k - Len(head)]
  <2>1. head \in Seq(Requests) /\ puts \in Seq(Requests)
    BY <1>2, <1>3
  <2>2. QED
    BY ONLY <2>1, ConcatProperties
<1>7. \A k \in 1 .. Len(head \o puts) :
        \/ (head \o puts)[k] = Listen /\ sdk[d].listening
        \/ \E l \in 1 .. Len(p) : (head \o puts)[k] = Put(p[l])
  <2> SUFFICES ASSUME NEW k \in 1 .. Len(head \o puts)
               PROVE  \/ (head \o puts)[k] = Listen /\ sdk[d].listening
                      \/ \E l \in 1 .. Len(p) : (head \o puts)[k] = Put(p[l])
    OBVIOUS
  <2>1. CASE k <= Len(head)
    <3>1. k = 1 /\ sdk[d].listening /\ (head \o puts)[k] = head[k]
      BY <1>1, <1>2, <1>3, <1>6, <2>1
    <3>2. QED
      BY <1>3, <3>1
  <2>2. CASE k > Len(head)
    <3>1. k - Len(head) \in 1 .. Len(p) /\ (head \o puts)[k] = puts[k - Len(head)]
      BY <1>1, <1>2, <1>3, <1>6, <2>2
    <3>2. QED
      BY <1>2, <3>1
  <2>3. QED
    BY <1>3, <2>1, <2>2
<1>8. \A q \in Elements(head \o puts) : (q = Listen /\ sdk[d].listening) \/ \E l \in 1 .. Len(p) : q = Put(p[l])
  BY <1>6, <1>7, LenProperties DEF Elements
<1>9. sdk[d].listening => head \o puts # <<>> /\ (head \o puts)[1] = Listen
  BY <1>1, <1>2, <1>3, <1>6, EmptySeq
<1>10. Listen.kind = "listen" /\ \A m : Put(m).kind = "put"
  BY DEF Listen, Put
<1>11. QED
  BY <1>4, <1>5, <1>8, <1>9, <1>10

LEMMA LocatedNext == IInv /\ Next => \A e \in Devices : Located(e)'
<1> SUFFICES ASSUME IInv, NEW d \in Devices, NEW e \in Devices,
                    \/ User(d) \/ ShowSnapshot(d) \/ Kill(d) \/ Server(d) \/ Client(d)
                    \/ Drop(d) \/ Reconnect(d)
             PROVE  Located(e)'
  BY DEF Next
<1>1. /\ Located(e) /\ sdk[e] \in Clients /\ sdk \in [Devices -> Clients]
      /\ toServer \in [Devices -> Seq(Requests)] /\ toClient \in [Devices -> Seq(Answers)]
      /\ sdk[e].cache \subseteq stored
  BY DEF IInv, Types, Located
<1>2. Listen \in Requests /\ Listen.kind # "put"
  BY RequestTypes DEF Listen
<1>3. CASE ListenFromList(d) \/ Appear(d)
  <2>1. /\ stored' = stored /\ toClient' = toClient
        /\ toServer'[e] = toServer[e] \/ toServer'[e] = Request(e, Listen)
    BY <1>1, <1>3 DEF ListenFromList, Appear, server
  <2>2. sdk'[e].cache = sdk[e].cache
    BY <1>3, ViewNext DEF User
  <2>3. Pending(e)' = Pending(e)
    BY <1>3, PendingNext DEF Pending
  <2>4. Elements(toServer'[e]) \subseteq Elements(toServer[e]) \cup {Listen}
    BY <1>2, <2>1, Queues
  <2>5. QED
    BY <1>1, <1>2, <2>1, <2>2, <2>3, <2>4, LocatedMoves
<1>4. CASE SendMessage(d)
  <2>1. NewMessage(d) \in Message /\ Put(NewMessage(d)).msg = NewMessage(d)
    BY <1>4, NewMessageType DEF Put
  <2>2. /\ stored' = stored /\ toClient' = toClient
        /\ toServer'[e] = IF e = d THEN Request(e, Put(NewMessage(d))) ELSE toServer[e]
    BY <1>1, <1>4 DEF SendMessage, NewMessage, server
  <2>3. sdk'[e].cache = sdk[e].cache
    BY <1>4, ViewNext DEF User
  <2>4. e # d => Pending(e)' = Pending(e)
    BY <1>4, PendingNext DEF Pending
  <2>5. e = d => Pending(e)' = Pending(e) \cup {NewMessage(d)}
    <3>1. sdk[d].pending \in Seq(Message)
      BY <1>1 DEF Clients
    <3>2. Elements(Append(sdk[d].pending, NewMessage(d))) = Elements(sdk[d].pending) \cup {NewMessage(d)}
      BY <2>1, <3>1, ElementFacts
    <3>3. e = d => sdk'[e].pending = Append(sdk[d].pending, NewMessage(d))
      BY <1>4, PendingNext
    <3>4. QED
      BY <3>2, <3>3 DEF Pending
  <2>6. Elements(toServer'[e]) \subseteq
          IF e = d THEN Elements(toServer[e]) \cup {Put(NewMessage(d))} ELSE Elements(toServer[e])
    BY <2>1, <2>2, RequestTypes, Queues
  <2>7. QED
    BY <1>1, <2>1, <2>2, <2>3, <2>4, <2>5, <2>6, LocatedMoves
<1>5. CASE ReceiveFull(d)
  <2>1. /\ stored' = stored /\ toServer' = toServer
        /\ toClient'[e] = IF e = d THEN Tail(toClient[e]) ELSE toClient[e]
        /\ toClient[d] # <<>>
    BY <1>1, <1>5 DEF ReceiveFull, server
  <2>2. sdk'[e].cache = IF e = d THEN Head(toClient[d]).msgs ELSE sdk[e].cache
    BY <1>5, ViewNext DEF Client
  <2>3. sdk'[e].cache \subseteq stored
    <3>1. Head(toClient[d]).msgs \subseteq stored
      BY <1>5, <2>1, AnswerFacts DEF ReceiveFull
    <3>2. QED
      BY <1>1, <2>1, <2>2, <3>1
  <2>4. Pending(e)' = Pending(e)
    BY <1>5, PendingNext DEF Pending
  <2>5. QED
    BY <1>1, <2>1, <2>3, <2>4, Queues, LocatedMoves
<1>6. CASE ReceiveUpdate(d)
  <2>1. /\ stored' = stored /\ toServer' = toServer
        /\ toClient'[e] = IF e = d THEN Tail(toClient[e]) ELSE toClient[e]
        /\ toClient[d] # <<>>
    BY <1>1, <1>6 DEF ReceiveUpdate, server
  <2>2. sdk'[e].cache = IF e = d THEN Store(sdk[d].cache, Head(toClient[d]).msg) ELSE sdk[e].cache
    BY <1>6, ViewNext DEF Client
  <2>3. sdk'[e].cache \subseteq stored
    <3>1. CASE e = d
      <4>1. Head(toClient[d]).kind # "full"
        BY <1>6 DEF ReceiveUpdate
      <4>2. /\ Head(toClient[d]).msg \in stored
            /\ Store(sdk[d].cache, Head(toClient[d]).msg) = sdk[d].cache \cup {Head(toClient[d]).msg}
        BY <2>1, <4>1, AnswerFacts
      <4>3. QED
        BY <1>1, <2>1, <2>2, <3>1, <4>2
    <3>2. CASE e # d
      BY <1>1, <2>1, <2>2, <3>2
    <3>3. QED
      BY <3>1, <3>2
  <2>4. Pending(e)' = Pending(e)
    BY <1>6, PendingNext DEF Pending
  <2>5. QED
    BY <1>1, <2>1, <2>3, <2>4, Queues, LocatedMoves
<1>7. CASE ReceiveAck(d)
  <2>1. /\ stored' = stored /\ toServer' = toServer
        /\ toClient'[e] = IF e = d THEN Tail(toClient[e]) ELSE toClient[e]
        /\ toClient[d] # <<>>
    BY <1>1, <1>7 DEF ReceiveAck, server
  <2>2. sdk'[e].cache = sdk[e].cache
    BY <1>7, ViewNext DEF Client
  <2>3. Pending(e) \subseteq Pending(e)' \cup stored
    BY <1>7, AckedArePending
  <2>4. QED
    BY <1>1, <2>1, <2>2, <2>3, Queues, LocatedMoves
<1>8. CASE Kill(d)
  <2>1. CASE e = d
    <3>1. toServer'[e] = <<>> /\ toClient'[e] = <<>> /\ sdk'[e].cache = {}
      BY <1>1, <1>8, <2>1 DEF Kill, FreshClient
    <3>2. QED
      BY <3>1, Queues DEF Located
  <2>2. CASE e # d
    <3>1. UNCHANGED <<stored, toServer[e], toClient[e], sdk[e]>>
      BY <1>1, <1>8, <2>2 DEF Kill
    <3>2. QED
      BY <1>1, <3>1 DEF Located, Pending
  <2>3. QED
    BY <2>1, <2>2
<1>9. CASE ServerListen(d)
  <2>1. /\ stored' = stored /\ sdk' = sdk /\ toServer[d] # <<>>
        /\ toServer'[e] = IF e = d THEN Tail(toServer[e]) ELSE toServer[e]
        /\ toClient'[e] = IF e = d THEN Append(toClient[e], Full(stored)) ELSE toClient[e]
    BY <1>1, <1>9 DEF ServerListen
  <2>2. Full(stored) \in Answers /\ Full(stored).kind = "full" /\ Full(stored).msgs = stored
    BY RequestTypes DEF Full, IInv, Types
  <2>3. Pending(e)' = Pending(e)
    BY <2>1 DEF Pending
  <2>4. QED
    BY <1>1, <2>1, <2>2, <2>3, Queues, LocatedMoves
<1>10. CASE ServerPut(d)
  <2> DEFINE m    == Head(toServer[d]).msg
             told == IF m \in stored THEN {} ELSE watching
             mid  == IF e \in told THEN Append(toClient[e], Update(m)) ELSE toClient[e]
  <2>1. /\ m \in Message /\ mid \in Seq(Answers)
        /\ toClient'[e] = IF e = d THEN Append(mid, Ack(m)) ELSE mid
    BY <1>10, PutAnswers
  <2>2. /\ sdk' = sdk /\ toServer[d] # <<>>
        /\ toServer'[e] = IF e = d THEN Tail(toServer[e]) ELSE toServer[e]
    BY <1>1, <1>10 DEF ServerPut
  <2>3. stored' = stored \cup {m}
    BY <1>10, PutFacts
  <2>4. /\ Update(m) \in Answers /\ Update(m).kind # "full" /\ Update(m).msg = m
        /\ Ack(m) \in Answers /\ Ack(m).kind # "full" /\ Ack(m).msg = m
    BY <2>1, RequestTypes DEF Update, Ack
  <2> HIDE DEF m, told
  <2>5. Elements(mid) \subseteq Elements(toClient[e]) \cup {Update(m)}
    BY <2>4, Queues
  <2> HIDE DEF mid
  <2>6. Elements(toClient'[e]) \subseteq Elements(toClient[e]) \cup {Update(m), Ack(m)}
    BY <2>1, <2>4, <2>5, ElementFacts
  <2>7. Pending(e)' = Pending(e)
    BY <2>2 DEF Pending
  <2>8. QED
    BY <1>1, <2>2, <2>3, <2>4, <2>6, <2>7, Queues, LocatedMoves
<1>11. CASE Drop(d)
  <2>1. /\ stored' = stored /\ sdk' = sdk
        /\ toServer'[e] = IF e = d THEN <<>> ELSE toServer[e]
        /\ toClient'[e] = IF e = d THEN <<>> ELSE toClient[e]
    BY <1>1, <1>11 DEF Drop
  <2>2. Pending(e)' = Pending(e)
    BY <2>1 DEF Pending
  <2>3. /\ Elements(toServer'[e]) \subseteq Elements(toServer[e])
        /\ Elements(toClient'[e]) \subseteq Elements(toClient[e])
    BY <2>1, Queues
  <2>4. QED
    BY <1>1, <2>1, <2>2, <2>3, LocatedMoves
<1>12. CASE Reconnect(d)
  <2>1. /\ stored' = stored /\ sdk' = sdk /\ toClient' = toClient
        /\ toServer'[e] = IF e = d THEN Restored(sdk[d]) ELSE toServer[e]
    BY <1>1, <1>12 DEF Reconnect, server
  <2>2. Pending(e)' = Pending(e)
    BY <2>1 DEF Pending
  <2>3. \A q \in Elements(Restored(sdk[d])) : q.kind = "put" => q.msg \in Pending(d)
    BY RestoredFacts
  <2>4. QED
    BY <1>1, <2>1, <2>2, <2>3, LocatedMoves
<1>13. CASE Dismiss(d) \/ ShowSnapshot(d)
  <2>1. stored' = stored /\ sdk' = sdk /\ toServer' = toServer /\ toClient' = toClient
    BY <1>13 DEF Dismiss, ShowSnapshot, server, network
  <2>2. QED
    BY <1>1, <2>1 DEF Located, Pending
<1>14. QED
  BY <1>3, <1>4, <1>5, <1>6, <1>7, <1>8, <1>9, <1>10, <1>11, <1>12, <1>13
     DEF User, Server, Client

-----------------------------------------------------------------------------
(* What the server has reaches a client that listens.                      *)

\* What comes to a client is stored.
LEMMA ReachedIsStored ==
  ASSUME IInv, NEW e \in Devices, NEW m, Reaches(sdk[e].cache, toClient[e], m)
  PROVE  m \in stored
<1>1. /\ sdk[e].cache \subseteq stored
      /\ DOMAIN toClient[e] = 1 .. Len(toClient[e])
      /\ \A a \in Elements(toClient[e]) :
           IF a.kind = "full" THEN a.msgs \subseteq stored ELSE a.msg \in stored
  BY LenProperties DEF IInv, Located, Types
<1>2. \A k \in 1 .. Len(toClient[e]) : toClient[e][k] \in Elements(toClient[e])
  BY <1>1 DEF Elements
<1>3. \A a \in Elements(toClient[e]) : m \in Brings(a) => m \in stored
  BY <1>1 DEF Brings
<1>4. QED
  BY <1>1, <1>2, <1>3 DEF Reaches

\* A connection without answers under way brings nothing.
LEMMA SilentFlows ==
  ASSUME NEW done, NEW cache
  PROVE  Flows(done, cache, <<>>) /\ \A m : Reaches(cache, <<>>, m) <=> m \in cache
<1>1. Len(<<>>) = 0 /\ \A k : k \notin 1 .. 0
  BY EmptySeq
<1>2. QED
  BY <1>1 DEF Flows, AcksFollow, NodesGrow, Reaches

\* A whole node that is left was under way.
LEMMA FullsLeft ==
  ASSUME NEW q \in Seq(Answers), q # <<>>
  PROVE  /\ (\E k \in 1 .. Len(Tail(q)) : Tail(q)[k].kind = "full")
              => \E k \in 1 .. Len(q) : q[k].kind = "full"
         /\ 1 \in 1 .. Len(q) /\ Head(q) = q[1]
<1>1. /\ Head(q) = q[1] /\ Len(q) \in Nat \ {0} /\ Len(Tail(q)) = Len(q) - 1
      /\ \A k \in 1 .. Len(q) - 1 : Tail(q)[k] = q[k + 1]
  BY HeadTailProperties, EmptySeq
<1>2. \A k \in 1 .. Len(q) - 1 : k + 1 \in 1 .. Len(q)
  BY <1>1
<1>3. QED
  BY <1>1, <1>2

\* An answer that is added is the only whole node that is new.
LEMMA FullsSent ==
  ASSUME NEW q \in Seq(Answers), NEW a \in Answers, a.kind # "full",
         \E k \in 1 .. Len(Append(q, a)) : Append(q, a)[k].kind = "full"
  PROVE  \E k \in 1 .. Len(q) : q[k].kind = "full"
<1>1. /\ Len(q) \in Nat /\ Len(Append(q, a)) = Len(q) + 1
      /\ \A k \in 1 .. Len(q) : Append(q, a)[k] = q[k]
      /\ Append(q, a)[Len(q) + 1] = a
  BY AppendProperties, LenProperties
<1>2. \A k \in 1 .. Len(q) + 1 : k \in 1 .. Len(q) \/ k = Len(q) + 1
  BY <1>1
<1>3. QED
  BY <1>1, <1>2

\* A request that is added leaves the first one as it was.
LEMMA FirstStays ==
  ASSUME IInv, NEW e \in Devices, NEW r \in Requests, toServer[e] # <<>>
  PROVE  Request(e, r) # <<>> /\ Request(e, r)[1] = toServer[e][1]
<1>1. toServer[e] \in Seq(Requests) /\ 1 \in 1 .. Len(toServer[e])
  BY EmptySeq DEF IInv, Types
<1>2. Append(toServer[e], r) # <<>> /\ Append(toServer[e], r)[1] = toServer[e][1]
  BY <1>1, AppendProperties
<1>3. QED
  BY <1>2 DEF Request

\* A put that the server stores comes from a client the server tells of it.
LEMMA PutIsWatched ==
  ASSUME IInv, NEW d \in Devices, ServerPut(d),
         sdk[d].complete \/ \E k \in 1 .. Len(toClient[d]) : toClient[d][k].kind = "full"
  PROVE  d \in watching
<1>1. online[d] /\ toServer[d] # <<>> /\ toServer[d][1].kind # "listen"
  BY PutFacts DEF IInv, Types, Linked, ServerPut
<1>2. QED
  BY <1>1 DEF IInv, Linked

LEMMA PutLinked ==
  ASSUME IInv, NEW d \in Devices, ServerPut(d), NEW e \in Devices
  PROVE  Linked(e)'
<1> DEFINE m    == Head(toServer[d]).msg
           told == IF m \in stored THEN {} ELSE watching
           q    == toClient[e]
           mid  == IF e \in told THEN Append(q, Update(m)) ELSE q
           c    == sdk[e].cache
           done == sdk[e].complete
<1>1. /\ Linked(e) /\ sdk[e] \in Clients /\ done \in BOOLEAN /\ c \subseteq stored
      /\ q \in Seq(Answers) /\ toServer \in [Devices -> Seq(Requests)] /\ online \in [Devices -> BOOLEAN]
  BY DEF IInv, Types, Clients, Located
<1>2. /\ m \in Message /\ mid \in Seq(Answers)
      /\ toClient'[e] = IF e = d THEN Append(mid, Ack(m)) ELSE mid
  BY PutAnswers
<1>3. /\ sdk' = sdk /\ watching' = watching /\ online' = online /\ toServer[d] # <<>>
      /\ toServer'[e] = IF e = d THEN Tail(toServer[e]) ELSE toServer[e]
  BY <1>1 DEF ServerPut
<1>4. stored' = stored \cup {m}
  BY PutFacts
<1>5. /\ Update(m) \in Answers /\ Update(m).kind = "update" /\ Update(m).msg = m
      /\ Ack(m) \in Answers /\ Ack(m).kind = "ack" /\ Ack(m).msg = m
      /\ Brings(Update(m)) = {m} /\ Brings(Ack(m)) = {}
  BY <1>2, RequestTypes DEF Update, Ack, Brings
<1>6. e = d /\ (done \/ \E k \in 1 .. Len(q) : q[k].kind = "full") => d \in watching
  BY PutIsWatched
<1>7. Flows(done, c, q) /\ (e \in watching => \A n \in stored : Reaches(c, q, n))
  BY <1>1 DEF Linked
<1> HIDE DEF m
<1>8. /\ Flows(done, c, mid)
      /\ e \in watching => \A n \in stored' : Reaches(c, mid, n)
      /\ (\E k \in 1 .. Len(mid) : mid[k].kind = "full") => \E k \in 1 .. Len(q) : q[k].kind = "full"
  <2>1. CASE e \in told
    <3>1. /\ Flows(done, c, Append(q, Update(m)))
          /\ \A n : Reaches(c, Append(q, Update(m)), n) <=> Reaches(c, q, n) \/ n \in {m}
      BY <1>1, <1>5, <1>7, SendFlows
    <3>2. mid = Append(q, Update(m))
      BY <2>1
    <3>3. (\E k \in 1 .. Len(mid) : mid[k].kind = "full") => \E k \in 1 .. Len(q) : q[k].kind = "full"
      BY <1>1, <1>5, <3>2, FullsSent
    <3> HIDE DEF mid, q, c, done
    <3>4. e \in watching => \A n \in stored' : Reaches(c, mid, n)
      BY <1>4, <1>7, <3>1, <3>2
    <3>5. QED
      BY <3>1, <3>2, <3>3, <3>4
  <2>2. CASE e \notin told
    <3>1. mid = q /\ (e \in watching => stored' = stored)
      BY <1>4, <2>2
    <3> HIDE DEF mid, q, c, done
    <3>2. QED
      BY <1>7, <3>1
  <2>3. QED
    BY <2>1, <2>2
<1>9. /\ Flows(done, c, toClient'[e])
      /\ e \in watching => \A n \in stored' : Reaches(c, toClient'[e], n)
      /\ (\E k \in 1 .. Len(toClient'[e]) : toClient'[e][k].kind = "full") => e \in watching
  <2>1. CASE e = d
    <3>1. toClient'[e] = Append(mid, Ack(m))
      BY <1>2, <2>1
    <3>2. (\E k \in 1 .. Len(mid) : mid[k].kind = "full") => e \in watching
      BY <1>6, <1>8, <2>1
    <3>3. done \/ (\E k \in 1 .. Len(mid) : mid[k].kind = "full") => e \in watching
      BY <1>6, <2>1, <3>2
    <3> HIDE DEF mid, q, c, done
    <3>4. m \in stored'
      BY <1>4
    <3>5. /\ Flows(done, c, Append(mid, Ack(m)))
          /\ \A n : Reaches(c, Append(mid, Ack(m)), n) <=> Reaches(c, mid, n) \/ n \in {}
      <4>1. Ack(m).kind = "ack" /\ (done \/ \E k \in 1 .. Len(mid) : mid[k].kind = "full")
              => Reaches(c, mid, Ack(m).msg)
        BY <1>5, <1>8, <3>3, <3>4
      <4>2. QED
        BY <1>1, <1>2, <1>5, <1>8, <4>1, SendFlows
    <3>6. (\E k \in 1 .. Len(Append(mid, Ack(m))) : Append(mid, Ack(m))[k].kind = "full")
            => \E k \in 1 .. Len(mid) : mid[k].kind = "full"
      BY <1>2, <1>5, FullsSent
    <3>7. QED
      BY <1>8, <3>1, <3>2, <3>5, <3>6
  <2>2. CASE e # d
    <3>1. toClient'[e] = mid
      BY <1>2, <2>2
    <3>2. (\E k \in 1 .. Len(q) : q[k].kind = "full") => e \in watching
      BY <1>1 DEF Linked
    <3> HIDE DEF mid, q, c, done
    <3>3. QED
      BY <1>8, <3>1, <3>2
  <2>3. QED
    BY <2>1, <2>2
<1>10. /\ ~ online[e] => toServer'[e] = <<>> /\ toClient'[e] = <<>>
       /\ \A r \in Elements(toServer'[e]) : r.kind = "listen" => sdk[e].listening
       /\ done /\ online[e] /\ e \notin watching => toServer'[e] # <<>> /\ toServer'[e][1].kind = "listen"
  <2>1. Elements(toServer'[e]) \subseteq Elements(toServer[e])
    BY <1>3, Queues
  <2>2. CASE e = d
    <3>1. online[e] /\ (done => e \in watching)
      BY <1>1, <1>3, <1>6, <2>2 DEF Linked
    <3>2. QED
      BY <1>1, <2>1, <3>1 DEF Linked
  <2>3. CASE e # d
    <3>1. ~ online[e] => mid = <<>>
      BY <1>1, <1>3 DEF Linked
    <3>2. QED
      BY <1>1, <1>2, <1>3, <2>1, <2>3, <3>1 DEF Linked
  <2>4. QED
    BY <2>2, <2>3
<1>11. QED
  BY <1>1, <1>3, <1>9, <1>10 DEF Linked

\* Nothing of a device's connection changes.
LEMMA LinkedStays ==
  ASSUME NEW e \in Devices, Linked(e), stored' = stored, sdk'[e] = sdk[e], online'[e] = online[e],
         toServer'[e] = toServer[e], toClient'[e] = toClient[e],
         e \in watching' <=> e \in watching
  PROVE  Linked(e)'
BY DEF Linked

LEMMA ReceiveLinked ==
  ASSUME IInv, NEW d \in Devices, Client(d)
  PROVE  Linked(d)'
<1> DEFINE q == toClient[d]
           a == Head(toClient[d])
<1>1. /\ Linked(d) /\ sdk[d] \in Clients /\ sdk[d].complete \in BOOLEAN
      /\ q \in Seq(Answers) /\ q # <<>>
  BY DEF IInv, Types, Clients, Client, ReceiveFull, ReceiveUpdate, ReceiveAck
<1>2. /\ stored' = stored /\ watching' = watching /\ online' = online /\ toServer' = toServer
      /\ toClient'[d] = Tail(q) /\ sdk'[d].listening = sdk[d].listening
  BY ViewNext DEF Client, ReceiveFull, ReceiveUpdate, ReceiveAck, server, IInv, Types
<1>3. Flows(sdk[d].complete, sdk[d].cache, q)
  BY <1>1 DEF Linked
<1>4. /\ (\E k \in 1 .. Len(Tail(q)) : Tail(q)[k].kind = "full") => d \in watching
      /\ a.kind = "full" => d \in watching
  BY <1>1, FullsLeft DEF Linked
<1>5. /\ Flows(sdk'[d].complete, sdk'[d].cache, Tail(q))
      /\ \A m : Reaches(sdk[d].cache, q, m) => Reaches(sdk'[d].cache, Tail(q), m)
      /\ sdk'[d].complete => sdk[d].complete \/ d \in watching
  <2>1. CASE ReceiveFull(d)
    <3>1. a.kind = "full" /\ sdk'[d].complete = TRUE /\ sdk'[d].cache = a.msgs
      <4>1. sdk' \in [Devices -> Clients]
        BY <2>1, TypesNext DEF Next, Client, Types
      <4>2. sdk'[d].complete \in BOOLEAN
        BY <4>1 DEF Clients
      <4>3. QED
        BY <2>1, <4>2, ViewNext DEF ReceiveFull
    <3>2. QED
      BY <1>1, <1>3, <1>4, <3>1, ReceiveFlows
  <2>2. CASE ReceiveUpdate(d)
    <3>1. /\ a.kind = "update" /\ sdk'[d].complete = sdk[d].complete
          /\ sdk'[d].cache = Store(sdk[d].cache, a.msg)
      BY <2>2, ViewNext DEF ReceiveUpdate
    <3>2. sdk'[d].cache = sdk[d].cache \cup {a.msg}
      BY <1>1, <3>1, AnswerFacts
    <3>3. /\ Flows(sdk[d].complete, sdk[d].cache \cup {a.msg}, Tail(q))
          /\ \A m : Reaches(sdk[d].cache, q, m) => Reaches(sdk[d].cache \cup {a.msg}, Tail(q), m)
      BY <1>1, <1>3, <3>1, ReceiveFlows
    <3> HIDE DEF a, q
    <3>4. QED
      BY <3>1, <3>2, <3>3
  <2>3. CASE ReceiveAck(d)
    <3>1. /\ a.kind = "ack" /\ sdk'[d].complete = sdk[d].complete
          /\ sdk'[d].cache = sdk[d].cache
      BY <2>3, ViewNext DEF ReceiveAck
    <3>2. /\ Flows(sdk[d].complete, sdk[d].cache, Tail(q))
          /\ \A m : Reaches(sdk[d].cache, q, m) => Reaches(sdk[d].cache, Tail(q), m)
      BY <1>1, <1>3, <3>1, ReceiveFlows
    <3> HIDE DEF a, q
    <3>3. QED
      BY <3>1, <3>2
  <2>4. QED
    BY <2>1, <2>2, <2>3 DEF Client
<1>6. ~ online[d] => FALSE
  BY <1>1 DEF Linked
<1> HIDE DEF q, a
<1>7. /\ sdk'[d].complete \/ d \in watching => sdk[d].listening
      /\ sdk'[d].complete /\ d \notin watching => sdk[d].complete
  BY <1>1, <1>5 DEF Linked
<1>8. d \in watching => \A m \in stored : Reaches(sdk'[d].cache, Tail(q), m)
  BY <1>1, <1>5 DEF Linked, q
<1>9. QED
  BY <1>1, <1>2, <1>4, <1>5, <1>6, <1>7, <1>8 DEF Linked

LEMMA ListenLinked ==
  ASSUME IInv, NEW d \in Devices, ServerListen(d)
  PROVE  Linked(d)'
<1> DEFINE q == toClient[d]
           a == Full(stored)
<1>1. /\ Linked(d) /\ sdk[d] \in Clients /\ sdk[d].complete \in BOOLEAN
      /\ q \in Seq(Answers) /\ toServer[d] \in Seq(Requests) /\ toServer[d] # <<>>
      /\ a \in Answers /\ a.kind = "full" /\ a.msgs = stored /\ Brings(a) = stored
  BY RequestTypes DEF IInv, Types, Clients, ServerListen, Full, Brings
<1>2. /\ stored' = stored /\ d \in watching' /\ online' = online /\ toServer'[d] = Tail(toServer[d])
      /\ toClient'[d] = Append(q, a) /\ sdk' = sdk
  BY DEF ServerListen, IInv, Types
<1>3. Flows(sdk[d].complete, sdk[d].cache, q) /\ \A m : Reaches(sdk[d].cache, q, m) => m \in stored
  BY <1>1, ReachedIsStored DEF Linked
<1>4. /\ Flows(sdk[d].complete, sdk[d].cache, Append(q, a))
      /\ \A m : Reaches(sdk[d].cache, Append(q, a), m) <=> Reaches(sdk[d].cache, q, m) \/ m \in stored
  BY <1>1, <1>3, SendFlows
<1>5. Elements(Tail(toServer[d])) \subseteq Elements(toServer[d])
  BY <1>1, Queues
<1>6. online[d]
  BY <1>1 DEF Linked
<1>7. sdk[d].listening
  <2>1. Listen \in Elements(toServer[d]) /\ Listen.kind = "listen"
    BY <1>1, HeadTailProperties, EmptySeq, LenProperties DEF ServerListen, Elements, Listen
  <2>2. QED
    BY <1>1, <2>1 DEF Linked
<1> HIDE DEF q, a
<1>8. QED
  BY <1>1, <1>2, <1>4, <1>5, <1>6, <1>7 DEF Linked

LEMMA RequestLinked ==
  ASSUME IInv, NEW d \in Devices, ListenFromList(d) \/ Appear(d) \/ SendMessage(d)
  PROVE  Linked(d)'
<1>1. Linked(d) /\ Listen \in Requests /\ Listen.kind = "listen"
  BY RequestTypes DEF IInv, Listen
<1>2. /\ stored' = stored /\ watching' = watching /\ online' = online /\ toClient' = toClient
      /\ sdk'[d].complete = sdk[d].complete /\ sdk'[d].cache = sdk[d].cache
      /\ sdk[d].listening => sdk'[d].listening
  BY ViewNext DEF ListenFromList, Appear, SendMessage, server
<1>3. PICK r \in Requests : /\ toServer'[d] = toServer[d] \/ toServer'[d] = Request(d, r)
                            /\ r.kind = "listen" => sdk'[d].listening
  <2>1. CASE ListenFromList(d) \/ Appear(d)
    <3>1. toServer'[d] = toServer[d] \/ toServer'[d] = Request(d, Listen)
      BY <2>1 DEF ListenFromList, Appear, IInv, Types
    <3>2. sdk'[d].listening
      BY <2>1, ViewNext
    <3>3. QED
      BY <1>1, <3>1, <3>2
  <2>2. CASE SendMessage(d)
    <3>1. toServer'[d] = Request(d, Put(NewMessage(d)))
      BY <2>2 DEF SendMessage, NewMessage, IInv, Types
    <3>2. Put(NewMessage(d)) \in Requests /\ Put(NewMessage(d)).kind # "listen"
      BY <2>2, NewMessageType, RequestTypes DEF Put
    <3>3. QED
      BY <3>1, <3>2
  <2>3. QED
    BY <2>1, <2>2
<1>4. Elements(toServer'[d]) \subseteq Elements(toServer[d]) \cup {r}
  BY <1>3, Queues
<1>5. ~ online[d] => toServer'[d] = toServer[d]
  BY <1>3 DEF Request
<1>6. toServer[d] # <<>> => toServer'[d] # <<>> /\ toServer'[d][1] = toServer[d][1]
  BY <1>3, FirstStays
<1>7. \A n \in Elements(toServer'[d]) : n.kind = "listen" => sdk'[d].listening
  BY <1>1, <1>2, <1>3, <1>4 DEF Linked
<1>8. QED
  BY <1>1, <1>2, <1>5, <1>6, <1>7 DEF Linked

LEMMA LinkedNext == IInv /\ Next => \A e \in Devices : Linked(e)'
<1> SUFFICES ASSUME IInv, NEW d \in Devices, NEW e \in Devices,
                    \/ User(d) \/ ShowSnapshot(d) \/ Kill(d) \/ Server(d) \/ Client(d)
                    \/ Drop(d) \/ Reconnect(d)
             PROVE  Linked(e)'
  BY DEF Next
<1>1. /\ Linked(e) /\ toServer \in [Devices -> Seq(Requests)] /\ toClient \in [Devices -> Seq(Answers)]
      /\ online \in [Devices -> BOOLEAN] /\ Elements(<<>>) = {}
  BY Queues DEF IInv, Types
<1>2. CASE ServerPut(d)
  BY <1>2, PutLinked
<1>3. CASE e # d /\ ~ ServerPut(d)
  <2>1. sdk'[e] = sdk[e]
    BY <1>3, ViewNext
  <2>2. stored' = stored /\ toServer'[e] = toServer[e] /\ toClient'[e] = toClient[e]
    BY <1>1, <1>3 DEF User, ListenFromList, Appear, Dismiss, SendMessage, ShowSnapshot, Kill, Server,
         ServerListen, Client, ReceiveFull, ReceiveUpdate, ReceiveAck, Drop, Reconnect, server, network
  <2>3. (e \in watching' <=> e \in watching) /\ online'[e] = online[e]
    BY <1>1, <1>3 DEF User, ListenFromList, Appear, Dismiss, SendMessage, ShowSnapshot, Kill, Server,
         ServerListen, Client, ReceiveFull, ReceiveUpdate, ReceiveAck, Drop, Reconnect, server, network
  <2>4. QED
    BY <1>1, <2>1, <2>2, <2>3, LinkedStays
<1>4. CASE e = d /\ (ListenFromList(d) \/ Appear(d) \/ SendMessage(d))
  BY <1>4, RequestLinked
<1>5. CASE e = d /\ ServerListen(d)
  BY <1>5, ListenLinked
<1>6. CASE e = d /\ Client(d)
  BY <1>6, ReceiveLinked
<1>7. CASE Dismiss(d) \/ ShowSnapshot(d)
  <2>1. UNCHANGED <<stored, watching, online, toServer, toClient, sdk>>
    BY <1>7 DEF Dismiss, ShowSnapshot, server, network
  <2>2. QED
    BY <1>1, <2>1, LinkedStays
<1>8. CASE e = d /\ Kill(d)
  <2>0. sdk'[e] = FreshClient /\ ~ FreshClient.complete
    BY <1>8, ViewNext DEF FreshClient
  <2>1. /\ toServer'[e] = <<>> /\ toClient'[e] = <<>> /\ e \notin watching' /\ stored' = stored
        /\ ~ sdk'[e].complete
    BY <1>1, <1>8, <2>0 DEF Kill
  <2>2. \A k \in 1 .. Len(<<>>) : FALSE
    BY EmptySeq
  <2>3. QED
    BY <1>1, <2>1, <2>2, SilentFlows DEF Linked
<1>9. CASE e = d /\ Drop(d)
  <2>1. /\ toServer'[e] = <<>> /\ toClient'[e] = <<>> /\ e \notin watching' /\ stored' = stored
        /\ ~ online'[e] /\ sdk' = sdk
    BY <1>1, <1>9 DEF Drop
  <2>2. \A k \in 1 .. Len(<<>>) : FALSE
    BY EmptySeq
  <2>3. QED
    BY <1>1, <2>1, <2>2, SilentFlows DEF Linked
<1>10. CASE e = d /\ Reconnect(d)
  <2>1. /\ toServer'[e] = Restored(sdk[e]) /\ toClient' = toClient /\ stored' = stored
        /\ watching' = watching /\ online'[e] /\ sdk' = sdk
    BY <1>1, <1>10 DEF Reconnect, server
  <2>2. /\ \A q \in Elements(Restored(sdk[e])) : q.kind = "listen" => sdk[e].listening
        /\ sdk[e].listening => Restored(sdk[e]) # <<>> /\ Restored(sdk[e])[1].kind = "listen"
    BY RestoredFacts
  <2>3. QED
    BY <1>1, <2>1, <2>2 DEF Linked
<1>11. QED
  BY <1>2, <1>3, <1>4, <1>5, <1>6, <1>7, <1>8, <1>9, <1>10 DEF User, Server, Client

-----------------------------------------------------------------------------
(* Views grow, and the screen follows them.                                *)

LEMMA WritesGrow ==
  ASSUME NEW ms, NEW ns, ms \subseteq ns
  PROVE  Writes(ms) \subseteq Writes(ns)
BY DEF Writes

\* A view that grows raises an event for each observer.
LEMMA RaiseGrows ==
  ASSUME NEW old \in Clients, NEW new \in Clients, NEW n \in Nat, NEW q \in Seq(SUBSET Message),
         NEW shown, Grows(old.complete, n, q, shown, Value(old)),
         old.complete => new.complete /\ Value(old) \subseteq Value(new)
  PROVE  Grows(new.complete, n, q \o Raised(old, new, n), shown, Value(new))
<1> DEFINE v == Value(old)
           w == Value(new)
           r == Raised(old, new, n)
<1>1. w \in SUBSET Message
  BY ValueType
<1>2. CASE ~ new.complete \/ n = 0 \/ (old.complete /\ w = v)
  <2>1. r = <<>>
    <3>1. [k \in 1 .. 0 |-> w] = <<>>
      OBVIOUS
    <3>2. QED
      BY <1>2, <3>1 DEF Raised
  <2>2. q \o r = q
    BY <2>1, ConcatEmptySeq
  <2>3. CASE ~ new.complete \/ n = 0
    <3>1. q = <<>> /\ shown = {} /\ Len(q) = 0
      BY <2>3, EmptySeq DEF Grows
    <3>2. QED
      BY <2>2, <2>3, <3>1 DEF Grows
  <2>4. CASE old.complete /\ w = v
    BY <2>2, <2>4 DEF Grows
  <2>5. QED
    BY <1>2, <2>3, <2>4
<1>3. CASE new.complete /\ n # 0 /\ ~ (old.complete /\ w = v)
  <2>1. r = [k \in 1 .. n |-> w]
    BY <1>3 DEF Raised
  <2>2. r \in Seq(SUBSET Message) /\ Len(r) = n /\ \A k \in 1 .. n : r[k] = w
    <3>1. r \in [1 .. n -> SUBSET Message]
      BY <1>1, <2>1
    <3>2. r \in Seq(SUBSET Message)
      BY <3>1, SeqDef
    <3>3. QED
      BY <2>1, <3>2, LenProperties
  <2> HIDE DEF r, v, w
  <2>3. /\ Len(q \o r) = Len(q) + n /\ Len(q) \in Nat
        /\ \A k \in 1 .. Len(q) + n : (q \o r)[k] = IF k <= Len(q) THEN q[k] ELSE w
    <3>1. /\ Len(q \o r) = Len(q) + Len(r) /\ Len(q) \in Nat
          /\ \A k \in 1 .. Len(q) + Len(r) : (q \o r)[k] = IF k <= Len(q) THEN q[k] ELSE r[k - Len(q)]
      BY <2>2, ConcatProperties, LenProperties
    <3>2. \A k \in 1 .. Len(q) + n : k > Len(q) => k - Len(q) \in 1 .. n
      BY <3>1
    <3>3. QED
      BY <2>2, <3>1, <3>2
  <2>4. /\ \A k, l \in 1 .. Len(q) : k < l => q[k] \subseteq q[l]
        /\ \A k \in 1 .. Len(q) : q[k] \subseteq w /\ shown \subseteq Writes(q[k])
        /\ shown \subseteq Writes(w)
    <3>1. CASE old.complete
      <4>1. v \subseteq w /\ Writes(v) \subseteq Writes(w)
        BY <3>1, WritesGrow DEF v, w
      <4>2. /\ \A k, l \in 1 .. Len(q) : k < l => q[k] \subseteq q[l]
            /\ \A k \in 1 .. Len(q) : q[k] \subseteq v /\ shown \subseteq Writes(q[k])
            /\ shown \subseteq Writes(v)
        BY DEF Grows, v
      <4>3. QED
        BY <4>1, <4>2
    <3>2. CASE ~ old.complete
      <4>1. q = <<>> /\ shown = {} /\ Len(q) = 0
        BY <3>2, EmptySeq DEF Grows
      <4>2. QED
        BY <4>1
    <3>3. QED
      BY <3>1, <3>2
  <2>5. \A k \in 1 .. Len(q) + n : k \in 1 .. Len(q) \/ (q \o r)[k] = w
    BY <2>3
  <2>6. \A k, l \in 1 .. Len(q) + n : k < l => (q \o r)[k] \subseteq (q \o r)[l]
    <3> SUFFICES ASSUME NEW k \in 1 .. Len(q) + n, NEW l \in 1 .. Len(q) + n, k < l
                 PROVE  (q \o r)[k] \subseteq (q \o r)[l]
      OBVIOUS
    <3>1. CASE l \in 1 .. Len(q)
      BY <2>3, <2>4, <3>1
    <3>2. CASE (q \o r)[l] = w
      BY <2>3, <2>4, <3>2
    <3>3. QED
      BY <2>5, <3>1, <3>2
  <2>7. \A k \in 1 .. Len(q) + n : (q \o r)[k] \subseteq w /\ shown \subseteq Writes((q \o r)[k])
    BY <2>3, <2>4
  <2>8. q \o r # <<>> /\ (q \o r)[Len(q \o r)] = w
    <3>1. Len(q) + n \in 1 .. Len(q) + n /\ Len(q \o r) # 0 /\ ~ (Len(q) + n <= Len(q))
      BY <1>3, <2>3
    <3>2. QED
      BY <2>3, <3>1, EmptySeq
  <2>9. QED
    BY <1>3, <2>3, <2>4, <2>6, <2>7, <2>8 DEF Grows, r, w
<1>4. QED
  BY <1>2, <1>3

\* A new observer gets the view there is.
LEMMA AppearGrows ==
  ASSUME NEW done \in BOOLEAN, NEW n \in Nat, NEW q \in Seq(SUBSET Message),
         NEW shown, NEW v \in SUBSET Message, Grows(done, n, q, shown, v)
  PROVE  Grows(done, n + 1, IF done THEN Append(q, v) ELSE q, shown, v)
<1>1. CASE ~ done
  BY <1>1 DEF Grows
<1>2. CASE done
  <2>1. /\ Len(q) \in Nat /\ Len(Append(q, v)) = Len(q) + 1
        /\ \A k \in 1 .. Len(q) : Append(q, v)[k] = q[k]
        /\ Append(q, v)[Len(q) + 1] = v /\ Append(q, v) # <<>>
    BY AppendProperties, LenProperties, EmptySeq
  <2>2. \A k \in 1 .. Len(q) + 1 : k \in 1 .. Len(q) \/ k = Len(q) + 1
    BY <2>1
  <2>3. \A k \in 1 .. Len(q) + 1 :
          Append(q, v)[k] \subseteq v /\ shown \subseteq Writes(Append(q, v)[k])
    BY <2>1, <2>2 DEF Grows
  <2>4. \A k, l \in 1 .. Len(q) + 1 : k < l => Append(q, v)[k] \subseteq Append(q, v)[l]
    <3> SUFFICES ASSUME NEW k \in 1 .. Len(q) + 1, NEW l \in 1 .. Len(q) + 1, k < l
                 PROVE  Append(q, v)[k] \subseteq Append(q, v)[l]
      OBVIOUS
    <3>1. CASE l \in 1 .. Len(q)
      <4>1. k \in 1 .. Len(q)
        BY <2>1, <3>1
      <4>2. QED
        BY <2>1, <3>1, <4>1 DEF Grows
    <3>2. CASE l = Len(q) + 1
      BY <2>1, <2>3, <3>2
    <3>3. QED
      BY <2>2, <3>1, <3>2
  <2>5. shown \subseteq Writes(v) /\ n + 1 # 0
    BY DEF Grows
  <2>6. QED
    BY <1>2, <2>1, <2>3, <2>4, <2>5 DEF Grows
<1>3. QED
  BY <1>1, <1>2

\* The next event is shown.
LEMMA ShowGrows ==
  ASSUME NEW done \in BOOLEAN, NEW n \in Nat, NEW q \in Seq(SUBSET Message), q # <<>>,
         NEW shown, NEW v \in SUBSET Message, Grows(done, n, q, shown, v)
  PROVE  Grows(done, n, Tail(q), Writes(Head(q)), v) /\ shown \subseteq Writes(Head(q))
<1>1. /\ Head(q) = q[1] /\ Len(q) \in Nat \ {0} /\ Len(Tail(q)) = Len(q) - 1
      /\ \A k \in 1 .. Len(q) - 1 : Tail(q)[k] = q[k + 1]
      /\ Tail(q) \in Seq(SUBSET Message)
  BY HeadTailProperties, EmptySeq
<1>2. done /\ n # 0 /\ q[Len(q)] = v
  BY DEF Grows
<1>3. \A k \in 1 .. Len(q) - 1 : k + 1 \in 1 .. Len(q) /\ 1 \in 1 .. Len(q) /\ 1 < k + 1
  BY <1>1
<1>4. \A k \in 1 .. Len(q) - 1 : q[1] \subseteq Tail(q)[k] /\ Tail(q)[k] \subseteq v
  BY <1>1, <1>3 DEF Grows
<1>5. \A k, l \in 1 .. Len(q) - 1 : k < l => Tail(q)[k] \subseteq Tail(q)[l]
  <2> SUFFICES ASSUME NEW k \in 1 .. Len(q) - 1, NEW l \in 1 .. Len(q) - 1, k < l
               PROVE  q[k + 1] \subseteq q[l + 1]
    BY <1>1
  <2>1. k + 1 < l + 1 /\ k + 1 \in 1 .. Len(q) /\ l + 1 \in 1 .. Len(q)
    BY <1>1
  <2>2. QED
    BY <2>1 DEF Grows
<1>6. 1 \in 1 .. Len(q) /\ q[1] \subseteq v /\ shown \subseteq Writes(q[1])
  BY <1>1 DEF Grows
<1>7. Writes(q[1]) \subseteq Writes(v) /\ \A k \in 1 .. Len(q) - 1 : Writes(q[1]) \subseteq Writes(Tail(q)[k])
  BY <1>4, <1>6, WritesGrow
<1>8. CASE Tail(q) = <<>>
  <2>1. Len(q) = 1 /\ Len(Tail(q)) = 0
    BY <1>1, <1>8, EmptySeq
  <2>2. q[1] = v /\ Writes(Head(q)) = Writes(v) /\ shown \subseteq Writes(Head(q))
    BY <1>1, <1>2, <1>6, <2>1
  <2>3. \A k \in 1 .. Len(Tail(q)) : FALSE
    <3>1. \A k \in 1 .. 0 : FALSE
      OBVIOUS
    <3>2. QED
      BY ONLY <2>1, <3>1
  <2>4. QED
    BY <1>2, <1>8, <2>2, <2>3 DEF Grows
<1>9. CASE Tail(q) # <<>>
  <2>1. Len(q) - 1 \in 1 .. Len(q) - 1 /\ Tail(q)[Len(q) - 1] = q[Len(q)]
    BY <1>1, <1>9, EmptySeq
  <2>2. \A k \in 1 .. Len(Tail(q)) : Tail(q)[k] \subseteq v /\ Writes(Head(q)) \subseteq Writes(Tail(q)[k])
    BY <1>1, <1>4, <1>7
  <2>3. Tail(q)[Len(Tail(q))] = v
    BY <1>1, <1>2, <2>1
  <2>4. \A k, l \in 1 .. Len(Tail(q)) : k < l => Tail(q)[k] \subseteq Tail(q)[l]
    BY <1>1, <1>5
  <2>5. Writes(Head(q)) \subseteq Writes(v) /\ shown \subseteq Writes(Head(q))
    BY <1>1, <1>6, <1>7
  <2>6. QED
    BY <1>2, <1>9, <2>2, <2>3, <2>4, <2>5 DEF Grows
<1>10. QED
  BY <1>8, <1>9

\* The view after a step.
LEMMA NextView ==
  ASSUME IInv, Next, NEW e \in Devices
  PROVE  sdk'[e] \in Clients /\ Value(sdk'[e]) = sdk'[e].cache \cup Pending(e)'
<1>1. Types' /\ Apart' /\ Located(e)'
  BY TypesNext, ApartNext, LocatedNext
<1>2. sdk'[e] \in Clients /\ sdk'[e].cache \subseteq stored' /\ Pending(e)' \subseteq Waiting'
  BY <1>1 DEF Types, Located, Waiting
<1>3. sdk'[e].cache \cup Pending(e)' \subseteq stored' \cup Waiting'
  BY <1>2
<1>4. Distinct(sdk'[e].cache \cup Pending(e)') /\ Numbered(sdk'[e].pending)
  BY <1>1, <1>3 DEF Apart, Distinct
<1>5. Pending(e)' = Elements(sdk'[e].pending)
  BY DEF Pending
<1>6. QED
  BY <1>2, <1>4, <1>5, ValueIsUnion

\* Nothing a client receives, and no message it sends, takes anything from its view.
LEMMA ValueGrows ==
  ASSUME IInv, NEW d \in Devices, SendMessage(d) \/ Client(d)
  PROVE  sdk[d].complete => sdk'[d].complete /\ Value(sdk[d]) \subseteq Value(sdk'[d])
<1>1. /\ Value(sdk[d]) = sdk[d].cache \cup Pending(d)
      /\ Value(sdk'[d]) = sdk'[d].cache \cup Pending(d)'
      /\ sdk[d] \in Clients
  BY ViewFacts, NextView DEF Next, User, IInv, Types
<1>2. CASE SendMessage(d)
  <2>1. sdk'[d].complete = sdk[d].complete /\ sdk'[d].cache = sdk[d].cache
    BY <1>2, ViewNext
  <2>2. Pending(d) \subseteq Pending(d)'
    <3>1. sdk[d].pending \in Seq(Message) /\ NewMessage(d) \in Message
      BY <1>1, <1>2, NewMessageType DEF Clients
    <3>2. Elements(sdk[d].pending) \subseteq Elements(Append(sdk[d].pending, NewMessage(d)))
      BY <3>1, ElementFacts
    <3>3. sdk'[d].pending = Append(sdk[d].pending, NewMessage(d))
      BY <1>2, PendingNext
    <3>4. QED
      BY <3>2, <3>3 DEF Pending
  <2>3. QED
    BY <1>1, <2>1, <2>2
<1>3. CASE Client(d)
  <2> DEFINE q == toClient[d]
             a == Head(q)
  <2>1. /\ q \in Seq(Answers) /\ q # <<>> /\ sdk[d].complete \in BOOLEAN
        /\ Flows(sdk[d].complete, sdk[d].cache, q)
    BY <1>1, <1>3 DEF IInv, Types, Linked, Clients, Client, ReceiveFull, ReceiveUpdate, ReceiveAck
  <2>2. /\ a.kind = "full" => sdk[d].cache \subseteq a.msgs
        /\ a.kind = "ack" /\ sdk[d].complete => a.msg \in sdk[d].cache
    BY <2>1, ReceiveFlows
  <2>3. CASE ReceiveFull(d)
    <3>1. a.kind = "full" /\ sdk'[d].complete /\ sdk'[d].cache = a.msgs
      BY <2>3, ViewNext DEF ReceiveFull
    <3>2. Pending(d)' = Pending(d)
      BY <2>3, PendingNext DEF Pending
    <3>3. QED
      BY <1>1, <2>2, <3>1, <3>2
  <2>4. CASE ReceiveUpdate(d)
    <3>1. /\ a.kind # "full" /\ sdk'[d].complete = sdk[d].complete
          /\ sdk'[d].cache = Store(sdk[d].cache, a.msg)
      BY <2>4, ViewNext DEF ReceiveUpdate
    <3>2. sdk'[d].cache = sdk[d].cache \cup {a.msg}
      BY <2>1, <3>1, AnswerFacts
    <3>3. Pending(d)' = Pending(d)
      BY <2>4, PendingNext DEF Pending
    <3>4. QED
      BY <1>1, <3>1, <3>2, <3>3
  <2>5. CASE ReceiveAck(d)
    <3>1. /\ a.kind = "ack" /\ sdk'[d].complete = sdk[d].complete
          /\ sdk'[d].cache = sdk[d].cache
      BY <2>5, ViewNext DEF ReceiveAck
    <3>2. Pending(d) \subseteq Pending(d)' \cup {a.msg}
      BY <2>5, AckedArePending
    <3>3. QED
      BY <1>1, <2>2, <3>1, <3>2
  <2>6. QED
    BY <1>3, <2>3, <2>4, <2>5 DEF Client
<1>4. QED
  BY <1>2, <1>3

LEMMA ScreenTypes ==
  ASSUME IInv, NEW d \in Devices
  PROVE  /\ sdk[d] \in Clients /\ sdk[d].complete \in BOOLEAN /\ Value(sdk[d]) \in SUBSET Message
         /\ mainQueue \in [Devices -> Seq(SUBSET Message)] /\ mainQueue[d] \in Seq(SUBSET Message)
         /\ open \in [Devices -> 0 .. MaxObservers] /\ open[d] \in Nat
         /\ display \in [Devices -> Seq(Entry)]
         /\ Growing(d)
<1>1. /\ sdk[d] \in Clients /\ mainQueue \in [Devices -> Seq(SUBSET Message)]
      /\ open \in [Devices -> 0 .. MaxObservers] /\ display \in [Devices -> Seq(Entry)]
      /\ Growing(d)
  BY DEF IInv, Types
<1>2. sdk[d].complete \in BOOLEAN
  BY <1>1 DEF Clients
<1>3. Value(sdk[d]) \in SUBSET Message
  BY <1>1, ValueType
<1>4. open[d] \in Nat
  BY <1>1
<1>5. QED
  BY <1>1, <1>2, <1>3, <1>4

\* The list the chat view is given: the next event, which is a later view.
LEMMA ShowFacts ==
  ASSUME IInv, NEW d \in Devices, ShowSnapshot(d)
  PROVE  /\ Growing(d)'
         /\ OnList(display[d]) \subseteq OnList(display'[d])
         /\ \A k, l \in DOMAIN display'[d] : display'[d][k].write = display'[d][l].write => k = l
         /\ ~ crashed'
         /\ \A e \in Devices \ {d} : display'[e] = display[e]
<1> DEFINE q == mainQueue[d]
           h == Head(q)
<1>1. /\ q \in Seq(SUBSET Message) /\ q # <<>> /\ sdk[d].complete \in BOOLEAN /\ open[d] \in Nat
      /\ Value(sdk[d]) \in SUBSET Message /\ display \in [Devices -> Seq(Entry)]
      /\ Grows(sdk[d].complete, open[d], q, OnList(display[d]), Value(sdk[d]))
  BY ScreenTypes DEF Growing, ShowSnapshot
<1>2. /\ Grows(sdk[d].complete, open[d], Tail(q), Writes(h), Value(sdk[d]))
      /\ OnList(display[d]) \subseteq Writes(h)
  BY <1>1, ShowGrows
<1>3. /\ mainQueue'[d] = Tail(q) /\ sdk' = sdk /\ open' = open
  BY <1>1 DEF ShowSnapshot, IInv, Types
<1>4. /\ OnList(display'[d]) = Writes(h)
      /\ \A k, l \in DOMAIN display'[d] : display'[d][k].write = display'[d][l].write => k = l
      /\ ~ crashed'
      /\ \A e \in Devices \ {d} : display'[e] = display[e]
  <2>1. CASE PassedOn(h)
    <3>1. PICK list \in Sorted({Shown(d, m) : m \in h}) : display' = [display EXCEPT ![d] = list]
      BY <2>1 DEF ShowSnapshot
    <3>2. OnList(list) = Writes(h) /\ \A k, l \in DOMAIN list : list[k].write = list[l].write => k = l
      BY <1>1, EventFacts, ShownFacts
    <3>3. display'[d] = list /\ \A e \in Devices \ {d} : display'[e] = display[e]
      BY <1>1, <3>1
    <3>4. ~ crashed'
      <4>1. crashed' = (crashed \/ {Shown(d, m) : m \in h} = {})
        BY <2>1 DEF ShowSnapshot
      <4>2. h # {}
        BY <2>1 DEF PassedOn
      <4>3. {Shown(d, m) : m \in h} # {}
        BY <4>2
      <4>4. QED
        BY <4>1, <4>3 DEF IInv, NeverEmptyList
    <3>5. QED
      BY <3>2, <3>3, <3>4
  <2>2. CASE ~ PassedOn(h)
    <3>1. display' = display /\ crashed' = crashed /\ h = {}
      BY <2>2 DEF ShowSnapshot, PassedOn
    <3>2. Writes(h) = {} /\ OnList(display[d]) = {}
      BY <1>2, <3>1 DEF Writes
    <3>3. QED
      BY <3>1, <3>2 DEF IInv, NothingShownTwice, NeverEmptyList
  <2>3. QED
    BY <2>1, <2>2
<1>5. QED
  BY <1>2, <1>3, <1>4 DEF Growing

LEMMA GrowingNext == IInv /\ Next => \A e \in Devices : Growing(e)'
<1> SUFFICES ASSUME IInv, NEW d \in Devices, NEW e \in Devices,
                    \/ User(d) \/ ShowSnapshot(d) \/ Kill(d) \/ Server(d) \/ Client(d)
                    \/ Drop(d) \/ Reconnect(d)
             PROVE  Growing(e)'
  BY DEF Next
<1>1. /\ Growing(e) /\ mainQueue \in [Devices -> Seq(SUBSET Message)] /\ open[e] \in Nat
      /\ open \in [Devices -> 0 .. MaxObservers] /\ display \in [Devices -> Seq(Entry)]
      /\ sdk[e] \in Clients /\ sdk[e].complete \in BOOLEAN /\ Value(sdk[e]) \in SUBSET Message
  BY ScreenTypes
<1>2. /\ Value(sdk[e]) = sdk[e].cache \cup Pending(e)
      /\ Value(sdk'[e]) = sdk'[e].cache \cup Pending(e)'
      /\ sdk'[e] \in Clients
  BY ViewFacts, NextView DEF Next
<1>3. ASSUME sdk'[e] = sdk[e], mainQueue'[e] = mainQueue[e], open'[e] = open[e],
             display'[e] = display[e]
      PROVE  Growing(e)'
  BY <1>1, <1>3 DEF Growing
<1>4. CASE e # d
  <2>1. sdk'[e] = sdk[e]
    BY <1>4, ViewNext
  <2>2. mainQueue'[e] = mainQueue[e]
    BY <1>1, <1>4 DEF User, ListenFromList, Appear, Dismiss, SendMessage, ShowSnapshot, Kill, Server,
         ServerListen, ServerPut, Client, ReceiveFull, ReceiveUpdate, ReceiveAck, Drop, Reconnect,
         SetClient, screens
  <2>3. open'[e] = open[e]
    BY <1>1, <1>4 DEF User, ListenFromList, Appear, Dismiss, SendMessage, ShowSnapshot, Kill, Server,
         ServerListen, ServerPut, Client, ReceiveFull, ReceiveUpdate, ReceiveAck, Drop, Reconnect, screens
  <2>4. display'[e] = display[e]
    <3>1. CASE ShowSnapshot(d)
      BY <1>4, <3>1, ShowFacts
    <3>2. CASE ~ ShowSnapshot(d)
      BY <1>1, <1>4, <3>2 DEF User, ListenFromList, Appear, Dismiss, SendMessage, Kill, Server,
         ServerListen, ServerPut, Client, ReceiveFull, ReceiveUpdate, ReceiveAck, Drop, Reconnect, screens
    <3>3. QED
      BY <3>1, <3>2
  <2>5. QED
    BY <1>3, <2>1, <2>2, <2>3, <2>4
<1>5. CASE e = d /\ ListenFromList(d)
  <2>1. /\ sdk'[d].complete = sdk[d].complete /\ sdk'[d].cache = sdk[d].cache
        /\ Pending(d)' = Pending(d)
    BY <1>5, ViewNext, PendingNext DEF Pending
  <2>2. UNCHANGED <<mainQueue, open, display>>
    BY <1>5 DEF ListenFromList, screens
  <2>3. QED
    BY <1>1, <1>2, <1>5, <2>1, <2>2 DEF Growing
<1>6. CASE e = d /\ Appear(d)
  <2>1. /\ sdk'[d].complete = sdk[d].complete /\ sdk'[d].cache = sdk[d].cache
        /\ Pending(d)' = Pending(d)
    BY <1>6, ViewNext, PendingNext DEF Pending
  <2>2. /\ open'[e] = open[e] + 1 /\ display' = display
        /\ mainQueue'[e] = IF sdk[e].complete THEN Append(mainQueue[e], Value(sdk[e])) ELSE mainQueue[e]
    BY <1>1, <1>6 DEF Appear
  <2>3. Value(sdk'[e]) = Value(sdk[e])
    BY <1>2, <1>6, <2>1
  <2>4. Grows(sdk[e].complete, open[e] + 1,
              IF sdk[e].complete THEN Append(mainQueue[e], Value(sdk[e])) ELSE mainQueue[e],
              OnList(display[e]), Value(sdk[e]))
    BY <1>1, AppearGrows DEF Growing
  <2>5. QED
    BY <1>6, <2>1, <2>2, <2>3, <2>4 DEF Growing
<1>7. CASE e = d /\ (Dismiss(d) \/ Kill(d))
  <2>1. open'[e] = 0 /\ mainQueue'[e] = <<>> /\ display'[e] = <<>>
    BY <1>1, <1>7 DEF Dismiss, Kill
  <2>2. OnList(<<>>) = {} /\ Len(<<>>) = 0 /\ \A k \in 1 .. 0 : FALSE
    BY EmptySeq DEF OnList
  <2>3. QED
    BY <2>1, <2>2 DEF Growing, Grows
<1>8. CASE e = d /\ (SendMessage(d) \/ Client(d))
  <2>1. /\ mainQueue'[d] = mainQueue[d] \o Raised(sdk[d], sdk'[d], open[d])
        /\ open' = open /\ display' = display
    <3>1. ASSUME NEW new, SetClient(d, new)
          PROVE  mainQueue'[d] = mainQueue[d] \o Raised(sdk[d], sdk'[d], open[d])
      BY <1>1, <3>1 DEF SetClient, IInv, Types
    <3>2. \E new : SetClient(d, new)
      BY <1>8 DEF SendMessage, Client, ReceiveFull, ReceiveUpdate, ReceiveAck
    <3>3. open' = open /\ display' = display
      BY <1>8 DEF SendMessage, Client, ReceiveFull, ReceiveUpdate, ReceiveAck
    <3>4. QED
      BY <3>1, <3>2, <3>3
  <2>2. sdk[d].complete => sdk'[d].complete /\ Value(sdk[d]) \subseteq Value(sdk'[d])
    BY <1>8, ValueGrows
  <2>3. Grows(sdk'[d].complete, open[d], mainQueue[d] \o Raised(sdk[d], sdk'[d], open[d]),
              OnList(display[d]), Value(sdk'[d]))
    BY <1>1, <1>2, <1>8, <2>2, RaiseGrows DEF Growing
  <2>4. QED
    BY <1>8, <2>1, <2>3 DEF Growing
<1>9. CASE e = d /\ ShowSnapshot(d)
  BY <1>9, ShowFacts
<1>10. CASE Server(d) \/ Drop(d) \/ Reconnect(d)
  <2>1. UNCHANGED <<sdk, mainQueue, open, display>>
    BY <1>10 DEF Server, ServerListen, ServerPut, Drop, Reconnect, screens
  <2>2. QED
    BY <1>3, <2>1
<1>11. QED
  BY <1>4, <1>5, <1>6, <1>7, <1>8, <1>9, <1>10 DEF User

-----------------------------------------------------------------------------
(* The invariant holds.                                                    *)

LEMMA PromisesNext ==
  ASSUME IInv, Next
  PROVE  AckedIsStored' /\ NothingShownTwice' /\ NeverEmptyList'
<1> SUFFICES ASSUME NEW d \in Devices,
                    \/ User(d) \/ ShowSnapshot(d) \/ Kill(d) \/ Server(d) \/ Client(d)
                    \/ Drop(d) \/ Reconnect(d)
             PROVE  AckedIsStored' /\ NothingShownTwice' /\ NeverEmptyList'
  BY DEF Next
<1>1. AckedIsStored /\ NothingShownTwice /\ NeverEmptyList /\ display \in [Devices -> Seq(Entry)]
  BY DEF IInv, Types
<1>2. AckedIsStored'
  <2>1. stored \subseteq stored'
    <3>1. CASE ServerPut(d)
      BY <3>1, PutFacts
    <3>2. CASE ~ ServerPut(d)
      BY <3>2 DEF User, ListenFromList, Appear, Dismiss, SendMessage, ShowSnapshot, Kill, Server,
           ServerListen, Client, ReceiveFull, ReceiveUpdate, ReceiveAck, Drop, Reconnect, server
    <3>3. QED
      BY <3>1, <3>2
  <2>2. Writes(stored) \subseteq Writes(stored')
    BY <2>1, WritesGrow
  <2>3. CASE ReceiveAck(d)
    <3>1. acked' = acked \cup {Head(toClient[d]).msg.write}
      BY <2>3 DEF ReceiveAck
    <3>2. Head(toClient[d]).msg \in stored
      BY <2>3, AnswerFacts DEF ReceiveAck
    <3>3. QED
      BY <1>1, <2>2, <3>1, <3>2 DEF AckedIsStored, Writes
  <2>4. CASE ~ ReceiveAck(d)
    <3>1. acked' = acked
      BY <2>4 DEF User, ListenFromList, Appear, Dismiss, SendMessage, ShowSnapshot, Kill, Server,
           ServerListen, ServerPut, Client, ReceiveFull, ReceiveUpdate, Drop, Reconnect
    <3>2. QED
      BY <1>1, <2>2, <3>1 DEF AckedIsStored
  <2>5. QED
    BY <2>3, <2>4
<1>3. NothingShownTwice' /\ NeverEmptyList'
  <2>1. CASE ShowSnapshot(d)
    BY <1>1, <2>1, ShowFacts DEF NothingShownTwice, NeverEmptyList
  <2>2. CASE Dismiss(d) \/ Kill(d)
    <3>1. display' = [display EXCEPT ![d] = <<>>] /\ crashed' = crashed
      BY <2>2 DEF Dismiss, Kill
    <3>2. \A e \in Devices : display'[e] = display[e] \/ display'[e] = <<>>
      BY <1>1, <3>1
    <3>3. \A k \in DOMAIN <<>> : FALSE
      BY EmptySeq
    <3>4. QED
      BY <1>1, <3>1, <3>2, <3>3 DEF NothingShownTwice, NeverEmptyList
  <2>3. CASE ~ (ShowSnapshot(d) \/ Dismiss(d) \/ Kill(d))
    <3>1. display' = display /\ crashed' = crashed
      BY <2>3 DEF User, ListenFromList, Appear, SendMessage, Server, ServerListen, ServerPut,
           Client, ReceiveFull, ReceiveUpdate, ReceiveAck, Drop, Reconnect, screens
    <3>2. QED
      BY <1>1, <3>1 DEF NothingShownTwice, NeverEmptyList
  <2>4. QED
    BY <2>1, <2>2, <2>3
<1>4. QED
  BY <1>2, <1>3

LEMMA IInvStutters == IInv /\ UNCHANGED vars => IInv'
BY DEF IInv, vars, server, network, screens, counters, Types, Apart, Waiting, Pending, Located,
       Linked, Growing, AckedIsStored, NothingShownTwice, NeverEmptyList

THEOREM Invariance == Spec => []IInv
<1>1. IInv /\ [Next]_vars => IInv'
  <2>1. IInv /\ Next => IInv'
    BY TypesNext, ApartNext, LocatedNext, LinkedNext, GrowingNext, PromisesNext DEF IInv
  <2>2. QED
    BY <2>1, IInvStutters
<1>2. QED
  BY IInvInit, <1>1, PTL DEF Spec

-----------------------------------------------------------------------------
(* The theorems.                                                           *)

\* A device without connection has nothing under way, and everything has its type.
THEOREM TypeCorrect == Spec => []TypeOK
<1>1. IInv => TypeOK
  <2> SUFFICES ASSUME IInv PROVE TypeOK
    OBVIOUS
  <2>1. Types
    BY DEF IInv
  <2>2. ASSUME NEW d \in Devices
        PROVE  /\ \A k \in DOMAIN toServer[d] :
                    toServer[d][k].kind = "put" => toServer[d][k].msg \in Message
               /\ \A k \in DOMAIN toClient[d] :
                    CASE toClient[d][k].kind = "full" -> toClient[d][k].msgs \subseteq Message
                      [] OTHER -> toClient[d][k].msg \in Message
               /\ \A k \in DOMAIN mainQueue[d] : mainQueue[d][k] \subseteq Message
    <3>1. /\ \A k \in DOMAIN toServer[d] : toServer[d][k] \in Requests
          /\ \A k \in DOMAIN toClient[d] : toClient[d][k] \in Answers
          /\ \A k \in DOMAIN mainQueue[d] : mainQueue[d][k] \in SUBSET Message
      BY <2>1, LenProperties, ElementOfSeq DEF Types
    <3>2. QED
      BY <3>1 DEF Requests, Answers
  <2>3. ASSUME NEW d \in Devices
        PROVE  /\ sdk[d].pending \in Seq(Message)
               /\ sdk[d].cache \subseteq Message
               /\ sdk[d].listening \in BOOLEAN /\ sdk[d].complete \in BOOLEAN
               /\ ~ online[d] => toServer[d] = <<>> /\ toClient[d] = <<>>
               /\ open[d] \in 0 .. MaxObservers
    <3>1. sdk[d] \in Clients /\ open[d] \in 0 .. MaxObservers
      BY <2>1 DEF Types
    <3>2. sdk[d].listening \in BOOLEAN /\ sdk[d].complete \in BOOLEAN
      BY <3>1 DEF Clients
    <3>3. QED
      BY <3>1, <3>2 DEF Clients, IInv, Linked
  <2>4. QED
    BY <2>1, <2>2, <2>3 DEF Types, TypeOK
<1>2. QED
  BY <1>1, Invariance, PTL

\* A message whose write was acknowledged stays in the conversation.
THEOREM Durability == Spec => []AckedIsStored
<1>1. IInv => AckedIsStored
  BY DEF IInv
<1>2. QED
  BY <1>1, Invariance, PTL

\* A screen without waiting events shows the view of its client: the reason is that
\* the last event on the main queue is always the present view (Growing).
THEOREM QuietScreens == Spec => []QuietScreenIsCurrent
<1>1. IInv => QuietScreenIsCurrent
  <2> SUFFICES ASSUME IInv, NEW d \in Devices, open[d] > 0, sdk[d].complete, mainQueue[d] = <<>>
               PROVE  OnList(display[d]) = Writes(Value(sdk[d]))
    BY DEF QuietScreenIsCurrent
  <2>1. Growing(d)
    BY DEF IInv
  <2>2. QED
    BY <2>1 DEF Growing, Grows
<1>2. QED
  BY <1>1, Invariance, PTL

\* getMessages never gives the chat view the empty list that would crash it.
THEOREM NoEmptyList == Spec => []NeverEmptyList
<1>1. IInv => NeverEmptyList
  BY DEF IInv
<1>2. QED
  BY <1>1, Invariance, PTL

\* A message sent again after its answer was lost is not on a screen twice.
THEOREM NoRepetition == Spec => []NothingShownTwice
<1>1. IInv => NothingShownTwice
  BY DEF IInv
<1>2. QED
  BY <1>1, Invariance, PTL

\* A message does not disappear from an open screen.
THEOREM NoForgetting == Spec => ScreensNeverForget
<1> DEFINE Keep == \A d \in Devices :
                     (open[d] > 0 /\ open'[d] > 0) => OnList(display[d]) \subseteq OnList(display'[d])
<1>1. IInv /\ Next => Keep
  <2> SUFFICES ASSUME IInv, NEW d \in Devices,
                      \/ User(d) \/ ShowSnapshot(d) \/ Kill(d) \/ Server(d) \/ Client(d)
                      \/ Drop(d) \/ Reconnect(d),
                      NEW e \in Devices, open'[e] > 0
               PROVE  OnList(display[e]) \subseteq OnList(display'[e])
    BY DEF Next
  <2>1. /\ display \in [Devices -> Seq(Entry)] /\ open \in [Devices -> 0 .. MaxObservers]
    BY DEF IInv, Types
  <2>2. CASE ShowSnapshot(d)
    BY <2>2, ShowFacts
  <2>3. CASE Dismiss(d) \/ Kill(d)
    <3>1. display' = [display EXCEPT ![d] = <<>>] /\ open' = [open EXCEPT ![d] = 0]
      BY <2>3 DEF Dismiss, Kill
    <3>2. e # d
      BY <2>1, <3>1
    <3>3. QED
      BY <2>1, <3>1, <3>2
  <2>4. CASE ~ (ShowSnapshot(d) \/ Dismiss(d) \/ Kill(d))
    BY <2>4 DEF User, ListenFromList, Appear, SendMessage, Server, ServerListen, ServerPut,
         Client, ReceiveFull, ReceiveUpdate, ReceiveAck, Drop, Reconnect, screens
  <2>5. QED
    BY <2>2, <2>3, <2>4
<1>2. IInv /\ [Next]_vars => [Keep]_vars
  BY <1>1
<1>3. QED
  BY <1>2, Invariance, PTL DEF Spec, ScreensNeverForget

-----------------------------------------------------------------------------
(* The conversation implements the board.                                  *)

Outbox(d) == {sdk[d].pending[k].write : k \in DOMAIN sdk[d].pending} \ Writes(stored)
Outboxes  == [d \in Devices |-> Outbox(d)]
Screens   == [d \in Devices |-> OnList(display[d])]

LEMMA OutboxFacts ==
  \A d : Outbox(d) = Writes(Pending(d)) \ Writes(stored)
BY DEF Outbox, Writes, Pending, Elements

\* Two messages, stored or pending, with one write are one message.
LEMMA OneMessage ==
  ASSUME IInv, NEW m \in stored \cup Waiting, NEW n \in stored \cup Waiting, m.write = n.write
  PROVE  m = n
BY DEF IInv, Apart, Distinct

LEMMA SendsWrite ==
  ASSUME IInv, NEW d \in Devices, SendMessage(d)
  PROVE  \E w \in 1 .. MaxSends : Board!Write(d, w)
<1>0. sends + 1 \in 1 .. MaxSends /\ sends \in Nat
  BY Bounds DEF SendMessage, IInv, Types
<1>1. PICK w \in 1 .. MaxSends : w = sends + 1
  BY <1>0
<1>2. \A m \in stored \cup Waiting : m.write # w
  <2>1. \A m \in stored \cup Waiting : m.write <= sends /\ m \in Message
    BY ElementOfSeq, LenProperties DEF IInv, Types, Clients, Apart, Waiting, Pending, Elements
  <2>2. QED
    BY <1>0, <1>1, <2>1 DEF Message
<1>3. w \notin Writes(stored) /\ \A e \in Devices : w \notin Writes(Pending(e))
  BY <1>2 DEF Writes, Waiting
<1>4. NewMessage(d).write = w /\ NewMessage(d) \in Message
  BY <1>1, NewMessageType DEF NewMessage
<1>5. stored' = stored /\ display' = display
  BY DEF SendMessage, server
<1>6. \A e \in Devices : e # d => Pending(e)' = Pending(e)
  BY PendingNext DEF Pending
<1>7. Pending(d)' = Pending(d) \cup {NewMessage(d)}
  <2>1. sdk[d].pending \in Seq(Message)
    BY DEF IInv, Types, Clients
  <2>2. Elements(Append(sdk[d].pending, NewMessage(d))) = Elements(sdk[d].pending) \cup {NewMessage(d)}
    BY <1>4, <2>1, ElementFacts
  <2>3. sdk'[d].pending = Append(sdk[d].pending, NewMessage(d))
    BY PendingNext
  <2>4. QED
    BY <2>2, <2>3 DEF Pending
<1>8. Outboxes' = [Outboxes EXCEPT ![d] = @ \cup {w}]
  <2>1. \A e \in Devices : Outbox(e)' = Writes(Pending(e)') \ Writes(stored')
    BY DEF Outbox, Writes, Pending, Elements
  <2>2. \A e \in Devices : e # d => Outbox(e)' = Outbox(e)
    BY <1>5, <1>6, <2>1, OutboxFacts
  <2>3. Writes(Pending(d)') = Writes(Pending(d)) \cup {w}
    BY <1>4, <1>7 DEF Writes
  <2>4. Outbox(d)' = Outbox(d) \cup {w}
    BY <1>3, <1>5, <2>1, <2>3, OutboxFacts
  <2>5. QED
    BY <2>2, <2>4 DEF Outboxes
<1>9. \A e \in Devices : w \notin Outboxes[e]
  BY <1>3, OutboxFacts DEF Outboxes
<1>10. Writes(stored') = Writes(stored) /\ Screens' = Screens
  BY <1>5 DEF Screens
<1>11. QED
  BY <1>1, <1>3, <1>8, <1>9, <1>10 DEF Board!Write, Outboxes, Outbox, Screens

LEMMA PutsPublish ==
  ASSUME IInv, NEW d \in Devices, ServerPut(d)
  PROVE  \/ \E w \in 1 .. MaxSends : Board!Publish(d, w)
         \/ UNCHANGED <<Writes(stored), Outboxes, Screens>>
<1> DEFINE m == Head(toServer[d]).msg
<1>1. m \in stored \cup Pending(d) /\ stored' = stored \cup {m} /\ m \in stored \cup Waiting
  BY PutFacts DEF Waiting
<1>2. PICK w \in 1 .. MaxSends : w = m.write
  BY HeadTypes DEF IInv, ServerPut, Message
<1>3. sdk' = sdk /\ display' = display /\ Screens' = Screens
  BY DEF ServerPut, screens, Screens
<1> HIDE DEF m
<1>4. CASE m \in stored
  <2>1. stored' = stored
    BY <1>1, <1>4
  <2>2. QED
    BY <1>3, <2>1 DEF Outboxes, Outbox
<1>5. CASE m \notin stored
  <2>1. m \in Pending(d) /\ w \notin Writes(stored)
    BY <1>1, <1>2, <1>5, OneMessage DEF Writes
  <2>2. Writes(stored') = Writes(stored) \cup {w}
    BY <1>1, <1>2 DEF Writes
  <2>3. \A e \in Devices : e # d => w \notin Writes(Pending(e))
    <3> SUFFICES ASSUME NEW e \in Devices, e # d, NEW n \in Pending(e), n.write = w PROVE FALSE
      BY DEF Writes
    <3>1. n \in stored \cup Waiting
      BY DEF Waiting
    <3>2. n = m
      BY <1>1, <1>2, <3>1, OneMessage
    <3>3. n.from = e /\ m.from = d
      BY <2>1 DEF IInv, Apart
    <3>4. QED
      BY <3>2, <3>3
  <2>4. \A e \in Devices : Outbox(e)' = IF e = d THEN Outbox(e) \ {w} ELSE Outbox(e)
    <3>1. \A e \in Devices : Outbox(e)' = Writes(Pending(e)) \ (Writes(stored) \cup {w})
      BY <1>3, <2>2 DEF Outbox, Writes, Pending, Elements
    <3>2. QED
      BY <2>3, <3>1, OutboxFacts
  <2>5. Outboxes' = [Outboxes EXCEPT ![d] = @ \ {w}]
    BY <2>4 DEF Outboxes
  <2>6. w \in Outboxes[d]
    BY <1>2, <2>1, OutboxFacts DEF Outboxes, Writes
  <2>7. QED
    BY <1>3, <2>2, <2>5, <2>6 DEF Board!Publish, Outboxes, Outbox, Screens
<1>6. QED
  BY <1>4, <1>5

LEMMA EventsShow ==
  ASSUME IInv, NEW d \in Devices, ShowSnapshot(d)
  PROVE  Board!Show(d)
<1> DEFINE more == OnList(display'[d])
<1>1. stored' = stored /\ sdk' = sdk /\ Outboxes' = Outboxes
  BY DEF ShowSnapshot, server, Outboxes, Outbox
<1>2. /\ Growing(d)' /\ OnList(display[d]) \subseteq more
      /\ \A e \in Devices \ {d} : display'[e] = display[e]
  BY ShowFacts
<1>3. more \in SUBSET (Writes(stored) \cup Outbox(d))
  <2>1. more \subseteq Writes(Value(sdk[d]))
    BY <1>1, <1>2 DEF Growing, Grows
  <2>2. Value(sdk[d]) = sdk[d].cache \cup Pending(d) /\ sdk[d].cache \subseteq stored
    BY ViewFacts
  <2>3. Writes(Value(sdk[d])) \subseteq Writes(stored) \cup Writes(Pending(d))
    BY <2>2 DEF Writes
  <2>4. QED
    BY <2>1, <2>3, OutboxFacts
<1>4. Screens' = [Screens EXCEPT ![d] = @ \cup more]
  BY <1>2 DEF Screens
<1>5. Writes(stored') = Writes(stored)
  BY <1>1
<1> HIDE DEF more
<1>6. QED
  BY <1>1, <1>3, <1>4, <1>5 DEF Board!Show, Outboxes, Outbox, Screens

\* Every step of the conversation is one of the board, or none: sending is writing,
\* storing is publishing, an event shows messages, and lost connections, answers
\* and repetitions do not exist.
THEOREM Refinement == Spec => ImplementsBoard
<1>1. Init => Board!Init
  <2> SUFFICES ASSUME Init PROVE Board!Init
    OBVIOUS
  <2>1. \A d \in Devices : sdk[d].pending = <<>> /\ display[d] = <<>> /\ stored = {}
    BY DEF Init, FreshClient
  <2>2. Writes({}) = {} /\ OnList(<<>>) = {} /\ \A k \in DOMAIN <<>> : FALSE
    BY EmptySeq DEF Writes, OnList
  <2>3. QED
    BY <2>1, <2>2 DEF Init, Board!Init
<1>2. IInv /\ [Next]_vars => [Board!Next]_(Board!vars)
  <2> DEFINE Same == UNCHANGED <<Writes(stored), Outboxes, Screens>>
  <2>1. Same => UNCHANGED Board!vars
    BY DEF Board!vars, Outboxes, Outbox, Screens
  <2> HIDE DEF Same
  <2>2. ASSUME UNCHANGED vars PROVE Same
    BY <2>2 DEF vars, server, screens, Same, Outboxes, Outbox, Screens
  <2>3. ASSUME IInv, NEW d \in Devices,
               \/ User(d) \/ ShowSnapshot(d) \/ Kill(d) \/ Server(d) \/ Client(d)
               \/ Drop(d) \/ Reconnect(d)
        PROVE  Board!Next \/ Same
    <3>1. CASE SendMessage(d)
      <4>1. PICK m \in 1 .. MaxSends : Board!Write(d, m)
        BY <2>3, <3>1, SendsWrite
      <4>2. QED
        BY <4>1 DEF Board!Next
    <3>2. CASE ServerPut(d)
      <4>1. CASE UNCHANGED <<Writes(stored), Outboxes, Screens>>
        BY <4>1 DEF Same
      <4>2. CASE \E m \in 1 .. MaxSends : Board!Publish(d, m)
        BY <4>2 DEF Board!Next
      <4>3. QED
        BY <2>3, <3>2, <4>1, <4>2, PutsPublish
    <3>3. CASE ShowSnapshot(d)
      BY <2>3, <3>3, EventsShow DEF Board!Next
    <3>4. CASE Dismiss(d) \/ Kill(d)
      <4>1. stored' = stored /\ display' = [display EXCEPT ![d] = <<>>]
        BY <3>4 DEF Dismiss, Kill, server
      <4>2. Screens' = [Screens EXCEPT ![d] = {}]
        <5>1. display \in [Devices -> Seq(Entry)] /\ OnList(<<>>) = {}
          BY <2>3, EmptySeq DEF IInv, Types, OnList
        <5>2. QED
          BY <4>1, <5>1 DEF Screens
      <4>3. CASE Dismiss(d)
        <5>1. Outboxes' = Outboxes
          BY <4>1, <4>3 DEF Dismiss, Outboxes, Outbox
        <5>2. Board!Leave(d)
          BY <4>1, <4>2, <5>1 DEF Board!Leave, Outboxes, Outbox, Screens
        <5>3. QED
          BY <5>2 DEF Board!Next
      <4>4. CASE Kill(d)
        <5>1. \A e \in Devices : Outbox(e)' = IF e = d THEN {} ELSE Outbox(e)
          <6>1. \A e \in Devices : sdk'[e].pending = IF e = d THEN <<>> ELSE sdk[e].pending
            BY <2>3, <4>4, PendingNext
          <6>2. \A k \in DOMAIN <<>> : FALSE
            BY EmptySeq
          <6>3. QED
            BY <4>1, <6>1, <6>2 DEF Outbox
        <5>2. Outboxes' = [Outboxes EXCEPT ![d] = {}]
          BY <5>1 DEF Outboxes
        <5>3. Board!End(d)
          BY <4>1, <4>2, <5>2 DEF Board!End, Outboxes, Outbox, Screens
        <5>4. QED
          BY <5>3 DEF Board!Next
      <4>5. QED
        BY <3>4, <4>3, <4>4
    <3>5. CASE ReceiveAck(d)
      <4>1. stored' = stored /\ Screens' = Screens
        BY <3>5 DEF ReceiveAck, server, Screens
      <4>2. \A e \in Devices : Pending(e)' \subseteq Pending(e) /\ Pending(e) \subseteq Pending(e)' \cup stored
        BY <2>3, <3>5, AckedArePending
      <4>3. \A e \in Devices : Outbox(e)' = Outbox(e)
        <5>1. \A e \in Devices : Outbox(e)' = Writes(Pending(e)') \ Writes(stored)
          BY <4>1 DEF Outbox, Writes, Pending, Elements
        <5>2. \A e \in Devices : Writes(Pending(e)') \ Writes(stored) = Writes(Pending(e)) \ Writes(stored)
          BY <4>2 DEF Writes
        <5>3. QED
          BY <5>1, <5>2, OutboxFacts
      <4>4. QED
        BY <4>1, <4>3 DEF Same, Outboxes
    <3>6. CASE \/ ListenFromList(d) \/ Appear(d) \/ ServerListen(d) \/ ReceiveFull(d)
               \/ ReceiveUpdate(d) \/ Drop(d) \/ Reconnect(d)
      <4>1. stored' = stored /\ Screens' = Screens
        BY <3>6 DEF ListenFromList, Appear, ServerListen, ReceiveFull, ReceiveUpdate, Drop, Reconnect,
             server, screens, Screens
      <4>2. \A e \in Devices : sdk'[e].pending = sdk[e].pending
        BY <2>3, <3>6, PendingNext DEF Server
      <4>3. QED
        BY <4>1, <4>2 DEF Same, Outboxes, Outbox
    <3>7. QED
      BY <2>3, <3>1, <3>2, <3>3, <3>4, <3>5, <3>6 DEF User, Server, Client
  <2>4. QED
    BY <2>1, <2>2, <2>3 DEF Next
<1>3. QED
  BY <1>1, <1>2, Invariance, PTL DEF Spec, ImplementsBoard, Board!Spec
=============================================================================
