--------------------------- MODULE ChannelsProofs ---------------------------
(***************************************************************************)
(* Proofs about Channels for any keys and bounds.                          *)
(*                                                                         *)
(* The inductive invariant follows a key from "Continue" to the stored     *)
(* list: one join is under way at a time, and what it is about to write    *)
(* lacks nothing of what is stored; the server and a client that listens   *)
(* agree once what is under way has arrived; and whatever changes the      *)
(* client's view leaves a refresh of the list waiting.                     *)
(***************************************************************************)
EXTENDS Channels, SequenceTheorems, TLAPS

Calls    == [kind : {"readForJoin"}, key : Keys] \cup [kind : {"readForList"}]
              \cup [kind : {"set"}, list : Lists, key : Keys]
Blocks   == [kind : {"event", "fetch"}] \cup [kind : {"apply"}, list : Lists]
              \cup [kind : {"done"}, key : Keys, ok : BOOLEAN]
Requests == [kind : {"listen"}] \cup [kind : {"put"}, write : Write]
Answers  == [kind : {"data"}, list : Lists] \cup [kind : {"ack"}, write : Write, ok : BOOLEAN]
Clients  == [complete : BOOLEAN, cache : Lists, pending : Seq(Write)]

-----------------------------------------------------------------------------
(* What is in a queue.                                                     *)

Elements(q) == {q[n] : n \in DOMAIN q}

Has(q, kinds) == \E e \in Elements(q) : e.kind \in kinds

HasOne(q, kinds) ==
  \A m, n \in DOMAIN q : q[m].kind \in kinds /\ q[n].kind \in kinds => m = n

\* The last list of answers q is this one, if there is a list in it.
LastData(q, list) ==
  \A n \in DOMAIN q : q[n].kind = "data" /\ q[n].list # list
                        => \E m \in DOMAIN q : m > n /\ q[m] = Data(list)

\* The last list that q is about to show has these keys.
LastApply(q, keys) ==
  \E n \in DOMAIN q : /\ q[n].kind = "apply" /\ BagToSet(q[n].list) = keys
                      /\ \A m \in DOMAIN q : m > n => q[m].kind # "apply"

-----------------------------------------------------------------------------
(* The invariant.                                                          *)

Types ==
  /\ named \in BOOLEAN /\ watching \in BOOLEAN /\ online \in BOOLEAN /\ hud \in BOOLEAN
  /\ stored \in Lists /\ items \subseteq Keys /\ joined \subseteq Keys
  /\ toServer \in Seq(Requests) /\ toClient \in Seq(Answers)
  /\ client \in Clients
  /\ dbQueue \in Seq(Calls) /\ mainQueue \in Seq(Blocks)
  /\ screen \in {"list", "join", "killed", "crashed"}
  /\ observers \in 0 .. MaxObservers

\* An app that does not run has left nothing behind; one that runs observes.
Stopped ==
  /\ Running => observers > 0
  /\ ~ Running => /\ client = FreshClient /\ dbQueue = <<>> /\ mainQueue = <<>>
                  /\ toServer = <<>> /\ toClient = <<>> /\ ~ watching /\ ~ hud

\* One join is under way, and the HUD blocks the screen until its answer is shown.
OneJoin ==
  /\ hud => screen = "join" /\ observers < MaxObservers
  /\ Len(client.pending) <= 1
  /\ HasOne(dbQueue, {"readForJoin", "set"})
  /\ HasOne(mainQueue, {"done"})
  /\ Has(dbQueue, {"readForJoin", "set"}) => hud /\ client.pending = <<>> /\ ~ Has(mainQueue, {"done"})
  /\ client.pending # <<>> => hud /\ ~ Has(mainQueue, {"done"})
  /\ Has(mainQueue, {"done"}) => hud

\* A join adds its key to all that is stored.
Adds(w) == BagToSet(stored) \cup {w.key} \subseteq BagToSet(w.list)

Kept ==
  /\ \A c \in Elements(dbQueue) : c.kind = "set" => client.complete /\ Adds(c)
  /\ \A w \in Elements(client.pending) : client.complete /\ Adds(w)
  /\ \A b \in Elements(mainQueue) : b.kind = "done" /\ b.ok => b.key \in BagToSet(stored)
  /\ joined \subseteq BagToSet(stored)

\* The requests under way.
Asking ==
  /\ \/ toServer = <<>>
     \/ toServer = <<Listen>>
     \/ client.pending # <<>> /\ toServer = <<Put(client.pending[1])>>
     \/ client.pending # <<>> /\ toServer = <<Listen, Put(client.pending[1])>>
  /\ Running /\ online => watching \/ (toServer # <<>> /\ toServer[1] = Listen)
  /\ watching => online /\ (toServer # <<>> => toServer[1] # Listen)
  /\ ~ online => toServer = <<>>

\* The answers under way, and the cache that awaits them.
Telling ==
  /\ ~ watching => toClient = <<>>
  /\ \A n \in DOMAIN toClient : toClient[n].kind = "ack" => n = Len(toClient)
  /\ \A a \in Elements(toClient) : a.kind = "ack" =>
       /\ toServer = <<>> /\ client.pending # <<>> /\ a.write = client.pending[1]
       /\ a.ok => stored = a.write.list
  /\ LastData(toClient, stored)
  /\ client.pending = <<>> =>
       /\ \A a \in Elements(toClient) : a.kind = "data" => a.list = stored
       /\ client.complete => client.cache = stored
  /\ watching => (client.complete /\ client.cache = stored) \/ Data(stored) \in Elements(toClient)

\* The list shows the client's view, or is about to be refreshed.
Following ==
  Running /\ KeysComplete(client) =>
    \/ Has(mainQueue, {"event", "fetch"}) \/ Has(dbQueue, {"readForList"})
    \/ LastApply(mainQueue, BagToSet(Value(client)))
    \/ items = BagToSet(Value(client)) /\ ~ Has(mainQueue, {"apply"})

IInv == Types /\ Stopped /\ OneJoin /\ Kept /\ Asking /\ Telling /\ Following


-----------------------------------------------------------------------------
(* Lemmas about queues.                                                    *)

LEMMA AppendFacts ==
  ASSUME NEW S, NEW q \in Seq(S), NEW e \in S
  PROVE  /\ Append(q, e) \in Seq(S) /\ Append(q, e) # <<>>
         /\ Elements(Append(q, e)) = Elements(q) \cup {e}
         /\ \A kinds : Has(Append(q, e), kinds) <=> Has(q, kinds) \/ e.kind \in kinds
         /\ \A kinds : HasOne(q, kinds) /\ (e.kind \notin kinds \/ ~ Has(q, kinds))
                         => HasOne(Append(q, e), kinds)
<1> DEFINE new == Append(q, e)
<1>1. /\ new \in Seq(S) /\ new # <<>>
      /\ Len(q) \in Nat /\ DOMAIN q = 1 .. Len(q) /\ DOMAIN new = 1 .. Len(q) + 1
      /\ \A n \in 1 .. Len(q) : new[n] = q[n]
      /\ new[Len(q) + 1] = e
  BY AppendProperties, LenProperties
<1> HIDE DEF new
<1>2. Elements(new) = Elements(q) \cup {e}
  BY <1>1 DEF Elements
<1>3. ASSUME NEW kinds PROVE Has(new, kinds) <=> Has(q, kinds) \/ e.kind \in kinds
  BY <1>2 DEF Has
<1>4. ASSUME NEW kinds, HasOne(q, kinds), e.kind \notin kinds \/ ~ Has(q, kinds)
      PROVE  HasOne(new, kinds)
  <2>1. \A n \in DOMAIN q : q[n].kind \in kinds => Has(q, kinds)
    BY DEF Has, Elements
  <2>2. QED
    BY <1>1, <1>4, <2>1 DEF HasOne
<1>5. QED
  BY <1>1, <1>2, <1>3, <1>4 DEF new

\* An element of another kind.
LEMMA AppendOther ==
  ASSUME NEW S, NEW q \in Seq(S), NEW e \in S, NEW kinds, e.kind \notin kinds
  PROVE  /\ Has(Append(q, e), kinds) => Has(q, kinds)
         /\ HasOne(q, kinds) => HasOne(Append(q, e), kinds)
         /\ \A x \in Elements(Append(q, e)) : x.kind \in kinds => x \in Elements(q)
<1>1. Elements(Append(q, e)) = Elements(q) \cup {e}
  BY AppendFacts
<1>2. QED
  BY <1>1, AppendFacts DEF Has

LEMMA TailFacts ==
  ASSUME NEW S, NEW q \in Seq(S), q # <<>>
  PROVE  /\ Head(q) \in S /\ Tail(q) \in Seq(S) /\ Head(q) \in Elements(q) /\ Head(q) = q[1]
         /\ Elements(q) = Elements(Tail(q)) \cup {Head(q)}
         /\ \A kinds : Has(q, kinds) <=> Head(q).kind \in kinds \/ Has(Tail(q), kinds)
         /\ \A kinds : HasOne(q, kinds) =>
              HasOne(Tail(q), kinds) /\ ~ (Head(q).kind \in kinds /\ Has(Tail(q), kinds))
<1> DEFINE new == Tail(q)
<1>1. /\ Head(q) \in S /\ new \in Seq(S) /\ Head(q) = q[1]
      /\ Len(q) \in Nat \ {0} /\ DOMAIN q = 1 .. Len(q) /\ DOMAIN new = 1 .. Len(q) - 1
      /\ \A n \in 1 .. Len(q) - 1 : new[n] = q[n + 1]
  BY HeadTailProperties, EmptySeq, LenProperties
<1> HIDE DEF new
<1>2. Elements(q) = Elements(new) \cup {Head(q)}
  <2>1. \A n \in 1 .. Len(q) : n # 1 => n - 1 \in 1 .. Len(q) - 1 /\ (n - 1) + 1 = n
    BY <1>1
  <2>2. \A n \in 1 .. Len(q) - 1 : n + 1 \in 1 .. Len(q)
    BY <1>1
  <2>3. ASSUME NEW n \in DOMAIN q PROVE q[n] \in Elements(new) \cup {Head(q)}
    <3>1. CASE n = 1
      BY <1>1, <3>1
    <3>2. CASE n # 1
      <4>1. n - 1 \in DOMAIN new /\ q[n] = new[n - 1]
        BY <1>1, <2>1, <3>2
      <4>2. QED
        BY <4>1 DEF Elements
    <3>3. QED
      BY <3>1, <3>2
  <2>4. \A n \in DOMAIN new : new[n] \in Elements(q)
    BY <1>1, <2>2 DEF Elements
  <2>5. 1 \in DOMAIN q
    BY <1>1
  <2>6. Head(q) \in Elements(q)
    BY <1>1, <2>5 DEF Elements
  <2>7. Elements(q) \subseteq Elements(new) \cup {Head(q)}
    BY <2>3 DEF Elements
  <2>8. Elements(new) \subseteq Elements(q)
    BY <2>4 DEF Elements
  <2>9. QED
    BY <2>6, <2>7, <2>8
<1>3. ASSUME NEW kinds PROVE Has(q, kinds) <=> Head(q).kind \in kinds \/ Has(new, kinds)
  BY <1>2 DEF Has
<1>4. ASSUME NEW kinds, HasOne(q, kinds)
      PROVE  HasOne(new, kinds) /\ ~ (Head(q).kind \in kinds /\ Has(new, kinds))
  <2>1. \A n \in 1 .. Len(q) - 1 : n + 1 \in 1 .. Len(q) /\ n + 1 # 1
    BY <1>1
  <2>2. 1 \in 1 .. Len(q)
    BY <1>1
  <2>3. ASSUME NEW m \in DOMAIN new, NEW n \in DOMAIN new, new[m].kind \in kinds, new[n].kind \in kinds
        PROVE  m = n
    <3>1. m + 1 = n + 1
      BY <1>1, <1>4, <2>1, <2>3 DEF HasOne
    <3>2. QED
      BY <1>1, <3>1
  <2>4. ASSUME NEW n \in DOMAIN new, new[n].kind \in kinds PROVE Head(q).kind \notin kinds
    BY <1>1, <1>4, <2>1, <2>2, <2>4 DEF HasOne
  <2>5. QED
    BY <2>3, <2>4 DEF HasOne, Has, Elements
<1>5. QED
  BY <1>1, <1>2, <1>3, <1>4 DEF new

LEMMA ConcatFacts ==
  ASSUME NEW S, NEW q \in Seq(S), NEW r \in Seq(S)
  PROVE  /\ q \o r \in Seq(S)
         /\ Elements(q \o r) = Elements(q) \cup Elements(r)
         /\ \A kinds : Has(q \o r, kinds) <=> Has(q, kinds) \/ Has(r, kinds)
         /\ \A kinds : HasOne(q, kinds) /\ ~ Has(r, kinds) => HasOne(q \o r, kinds)
<1> DEFINE new == q \o r
<1>1. /\ new \in Seq(S)
      /\ Len(q) \in Nat /\ Len(r) \in Nat /\ DOMAIN q = 1 .. Len(q) /\ DOMAIN r = 1 .. Len(r)
      /\ DOMAIN new = 1 .. Len(q) + Len(r)
      /\ \A n \in 1 .. Len(q) + Len(r) : new[n] = IF n <= Len(q) THEN q[n] ELSE r[n - Len(q)]
  BY ConcatProperties, LenProperties
<1> HIDE DEF new
<1>2. Elements(new) = Elements(q) \cup Elements(r)
  <2>1. \A n \in 1 .. Len(q) : n \in DOMAIN new /\ new[n] = q[n]
    BY <1>1
  <2>2. \A n \in 1 .. Len(r) : Len(q) + n \in DOMAIN new /\ new[Len(q) + n] = r[n]
    BY <1>1
  <2>3. \A n \in DOMAIN new : new[n] \in Elements(q) \cup Elements(r)
    <3> SUFFICES ASSUME NEW n \in DOMAIN new PROVE new[n] \in Elements(q) \cup Elements(r)
      OBVIOUS
    <3>1. CASE n <= Len(q)
      BY <1>1, <3>1 DEF Elements
    <3>2. CASE ~ n <= Len(q)
      <4>1. n - Len(q) \in 1 .. Len(r)
        BY <1>1, <3>2
      <4>2. QED
        BY <1>1, <3>2, <4>1 DEF Elements
    <3>3. QED
      BY <3>1, <3>2
  <2>4. Elements(q) \cup Elements(r) \subseteq Elements(new)
    <3>1. \A n \in DOMAIN q : q[n] \in Elements(new)
      BY <1>1, <2>1 DEF Elements
    <3>2. ASSUME NEW n \in DOMAIN r PROVE r[n] \in Elements(new)
      <4>1. Len(q) + n \in DOMAIN new /\ r[n] = new[Len(q) + n]
        BY <1>1, <2>2
      <4>2. QED
        BY <4>1 DEF Elements
    <3>3. QED
      BY <3>1, <3>2 DEF Elements
  <2>5. Elements(new) \subseteq Elements(q) \cup Elements(r)
    BY <2>3 DEF Elements
  <2>6. QED
    BY <2>4, <2>5
<1>3. ASSUME NEW kinds PROVE Has(new, kinds) <=> Has(q, kinds) \/ Has(r, kinds)
  BY <1>2 DEF Has
<1>4. ASSUME NEW kinds, HasOne(q, kinds), ~ Has(r, kinds) PROVE HasOne(new, kinds)
  <2>1. \A n \in DOMAIN new : new[n].kind \in kinds => n \in DOMAIN q /\ new[n] = q[n]
    <3> SUFFICES ASSUME NEW n \in DOMAIN new, new[n].kind \in kinds
                 PROVE  n \in DOMAIN q /\ new[n] = q[n]
      OBVIOUS
    <3>1. CASE n <= Len(q)
      BY <1>1, <3>1
    <3>2. CASE ~ n <= Len(q)
      <4>1. n - Len(q) \in 1 .. Len(r) /\ new[n] = r[n - Len(q)]
        BY <1>1, <3>2
      <4>2. QED
        BY <1>1, <1>4, <4>1 DEF Has, Elements
    <3>3. QED
      BY <3>1, <3>2
  <2>2. QED
    BY <1>4, <2>1 DEF HasOne
<1>5. QED
  BY <1>1, <1>2, <1>3, <1>4 DEF new

LEMMA EmptyFacts ==
  /\ \A S : <<>> \in Seq(S)
  /\ Elements(<<>>) = {} /\ \A kinds : ~ Has(<<>>, kinds) /\ HasOne(<<>>, kinds)
  /\ DOMAIN <<>> = {} /\ Len(<<>>) = 0
<1>1. DOMAIN <<>> = {} /\ Len(<<>>) = 0 /\ \A S : <<>> \in Seq(S)
  BY EmptySeq
<1>2. Elements(<<>>) = {}
  BY <1>1 DEF Elements
<1>3. QED
  BY <1>1, <1>2 DEF Has, HasOne

LEMMA OneElement ==
  ASSUME NEW e
  PROVE  /\ Elements(<<e>>) = {e} /\ <<e>> # <<>> /\ Len(<<e>>) = 1 /\ <<e>>[1] = e
         /\ Head(<<e>>) = e /\ Tail(<<e>>) = <<>> /\ DOMAIN <<e>> = {1}
         /\ \A S : e \in S => <<e>> \in Seq(S)
<1>1. <<e>> # <<>> /\ Len(<<e>>) = 1 /\ <<e>>[1] = e /\ DOMAIN <<e>> = {1}
  OBVIOUS
<1>2. Head(<<e>>) = e /\ Tail(<<e>>) = <<>>
  OBVIOUS
<1>3. QED
  BY <1>1, <1>2 DEF Elements


LEMMA TwoElements ==
  ASSUME NEW a, NEW b
  PROVE  /\ <<a>> \o <<b>> = <<a, b>> /\ Append(<<a>>, b) = <<a, b>>
         /\ <<a, b>> # <<>> /\ <<a, b>>[1] = a /\ Tail(<<a, b>>) = <<b>>
<1> DEFINE S == {a, b}
<1>1. /\ <<a>> \in Seq(S) /\ <<b>> \in Seq(S) /\ <<a, b>> \in Seq(S) /\ b \in S
      /\ Len(<<a>>) = 1 /\ Len(<<a, b>>) = 2 /\ <<a, b>>[1] = a /\ <<a, b>>[2] = b /\ <<a>>[1] = a
  OBVIOUS
<1> HIDE DEF S
<1>2. /\ Append(<<a>>, b) \in Seq(S) /\ Len(Append(<<a>>, b)) = 2
      /\ Append(<<a>>, b)[1] = a /\ Append(<<a>>, b)[2] = b
  BY <1>1, AppendProperties
<1>3. \A i \in 1 .. 2 : i = 1 \/ i = 2
  OBVIOUS
<1>4. Append(<<a>>, b) = <<a, b>>
  BY <1>1, <1>2, <1>3, SeqEqual
<1>5. <<a>> \o <<b>> = Append(<<a>>, b)
  BY <1>1, AppendIsConcat
<1>6. <<a, b>> # <<>> /\ Tail(<<a, b>>) = <<b>>
  OBVIOUS
<1>7. QED
  BY <1>1, <1>4, <1>5, <1>6

LEMMA LastDataFacts ==
  ASSUME NEW S, NEW q \in Seq(S), NEW list
  PROVE  /\ LastData(<<>>, list)
         /\ \A e \in S : e.kind = "ack" /\ LastData(q, list) => LastData(Append(q, e), list)
         /\ Data(list) \in S => LastData(Append(q, Data(list)), list)
         /\ q # <<>> /\ LastData(q, list) =>
              /\ LastData(Tail(q), list)
              /\ Head(q).kind = "data" /\ Head(q).list # list => Data(list) \in Elements(Tail(q))
<1>1. LastData(<<>>, list)
  BY EmptyFacts DEF LastData
<1>2. ASSUME NEW e \in S
      PROVE  /\ Len(q) \in Nat /\ DOMAIN q = 1 .. Len(q)
             /\ DOMAIN Append(q, e) = 1 .. Len(q) + 1
             /\ \A n \in 1 .. Len(q) : Append(q, e)[n] = q[n]
             /\ Append(q, e)[Len(q) + 1] = e
  BY AppendProperties, LenProperties
<1>3. ASSUME NEW e \in S, e.kind = "ack", LastData(q, list) PROVE LastData(Append(q, e), list)
  <2> DEFINE new == Append(q, e)
  <2>1. /\ Len(q) \in Nat /\ DOMAIN q = 1 .. Len(q) /\ DOMAIN new = 1 .. Len(q) + 1
        /\ \A n \in 1 .. Len(q) : new[n] = q[n]
        /\ new[Len(q) + 1] = e
    BY <1>2
  <2> HIDE DEF new
  <2>2. ASSUME NEW n \in DOMAIN new, new[n].kind = "data", new[n].list # list
        PROVE  \E m \in DOMAIN new : m > n /\ new[m] = Data(list)
    <3>1. n # Len(q) + 1
      BY <1>3, <2>1, <2>2
    <3>2. n \in DOMAIN q /\ new[n] = q[n]
      BY <2>1, <3>1
    <3>3. PICK m \in DOMAIN q : m > n /\ q[m] = Data(list)
      BY <1>3, <2>2, <3>2 DEF LastData
    <3>4. m \in DOMAIN new /\ new[m] = q[m]
      BY <2>1
    <3>5. QED
      BY <3>3, <3>4
  <2>3. QED
    BY <2>2 DEF LastData, new
<1>4. ASSUME Data(list) \in S PROVE LastData(Append(q, Data(list)), list)
  <2> DEFINE new == Append(q, Data(list))
  <2>1. /\ Len(q) \in Nat /\ DOMAIN new = 1 .. Len(q) + 1 /\ new[Len(q) + 1] = Data(list)
    BY <1>2, <1>4
  <2> HIDE DEF new
  <2>2. ASSUME NEW n \in DOMAIN new, new[n].list # list
        PROVE  \E m \in DOMAIN new : m > n /\ new[m] = Data(list)
    <3>1. Data(list).list = list
      BY DEF Data
    <3>2. n # Len(q) + 1
      BY <2>1, <2>2, <3>1
    <3>3. Len(q) + 1 \in DOMAIN new /\ Len(q) + 1 > n
      BY <2>1, <3>2
    <3>4. QED
      BY <2>1, <3>3
  <2>3. QED
    BY <2>2 DEF LastData, new
<1>5. ASSUME q # <<>>, LastData(q, list)
      PROVE  /\ LastData(Tail(q), list)
             /\ Head(q).kind = "data" /\ Head(q).list # list => Data(list) \in Elements(Tail(q))
  <2> DEFINE new == Tail(q)
  <2>1. /\ Head(q) = q[1]
        /\ Len(q) \in Nat \ {0} /\ DOMAIN q = 1 .. Len(q) /\ DOMAIN new = 1 .. Len(q) - 1
        /\ \A n \in 1 .. Len(q) - 1 : new[n] = q[n + 1]
    BY <1>5, HeadTailProperties, EmptySeq, LenProperties
  <2> HIDE DEF new
  <2>2. ASSUME NEW n \in DOMAIN q, q[n].kind = "data", q[n].list # list
        PROVE  \E m \in DOMAIN new : m + 1 > n /\ new[m] = Data(list)
    <3>1. PICK m \in DOMAIN q : m > n /\ q[m] = Data(list)
      BY <1>5, <2>2 DEF LastData
    <3>2. m - 1 \in DOMAIN new /\ (m - 1) + 1 = m /\ m - 1 \in 1 .. Len(q) - 1
      BY <2>1, <3>1
    <3>3. new[m - 1] = q[m]
      BY <2>1, <3>2
    <3>4. QED
      BY <3>1, <3>2, <3>3
  <2>3. ASSUME NEW n \in DOMAIN new, new[n].kind = "data", new[n].list # list
        PROVE  \E m \in DOMAIN new : m > n /\ new[m] = Data(list)
    <3>1. n \in Nat /\ n + 1 \in DOMAIN q /\ new[n] = q[n + 1]
      BY <2>1
    <3>2. PICK m \in DOMAIN new : m + 1 > n + 1 /\ new[m] = Data(list)
      BY <2>2, <2>3, <3>1
    <3>3. m > n
      BY <2>1, <3>1, <3>2
    <3>4. QED
      BY <3>2, <3>3
  <2>4. 1 \in DOMAIN q
    BY <2>1
  <2>5. Head(q).kind = "data" /\ Head(q).list # list => Data(list) \in Elements(new)
    BY <2>1, <2>2, <2>4 DEF Elements
  <2>6. QED
    BY <2>3, <2>5 DEF LastData, new
<1>6. QED
  BY <1>1, <1>3, <1>4, <1>5

LEMMA LastApplyFacts ==
  ASSUME NEW S, NEW q \in Seq(S), NEW keys
  PROVE  /\ \A r \in Seq(S) : LastApply(q, keys) /\ ~ Has(r, {"apply"}) => LastApply(q \o r, keys)
         /\ \A e \in S : LastApply(q, keys) /\ e.kind # "apply" => LastApply(Append(q, e), keys)
         /\ \A e \in S : e.kind = "apply" /\ BagToSet(e.list) = keys => LastApply(Append(q, e), keys)
         /\ q # <<>> /\ LastApply(q, keys) =>
              \/ LastApply(Tail(q), keys)
              \/ /\ Head(q).kind = "apply" /\ BagToSet(Head(q).list) = keys
                 /\ ~ Has(Tail(q), {"apply"})
<1>1. ASSUME NEW r \in Seq(S), LastApply(q, keys), ~ Has(r, {"apply"})
      PROVE  LastApply(q \o r, keys)
  <2> DEFINE new == q \o r
  <2>1. /\ Len(q) \in Nat /\ Len(r) \in Nat /\ DOMAIN q = 1 .. Len(q) /\ DOMAIN r = 1 .. Len(r)
        /\ DOMAIN new = 1 .. Len(q) + Len(r)
        /\ \A n \in 1 .. Len(q) + Len(r) : new[n] = IF n <= Len(q) THEN q[n] ELSE r[n - Len(q)]
    BY ConcatProperties, LenProperties
  <2> HIDE DEF new
  <2>2. PICK n \in DOMAIN q : /\ q[n].kind = "apply" /\ BagToSet(q[n].list) = keys
                              /\ \A m \in DOMAIN q : m > n => q[m].kind # "apply"
    BY <1>1 DEF LastApply
  <2>3. n \in DOMAIN new /\ new[n] = q[n]
    BY <2>1
  <2>4. ASSUME NEW m \in DOMAIN new, m > n PROVE new[m].kind # "apply"
    <3>1. CASE m <= Len(q)
      <4>1. m \in DOMAIN q /\ new[m] = q[m]
        BY <2>1, <3>1
      <4>2. QED
        BY <2>2, <2>4, <4>1
    <3>2. CASE ~ m <= Len(q)
      <4>1. m - Len(q) \in DOMAIN r /\ new[m] = r[m - Len(q)]
        BY <2>1, <3>2
      <4>2. QED
        BY <1>1, <4>1 DEF Has, Elements
    <3>3. QED
      BY <3>1, <3>2
  <2>5. QED
    BY <2>2, <2>3, <2>4 DEF LastApply, new
<1>2. ASSUME NEW e \in S
      PROVE  /\ Len(q) \in Nat /\ DOMAIN q = 1 .. Len(q)
             /\ DOMAIN Append(q, e) = 1 .. Len(q) + 1
             /\ \A n \in 1 .. Len(q) : Append(q, e)[n] = q[n]
             /\ Append(q, e)[Len(q) + 1] = e
  BY AppendProperties, LenProperties
<1>3. ASSUME NEW e \in S, LastApply(q, keys), e.kind # "apply" PROVE LastApply(Append(q, e), keys)
  <2> DEFINE new == Append(q, e)
  <2>1. /\ Len(q) \in Nat /\ DOMAIN q = 1 .. Len(q) /\ DOMAIN new = 1 .. Len(q) + 1
        /\ \A n \in 1 .. Len(q) : new[n] = q[n]
        /\ new[Len(q) + 1] = e
    BY <1>2
  <2> HIDE DEF new
  <2>2. PICK n \in DOMAIN q : /\ q[n].kind = "apply" /\ BagToSet(q[n].list) = keys
                              /\ \A m \in DOMAIN q : m > n => q[m].kind # "apply"
    BY <1>3 DEF LastApply
  <2>3. n \in DOMAIN new /\ new[n] = q[n]
    BY <2>1
  <2>4. \A m \in DOMAIN new : m = Len(q) + 1 \/ (m \in DOMAIN q /\ new[m] = q[m])
    BY <2>1
  <2>5. QED
    BY <1>3, <2>1, <2>2, <2>3, <2>4 DEF LastApply, new
<1>4. ASSUME NEW e \in S, e.kind = "apply", BagToSet(e.list) = keys PROVE LastApply(Append(q, e), keys)
  <2> DEFINE new == Append(q, e)
  <2>1. Len(q) \in Nat /\ DOMAIN new = 1 .. Len(q) + 1 /\ new[Len(q) + 1] = e
    BY <1>2
  <2> HIDE DEF new
  <2>2. Len(q) + 1 \in DOMAIN new /\ \A m \in DOMAIN new : ~ m > Len(q) + 1
    BY <2>1
  <2>3. QED
    BY <1>4, <2>1, <2>2 DEF LastApply, new
<1>5. ASSUME q # <<>>, LastApply(q, keys)
      PROVE  \/ LastApply(Tail(q), keys)
             \/ /\ Head(q).kind = "apply" /\ BagToSet(Head(q).list) = keys
                /\ ~ Has(Tail(q), {"apply"})
  <2> DEFINE new == Tail(q)
  <2>1. /\ Head(q) = q[1]
        /\ Len(q) \in Nat \ {0} /\ DOMAIN q = 1 .. Len(q) /\ DOMAIN new = 1 .. Len(q) - 1
        /\ \A n \in 1 .. Len(q) - 1 : new[n] = q[n + 1]
    BY <1>5, HeadTailProperties, EmptySeq, LenProperties
  <2> HIDE DEF new
  <2>2. PICK n \in DOMAIN q : /\ q[n].kind = "apply" /\ BagToSet(q[n].list) = keys
                              /\ \A m \in DOMAIN q : m > n => q[m].kind # "apply"
    BY <1>5 DEF LastApply
  <2>3. ASSUME NEW m \in DOMAIN new, m + 1 > n PROVE new[m].kind # "apply"
    <3>1. m + 1 \in DOMAIN q /\ new[m] = q[m + 1]
      BY <2>1
    <3>2. QED
      BY <2>2, <2>3, <3>1
  <2>4. CASE n = 1
    <3>1. \A m \in DOMAIN new : m + 1 > n
      BY <2>1, <2>4
    <3>2. ~ Has(new, {"apply"})
      BY <2>3, <3>1 DEF Has, Elements
    <3>3. QED
      BY <2>1, <2>2, <2>4, <3>2 DEF new
  <2>5. CASE n # 1
    <3>1. n - 1 \in DOMAIN new /\ new[n - 1] = q[n] /\ \A m \in DOMAIN new : m > n - 1 => m + 1 > n
      BY <2>1, <2>5
    <3>2. LastApply(new, keys)
      BY <2>2, <2>3, <3>1 DEF LastApply
    <3>3. QED
      BY <3>2 DEF new
  <2>6. QED
    BY <2>4, <2>5
<1>6. QED
  BY <1>1, <1>3, <1>4, <1>5

-----------------------------------------------------------------------------
(* Lemmas about lists of keys and the client.                              *)

LEMMA ListFacts ==
  /\ EmptyBag \in Lists /\ BagToSet(EmptyBag) = {}
  /\ \A list \in Lists : /\ BagToSet(list) \subseteq Keys
                         /\ Uniqued(list) \in Lists
                         /\ BagToSet(Uniqued(list)) = BagToSet(list)
  /\ \A list \in Lists, k \in Keys :
       /\ Uniqued(list) (+) SetToBag({k}) \in Lists
       /\ BagToSet(Uniqued(list) (+) SetToBag({k})) = BagToSet(list) \cup {k}
<1>1. ASSUME NEW S \in SUBSET Keys PROVE SetToBag(S) \in Lists /\ BagToSet(SetToBag(S)) = S
  <2>1. SetToBag(S) \in [S -> 1 .. 2] /\ DOMAIN SetToBag(S) = S
    BY DEF SetToBag
  <2>2. QED
    BY <2>1 DEF Lists, BagToSet
<1>2. ASSUME NEW list \in Lists
      PROVE  /\ BagToSet(list) \subseteq Keys /\ Uniqued(list) = SetToBag(BagToSet(list))
  BY DEF Lists, BagToSet, Uniqued
<1>3. ASSUME NEW list \in Lists, NEW k \in Keys
      PROVE  /\ Uniqued(list) (+) SetToBag({k}) \in Lists
             /\ BagToSet(Uniqued(list) (+) SetToBag({k})) = BagToSet(list) \cup {k}
  <2> DEFINE S   == BagToSet(list)
             new == Uniqued(list) (+) SetToBag({k})
  <2>1. new = [e \in S \cup {k} |-> (IF e \in S THEN 1 ELSE 0) + (IF e \in {k} THEN 1 ELSE 0)]
    BY <1>2 DEF (+), SetToBag
  <2>2. \A e \in S \cup {k} : (IF e \in S THEN 1 ELSE 0) + (IF e \in {k} THEN 1 ELSE 0) \in 1 .. 2
    OBVIOUS
  <2>3. new \in [S \cup {k} -> 1 .. 2] /\ DOMAIN new = S \cup {k}
    BY <2>1, <2>2
  <2>4. S \cup {k} \in SUBSET Keys
    BY <1>2
  <2>5. QED
    BY <2>3, <2>4 DEF Lists, BagToSet
<1>4. QED
  BY <1>1, <1>2, <1>3 DEF EmptyBag

\* The pending writes are none or one.
LEMMA PendingFacts ==
  ASSUME NEW pending \in Seq(Write), Len(pending) <= 1, pending # <<>>
  PROVE  /\ pending = <<pending[1]>> /\ pending[1] \in Write /\ Len(pending) = 1
         /\ Elements(pending) = {pending[1]}
         /\ Without(pending, pending[1]) = <<>>
         /\ [n \in DOMAIN pending |-> Put(pending[n])] = <<Put(pending[1])>>
<1>1. Len(pending) = 1 /\ DOMAIN pending = {1} /\ pending[1] \in Write
  <2>1. Len(pending) \in Nat /\ Len(pending) # 0 /\ DOMAIN pending = 1 .. Len(pending)
    BY EmptySeq, LenProperties
  <2>2. Len(pending) = 1 /\ DOMAIN pending = {1}
    BY <2>1
  <2>3. QED
    BY <2>2, ElementOfSeq
<1>2. pending = <<pending[1]>>
  BY <1>1
<1>3. Elements(pending) = {pending[1]}
  BY <1>1 DEF Elements
<1>4. Without(pending, pending[1]) = <<>>
  <2>1. Without(pending, pending[1])
          = [n \in 1 .. 0 |->
               pending[IF n < (CHOOSE k \in DOMAIN pending : pending[k] = pending[1]) THEN n ELSE n + 1]]
    BY <1>1 DEF Without
  <2>2. QED
    BY <2>1
<1>5. [n \in DOMAIN pending |-> Put(pending[n])] = <<Put(pending[1])>>
  BY <1>1
<1>6. QED
  BY <1>1, <1>2, <1>3, <1>4, <1>5

LEMMA ValueFacts ==
  ASSUME NEW c \in Clients, Len(c.pending) <= 1
  PROVE  /\ Value(c) \in Lists
         /\ c.pending # <<>> => Value(c) = c.pending[1].list
<1>1. c.cache \in Lists /\ c.pending \in Seq(Write)
  BY DEF Clients
<1>2. CASE c.pending = <<>>
  BY <1>1, <1>2 DEF Value
<1>3. CASE c.pending # <<>>
  BY <1>1, <1>3, PendingFacts DEF Value, Write
<1>4. QED
  BY <1>2, <1>3

\* A changed view raises events, which are all that it raises.
LEMMA RaisedFacts ==
  ASSUME observers \in Nat, NEW old, NEW new
  PROVE  /\ Raised(old, new) \in Seq(Blocks)
         /\ \A e \in Elements(Raised(old, new)) : e.kind = "event"
         /\ observers > 0 /\ new.complete /\ (~ old.complete \/ Value(new) # Value(old))
              => Has(Raised(old, new), {"event", "fetch"})
<1>1. Event \in Blocks /\ Event.kind = "event"
  BY DEF Event, Blocks
<1>2. CASE new.complete /\ (~ old.complete \/ Value(new) # Value(old))
  <2>1. Raised(old, new) = [n \in 1 .. observers |-> Event]
    BY <1>2 DEF Raised
  <2>2. Raised(old, new) \in Seq(Blocks)
    BY <1>1, <2>1, SeqDef
  <2>3. \A e \in Elements(Raised(old, new)) : e.kind = "event"
    BY <1>1, <2>1 DEF Elements
  <2>4. ASSUME observers > 0 PROVE Has(Raised(old, new), {"event", "fetch"})
    <3>1. 1 \in 1 .. observers
      BY <2>4
    <3>2. Event \in Elements(Raised(old, new))
      BY <2>1, <3>1 DEF Elements
    <3>3. QED
      BY <1>1, <3>2 DEF Has
  <2>5. QED
    BY <2>2, <2>3, <2>4
<1>3. CASE ~ (new.complete /\ (~ old.complete \/ Value(new) # Value(old)))
  BY <1>3, EmptyFacts DEF Raised
<1>4. QED
  BY <1>2, <1>3

LEMMA FirstEventFacts ==
  FirstEvent \in Seq(Blocks) /\ \A e \in Elements(FirstEvent) : e.kind = "event"
<1>1. Event \in Blocks /\ Event.kind = "event"
  BY DEF Event, Blocks
<1>2. QED
  BY <1>1, EmptyFacts, OneElement DEF FirstEvent


\* What calls, blocks, requests and answers carry.
LEMMA Carried ==
  /\ \A c \in Calls : /\ c.kind \in {"readForJoin", "set"} => c.key \in Keys
                      /\ c.kind = "set" => c.list \in Lists
  /\ \A b \in Blocks : /\ b.kind = "apply" => b.list \in Lists
                       /\ b.kind = "done" => b.key \in Keys /\ b.ok \in BOOLEAN
  /\ \A r \in Requests : r.kind = "put" => r.write \in Write
  /\ \A a \in Answers : /\ a.kind \in {"data", "ack"}
                        /\ a.kind = "data" => a.list \in Lists /\ a = Data(a.list)
                        /\ a.kind = "ack" => a.write \in Write /\ a.ok \in BOOLEAN
BY DEF Calls, Blocks, Requests, Answers, Data

LEMMA Made ==
  /\ Listen \in Requests /\ \A w \in Write : Put(w) \in Requests
  /\ \A list \in Lists : Data(list) \in Answers
  /\ \A w \in Write, ok \in BOOLEAN : Ack(w, ok) \in Answers
  /\ ReadForList \in Calls /\ \A k \in Keys : ReadForJoin(k) \in Calls
  /\ \A list \in Lists, k \in Keys : SetList(list, k) \in Calls
  /\ Event \in Blocks /\ Fetch \in Blocks /\ \A list \in Lists : Apply(list) \in Blocks
  /\ \A k \in Keys, ok \in BOOLEAN : Done(k, ok) \in Blocks
BY DEF Listen, Put, Data, Ack, ReadForList, ReadForJoin, SetList, Event, Fetch, Apply, Done,
       Calls, Blocks, Requests, Answers

-----------------------------------------------------------------------------
(* The steps.                                                              *)

\* The step of ApplyItems that shows the keys.
ShowItems ==
  /\ NextBlock("apply")
  /\ items' = BagToSet(Head(mainQueue).list)
  /\ mainQueue' = Tail(mainQueue)
  /\ UNCHANGED <<server, network, client, dbQueue, observers, screen, hud, joined>>

\* The app is killed or crashes.
Stopping ==
  /\ \E reason \in {"killed", "crashed"} : Stop(reason)
  /\ UNCHANGED <<named, stored, online, joined>>

Screens  == OpenJoin \/ CloseJoin \/ (\E k \in Keys : Continue(k)) \/ Launch
Moves == \/ Screens \/ Refresh \/ FetchKeys \/ ShowItems \/ FinishJoin
         \/ Database \/ Receive \/ Serve \/ Drop \/ Reconnect

LEMMA NextCases == Next => Moves \/ Stopping
<1>1. ApplyItems => ShowItems \/ Stopping
  BY DEF ApplyItems, ShowItems, Stopping
<1>2. Kill => Stopping
  BY DEF Kill, Stopping
<1>3. QED
  BY <1>1, <1>2 DEF Next, Moves, Screens, User, Main

LEMMA IInvInit == Init => IInv
<1> SUFFICES ASSUME Init PROVE IInv
  OBVIOUS
<1>1. FreshClient \in Clients /\ FreshClient.pending = <<>> /\ FreshClient.complete = FALSE
      /\ Len(<<>>) = 0
  BY ListFacts, EmptyFacts DEF FreshClient, Clients
<1>2. ~ Running
  BY DEF Init, Running
<1>3. Types
  <2>1. client \in Clients /\ stored \in Lists /\ observers \in 0 .. MaxObservers
    BY <1>1, ListFacts, ChannelsAssumption DEF Init
  <2>2. /\ toServer \in Seq(Requests) /\ toClient \in Seq(Answers)
        /\ dbQueue \in Seq(Calls) /\ mainQueue \in Seq(Blocks)
    BY EmptyFacts DEF Init
  <2>3. QED
    BY <2>1, <2>2 DEF Init, Types
<1>4. OneJoin
  BY <1>1, EmptyFacts DEF Init, OneJoin
<1>5. Kept
  BY <1>1, EmptyFacts DEF Init, Kept
<1>6. Telling
  BY <1>1, EmptyFacts, LastDataFacts DEF Init, Telling
<1>7. Stopped /\ Asking /\ Following
  BY <1>2 DEF Init, Stopped, Asking, Following
<1>8. QED
  BY <1>3, <1>4, <1>5, <1>6, <1>7 DEF IInv

\* An app that stops leaves only what is stored.
LEMMA StoppingKeepsIInv ==
  ASSUME IInv, Stopping
  PROVE  IInv'
<1>1. PICK reason \in {"killed", "crashed"} : Stop(reason)
  BY DEF Stopping
<1>2. UNCHANGED <<named, stored, online, joined>>
  BY DEF Stopping
<1> USE DEF IInv
<1>3. FreshClient \in Clients /\ FreshClient.pending = <<>> /\ FreshClient.complete = FALSE
      /\ Len(<<>>) = 0
  BY ListFacts, EmptyFacts DEF FreshClient, Clients
<1>4. ~ Running'
  BY <1>1 DEF Stop, Running
<1>5. Types'
  <2>1. client' \in Clients /\ stored' \in Lists /\ observers' \in 0 .. MaxObservers
    BY <1>1, <1>2, <1>3, ChannelsAssumption DEF Stop, Types
  <2>2. /\ toServer' \in Seq(Requests) /\ toClient' \in Seq(Answers)
        /\ dbQueue' \in Seq(Calls) /\ mainQueue' \in Seq(Blocks)
    BY <1>1, EmptyFacts DEF Stop
  <2>3. QED
    BY <1>1, <1>2, <2>1, <2>2 DEF Stop, Types
<1>6. OneJoin'
  BY <1>1, <1>3, EmptyFacts DEF Stop, OneJoin
<1>7. Kept'
  BY <1>1, <1>2, <1>3, EmptyFacts DEF Stop, Kept
<1>8. Telling'
  BY <1>1, <1>3, EmptyFacts, LastDataFacts DEF Stop, Telling
<1>9. Stopped' /\ Asking' /\ Following'
  BY <1>1, <1>4 DEF Stop, Stopped, Asking, Following
<1>10. QED
  BY <1>5, <1>6, <1>7, <1>8, <1>9

LEMMA RequestFacts ==
  ASSUME toServer \in Seq(Requests), NEW r \in Requests
  PROVE  Request(r) \in Seq(Requests)
BY AppendProperties DEF Request

LEMMA TypesNext ==
  ASSUME IInv, Moves
  PROVE  Types'
<1> USE DEF IInv
<1>0. /\ client.pending \in Seq(Write) /\ client.cache \in Lists /\ client.complete \in BOOLEAN
      /\ observers \in Nat
  BY ChannelsAssumption DEF Types, Clients
<1>1. CASE Screens
  <2>1. CASE OpenJoin
    BY <2>1 DEF OpenJoin, Types, server, network, queues, counters
  <2>2. CASE CloseJoin
    <3>1. mainQueue' \in Seq(Blocks)
      BY <2>2, FirstEventFacts, ConcatProperties DEF CloseJoin, Types
    <3>2. observers' \in 0 .. MaxObservers
      BY <2>2, <1>0, ChannelsAssumption DEF CloseJoin
    <3>3. QED
      BY <2>2, <3>1, <3>2 DEF CloseJoin, Types, server, network, counters
  <2>3. ASSUME NEW k \in Keys, Continue(k) PROVE Types'
    <3>1. dbQueue' \in Seq(Calls)
      BY <2>3, Made, AppendProperties DEF Continue, Types
    <3>2. QED
      BY <2>3, <3>1 DEF Continue, Types, server, network, counters
  <2>4. CASE Launch
    <3>1. toServer' \in Seq(Requests)
      BY <2>4, Made, RequestFacts DEF Launch, Types
    <3>2. QED
      BY <2>4, <3>1, ChannelsAssumption DEF Launch, Types, server, queues, counters
  <2>5. QED
    BY <1>1, <2>1, <2>2, <2>3, <2>4 DEF Screens
<1>2. CASE Refresh
  <2>1. mainQueue' \in Seq(Blocks)
    BY <1>2, Made, AppendFacts, TailFacts DEF Refresh, NextBlock, Types
  <2>2. QED
    BY <1>2, <2>1 DEF Refresh, Types, server, network, ui, counters
<1>3. CASE FetchKeys
  <2>1. mainQueue' \in Seq(Blocks) /\ dbQueue' \in Seq(Calls)
    BY <1>3, Made, AppendFacts, TailFacts DEF FetchKeys, NextBlock, Types
  <2>2. QED
    BY <1>3, <2>1 DEF FetchKeys, Types, server, network, ui, counters
<1>4. CASE ShowItems
  <2>1. mainQueue' \in Seq(Blocks) /\ items' \subseteq Keys
    BY <1>4, TailFacts, Carried, ListFacts DEF ShowItems, NextBlock, Types
  <2>2. QED
    BY <1>4, <2>1 DEF ShowItems, Types, server, network
<1>5. CASE FinishJoin
  <2>1. /\ mainQueue # <<>> /\ Head(mainQueue).kind = "done"
        /\ Tail(mainQueue) \in Seq(Blocks) /\ Head(mainQueue) \in Blocks
        /\ Head(mainQueue) \in Elements(mainQueue)
    BY <1>5, TailFacts DEF FinishJoin, NextBlock, Types
  <2>2. observers < MaxObservers
    BY <2>1 DEF OneJoin, Has
  <2>3. Head(mainQueue).key \in Keys
    BY <2>1, Carried
  <2>4. Tail(mainQueue) \o FirstEvent \in Seq(Blocks)
    BY <2>1, FirstEventFacts, ConcatProperties
  <2>5. observers + 1 \in 0 .. MaxObservers
    BY <1>0, <2>2, ChannelsAssumption
  <2>6. QED
    BY <1>5, <2>1, <2>3, <2>4, <2>5 DEF FinishJoin, Types, server, network, counters
<1>6. CASE Database
  <2>1. dbQueue # <<>> /\ Head(dbQueue) \in Calls /\ Tail(dbQueue) \in Seq(Calls)
    BY <1>6, TailFacts DEF Database, ReadKeysToJoin, ReadKeysToShow, WriteKeys, NextCall, Types
  <2>2. ConvoKeys(client) \in Lists
        /\ \A k \in Keys : ConvoKeys(client) (+) SetToBag({k}) \in Lists
    BY ValueFacts, ListFacts DEF ConvoKeys, Types, OneJoin
  <2>3. CASE ReadKeysToJoin
    <3>1. Head(dbQueue).key \in Keys
      BY <2>1, <2>3, Carried DEF ReadKeysToJoin, NextCall
    <3>2. dbQueue' \in Seq(Calls)
      <4> DEFINE k == Head(dbQueue).key
      <4>1. SetList(ConvoKeys(client) (+) SetToBag({k}), k) \in Calls
        BY <2>2, <3>1, Made
      <4>2. Append(Tail(dbQueue), SetList(ConvoKeys(client) (+) SetToBag({k}), k)) \in Seq(Calls)
        BY <2>1, <4>1, AppendProperties
      <4>3. QED
        BY <2>1, <2>3, <4>2 DEF ReadKeysToJoin
    <3>3. QED
      BY <2>3, <3>2 DEF ReadKeysToJoin, Types, server, network, ui, counters
  <2>4. CASE ReadKeysToShow
    <3>1. mainQueue' \in Seq(Blocks)
      BY <2>2, <2>4, Made, AppendProperties DEF ReadKeysToShow, Types
    <3>2. QED
      BY <2>1, <2>4, <3>1 DEF ReadKeysToShow, Types, server, network, ui, counters
  <2>5. CASE WriteKeys
    <3> DEFINE w   == [list |-> Head(dbQueue).list, key |-> Head(dbQueue).key]
               new == [client EXCEPT !.pending = Append(@, w)]
    <3>1. w \in Write
      BY <2>1, <2>5, Carried DEF WriteKeys, NextCall, Write
    <3>2. new \in Clients
      BY <1>0, <3>1, AppendProperties DEF Types, Clients
    <3>3. Request(Put(w)) \in Seq(Requests)
      BY <3>1, Made, RequestFacts DEF Types
    <3>4. mainQueue \o Raised(client, new) \in Seq(Blocks)
      BY <1>0, RaisedFacts, ConcatProperties DEF Types
    <3>5. client' = new /\ toServer' = Request(Put(w)) /\ mainQueue' = mainQueue \o Raised(client, new)
          /\ dbQueue' = Tail(dbQueue)
      BY <2>5 DEF WriteKeys
    <3> HIDE DEF w, new
    <3>6. QED
      BY <2>1, <2>5, <3>2, <3>3, <3>4, <3>5 DEF WriteKeys, Types, server, ui, counters
  <2>6. QED
    BY <1>6, <2>3, <2>4, <2>5 DEF Database
<1>7. CASE Receive
  <2>1. toClient # <<>> /\ Head(toClient) \in Answers /\ Tail(toClient) \in Seq(Answers)
        /\ Head(toClient) \in Elements(toClient)
    BY <1>7, TailFacts DEF Receive, ReceiveData, ReceiveAck, Types
  <2>2. CASE ReceiveData
    <3> DEFINE new == [client EXCEPT !.cache = Head(toClient).list, !.complete = TRUE]
    <3>1. new \in Clients
      BY <1>0, <2>1, <2>2, Carried DEF ReceiveData, Types, Clients
    <3>2. mainQueue \o Raised(client, new) \in Seq(Blocks)
      BY <1>0, RaisedFacts, ConcatProperties DEF Types
    <3>3. client' = new /\ mainQueue' = mainQueue \o Raised(client, new)
      BY <2>2 DEF ReceiveData
    <3> HIDE DEF new
    <3>4. QED
      BY <2>1, <2>2, <3>1, <3>2, <3>3 DEF ReceiveData, Types, server, ui, counters
  <2>3. CASE ReceiveAck
    <3> DEFINE answer == Head(toClient)
               new == [client EXCEPT !.pending = Without(@, answer.write)]
    <3>1. answer.kind = "ack" /\ answer.write \in Write /\ answer.ok \in BOOLEAN
      BY <2>1, <2>3, Carried DEF ReceiveAck
    <3>2. client.pending # <<>> /\ answer.write = client.pending[1]
      BY <2>1, <3>1 DEF Telling
    <3>3. new \in Clients
      <4>1. Without(client.pending, answer.write) = <<>>
        BY <1>0, <3>2, PendingFacts DEF OneJoin
      <4>2. <<>> \in Seq(Write)
        BY EmptyFacts
      <4>3. QED
        BY <1>0, <4>1, <4>2 DEF Types, Clients
    <3>4. mainQueue \o Raised(client, new) \in Seq(Blocks)
      BY <1>0, RaisedFacts, ConcatProperties DEF Types
    <3>5. Done(answer.write.key, answer.ok) \in Blocks
      BY <3>1, Made DEF Write
    <3>6. Append(mainQueue \o Raised(client, new), Done(answer.write.key, answer.ok)) \in Seq(Blocks)
      BY <3>4, <3>5, AppendProperties
    <3>7. /\ client' = new
          /\ mainQueue' = Append(mainQueue \o Raised(client, new), Done(answer.write.key, answer.ok))
      BY <2>3 DEF ReceiveAck
    <3> HIDE DEF new
    <3>8. QED
      BY <2>1, <2>3, <3>3, <3>6, <3>7 DEF ReceiveAck, Types, server, ui, counters
  <2>4. QED
    BY <1>7, <2>2, <2>3 DEF Receive
<1>8. CASE Serve
  <2>1. toServer # <<>> /\ Head(toServer) \in Requests /\ Tail(toServer) \in Seq(Requests)
    BY <1>8, TailFacts DEF Serve, ServerListen, ServerPut, ServerReject, Types
  <2>2. CASE ServerListen
    <3>1. toClient' \in Seq(Answers)
      BY <2>2, Made, AppendProperties DEF ServerListen, Types
    <3>2. QED
      BY <2>1, <2>2, <3>1 DEF ServerListen, Types, queues, ui, counters
  <2>3. CASE ServerPut
    <3> DEFINE w == Head(toServer).write
               told == watching /\ w.list # stored
    <3>1. w \in Write /\ w.list \in Lists
      BY <2>1, <2>3, Carried DEF ServerPut, Write
    <3>2. /\ <<Data(w.list)>> \in Seq(Answers) /\ <<Ack(w, TRUE)>> \in Seq(Answers)
      BY <3>1, Made, OneElement
    <3>3. (IF told THEN <<Data(w.list)>> ELSE <<>>) \in Seq(Answers)
      BY <3>2, EmptyFacts
    <3>4. toClient \o (IF told THEN <<Data(w.list)>> ELSE <<>>) \o <<Ack(w, TRUE)>> \in Seq(Answers)
      BY <3>2, <3>3, ConcatProperties DEF Types
    <3>5. stored' = w.list
          /\ toClient' = toClient \o (IF told THEN <<Data(w.list)>> ELSE <<>>) \o <<Ack(w, TRUE)>>
      BY <2>3 DEF ServerPut
    <3> HIDE DEF w, told
    <3>6. QED
      BY <2>1, <2>3, <3>1, <3>4, <3>5 DEF ServerPut, Types, queues, ui, counters
  <2>4. CASE ServerReject
    <3>1. Head(toServer).write \in Write
      BY <2>1, <2>4, Carried DEF ServerReject
    <3>2. toClient' \in Seq(Answers)
      BY <2>4, <3>1, Made, AppendProperties DEF ServerReject, Types
    <3>3. QED
      BY <2>1, <2>4, <3>2 DEF ServerReject, Types, server, queues, ui
  <2>5. QED
    BY <1>8, <2>2, <2>3, <2>4 DEF Serve
<1>9. CASE Drop
  BY <1>9, EmptyFacts DEF Drop, Types, queues, ui
<1>10. CASE Reconnect
  <2>1. [n \in DOMAIN client.pending |-> Put(client.pending[n])] \in Seq(Requests)
    <3>1. CASE client.pending = <<>>
      BY <3>1, EmptyFacts
    <3>2. CASE client.pending # <<>>
      <4>1. [n \in DOMAIN client.pending |-> Put(client.pending[n])] = <<Put(client.pending[1])>>
            /\ client.pending[1] \in Write
        BY <1>0, <3>2, PendingFacts DEF OneJoin
      <4>2. QED
        BY <4>1, Made, OneElement
    <3>3. QED
      BY <3>1, <3>2
  <2>2. <<Listen>> \o [n \in DOMAIN client.pending |-> Put(client.pending[n])] \in Seq(Requests)
    BY <2>1, Made, OneElement, ConcatProperties
  <2>3. toServer' \in Seq(Requests)
    BY <1>10, <2>2, EmptyFacts DEF Reconnect
  <2>4. QED
    BY <1>10, <2>3 DEF Reconnect, Types, server, queues, ui, counters
<1>11. QED
  BY <1>1, <1>2, <1>3, <1>4, <1>5, <1>6, <1>7, <1>8, <1>9, <1>10 DEF Moves


\* An app that does not run only starts, or sees its connection come and go.
LEMMA StillMoves ==
  ASSUME IInv, Moves, ~ Running
  PROVE  Launch \/ Drop \/ Reconnect
<1>1. dbQueue = <<>> /\ mainQueue = <<>> /\ toServer = <<>> /\ toClient = <<>>
  BY DEF IInv, Stopped
<1>2. screen # "list" /\ screen # "join"
  BY DEF Running
<1>3. QED
  BY <1>1, <1>2 DEF Moves, Screens, OpenJoin, CloseJoin, Continue, Refresh, FetchKeys, ShowItems,
     FinishJoin, NextBlock, Database, ReadKeysToJoin, ReadKeysToShow, WriteKeys, NextCall,
     Receive, ReceiveData, ReceiveAck, Serve, ServerListen, ServerPut, ServerReject

LEMMA RunningMoves ==
  ASSUME IInv, Moves, Running
  PROVE  Running' /\ observers' >= observers /\ observers' \in Nat
<1> observers \in Nat
  BY ChannelsAssumption DEF IInv, Types
<1>1. CASE Screens
  BY <1>1 DEF Screens, OpenJoin, CloseJoin, Continue, Launch, Running
<1>2. CASE FinishJoin
  <2>1. \/ screen' = "list" /\ observers' = observers + 1
        \/ screen' = screen /\ observers' = observers
    BY <1>2 DEF FinishJoin
  <2>2. QED
    BY <2>1 DEF Running
<1>3. CASE Refresh \/ FetchKeys \/ ShowItems \/ Drop \/ Reconnect
  BY <1>3 DEF Refresh, FetchKeys, ShowItems, Drop, Reconnect, ui, Running
<1>4. CASE Database \/ Receive \/ Serve
  <2>1. UNCHANGED ui
    BY <1>4 DEF Database, ReadKeysToJoin, ReadKeysToShow, WriteKeys, Receive, ReceiveData,
       ReceiveAck, Serve, ServerListen, ServerPut, ServerReject
  <2>2. QED
    BY <2>1 DEF ui, Running
<1>5. QED
  BY <1>1, <1>2, <1>3, <1>4 DEF Moves

LEMMA StoppedNext ==
  ASSUME IInv, Moves
  PROVE  Stopped'
<1> USE DEF IInv
<1>1. CASE Running
  <2>1. observers > 0 /\ observers \in Nat
    BY <1>1, ChannelsAssumption DEF Stopped, Types
  <2>2. Running' /\ observers' > 0
    BY <1>1, <2>1, RunningMoves
  <2>3. QED
    BY <2>2 DEF Stopped
<1>2. CASE ~ Running
  <2>1. CASE Launch
    BY <2>1 DEF Launch, Stopped, Running
  <2>2. CASE Drop
    BY <1>2, <2>2 DEF Drop, Stopped, Running, queues, ui
  <2>3. CASE Reconnect
    BY <1>2, <2>3 DEF Reconnect, Stopped, Running, server, queues, ui
  <2>4. QED
    BY <1>2, <2>1, <2>2, <2>3, StillMoves
<1>3. QED
  BY <1>1, <1>2

\* A join about to be written finds nothing pending.
LEMMA WriteFacts ==
  ASSUME IInv, WriteKeys
  PROVE  LET w == [list |-> Head(dbQueue).list, key |-> Head(dbQueue).key]
         IN  /\ w \in Write /\ Running /\ hud /\ client.complete
             /\ client.pending = <<>> /\ client'.pending = <<w>>
             /\ client'.complete = client.complete /\ client'.cache = client.cache
             /\ Value(client') = w.list
             /\ mainQueue' = mainQueue \o Raised(client, client')
             /\ Adds(w)
             /\ ~ Has(mainQueue, {"done"}) /\ ~ Has(dbQueue', {"readForJoin", "set"})
<1> USE DEF IInv
<1> DEFINE w == [list |-> Head(dbQueue).list, key |-> Head(dbQueue).key]
<1>1. /\ dbQueue # <<>> /\ Head(dbQueue).kind = "set" /\ Head(dbQueue) \in Calls
      /\ Head(dbQueue) \in Elements(dbQueue) /\ dbQueue' = Tail(dbQueue)
      /\ HasOne(dbQueue, {"readForJoin", "set"})
          => ~ Has(Tail(dbQueue), {"readForJoin", "set"})
  BY TailFacts DEF WriteKeys, NextCall, Types
<1>2. Has(dbQueue, {"readForJoin", "set"})
  BY <1>1 DEF Has
<1>3. /\ w \in Write /\ hud /\ client.pending = <<>> /\ ~ Has(mainQueue, {"done"})
      /\ ~ Has(dbQueue', {"readForJoin", "set"})
  BY <1>1, <1>2, Carried DEF OneJoin, Write
<1>4. client.complete /\ Adds(w)
  BY <1>1 DEF Kept, Adds
<1>5. Running
  BY <1>3 DEF OneJoin, Running
<1>6. client' = [client EXCEPT !.pending = Append(@, w)] /\ mainQueue' = mainQueue \o Raised(client, client')
  BY DEF WriteKeys
<1>7. Append(<<>>, w) = <<w>>
  OBVIOUS
<1>8. /\ client'.pending = <<w>> /\ client'.complete = client.complete
      /\ client'.cache = client.cache
  BY <1>3, <1>6, <1>7 DEF Types, Clients
<1>9. Value(client') = w.list
  <2> HIDE DEF w
  <2>1. <<w>> # <<>> /\ <<w>>[Len(<<w>>)] = w
    OBVIOUS
  <2>2. QED
    BY <1>8, <2>1 DEF Value
<1>10. QED
  BY <1>3, <1>4, <1>5, <1>6, <1>8, <1>9

\* An answer ends what was pending, and finds the cache up to date.
LEMMA AckFacts ==
  ASSUME IInv, ReceiveAck
  PROVE  LET a == Head(toClient)
         IN  /\ a.write \in Write /\ a.ok \in BOOLEAN /\ a.write = client.pending[1]
             /\ client.pending # <<>> /\ a.write \in Elements(client.pending)
             /\ toServer = <<>> /\ toClient' = <<>>
             /\ hud /\ Running /\ watching
             /\ client.complete /\ client.cache = stored
             /\ a.ok => stored = a.write.list
             /\ client' \in Clients /\ client'.pending = <<>>
             /\ client'.complete = client.complete /\ client'.cache = client.cache
             /\ Value(client') = stored
             /\ mainQueue' = Append(mainQueue \o Raised(client, client'), Done(a.write.key, a.ok))
             /\ ~ Has(mainQueue, {"done"}) /\ ~ Has(dbQueue, {"readForJoin", "set"})
<1> USE DEF IInv
<1> DEFINE a == Head(toClient)
<1>1. /\ toClient # <<>> /\ a.kind = "ack" /\ a \in Answers /\ a \in Elements(toClient)
      /\ toClient' = Tail(toClient) /\ a = toClient[1]
  BY TailFacts DEF ReceiveAck, Types
<1>2. /\ a.write \in Write /\ a.ok \in BOOLEAN /\ a.write = client.pending[1]
      /\ client.pending # <<>> /\ toServer = <<>> /\ (a.ok => stored = a.write.list)
  BY <1>1, Carried DEF Telling
<1>3. toClient' = <<>> /\ Elements(toClient) = {a}
  <2>1. DOMAIN toClient = 1 .. Len(toClient) /\ Len(toClient) \in Nat \ {0}
    BY <1>1, EmptySeq, LenProperties DEF Types
  <2>2. 1 \in DOMAIN toClient
    BY <2>1
  <2>3. Len(toClient) = 1
    BY <1>1, <2>2 DEF Telling
  <2>4. Len(Tail(toClient)) = 0 /\ Tail(toClient) \in Seq(Answers)
    BY <1>1, <2>3, HeadTailProperties DEF Types
  <2>5. toClient' = <<>>
    BY <1>1, <2>4, EmptySeq
  <2>6. DOMAIN toClient = {1}
    BY <2>1, <2>3
  <2>7. QED
    BY <1>1, <2>5, <2>6 DEF Elements
<1>4. hud /\ ~ Has(mainQueue, {"done"}) /\ ~ Has(dbQueue, {"readForJoin", "set"})
  BY <1>2 DEF OneJoin
<1>5. Running
  BY <1>4 DEF OneJoin, Running
<1>6. watching
  BY <1>1 DEF Telling
<1>7. client.complete /\ client.cache = stored
  <2>1. a # Data(stored)
    BY <1>1 DEF Data
  <2>2. QED
    BY <1>3, <1>6, <2>1 DEF Telling
<1>8. /\ Without(client.pending, a.write) = <<>> /\ a.write \in Elements(client.pending)
  BY <1>2, PendingFacts DEF Types, Clients, OneJoin
<1>9. client' = [client EXCEPT !.pending = Without(@, a.write)]
      /\ mainQueue' = Append(mainQueue \o Raised(client, client'), Done(a.write.key, a.ok))
  BY DEF ReceiveAck
<1>10. <<>> \in Seq(Write)
  BY EmptyFacts
<1>11. /\ client' \in Clients /\ client'.pending = <<>>
       /\ client'.complete = client.complete /\ client'.cache = client.cache
  BY <1>8, <1>9, <1>10 DEF Types, Clients
<1>12. Value(client') = stored
  BY <1>7, <1>11 DEF Value
<1>13. QED
  BY <1>1, <1>2, <1>3, <1>4, <1>5, <1>6, <1>7, <1>8, <1>9, <1>11, <1>12

\* The server gets the one pending write.
LEMMA PutFacts ==
  ASSUME IInv, toServer # <<>>, Head(toServer).kind = "put"
  PROVE  /\ toServer = <<Put(client.pending[1])>> /\ Head(toServer).write = client.pending[1]
         /\ client.pending # <<>> /\ client.pending[1] \in Write
         /\ Elements(client.pending) = {client.pending[1]}
         /\ Tail(toServer) = <<>> /\ watching /\ online
<1> USE DEF IInv
<1>1. Listen.kind = "listen" /\ toServer[1] = Head(toServer)
  BY TailFacts DEF Listen, Types
<1>2. /\ <<Listen>>[1] = Listen /\ \A r : <<Listen, r>>[1] = Listen
  OBVIOUS
<1>3. client.pending # <<>> /\ toServer = <<Put(client.pending[1])>>
  BY <1>1, <1>2 DEF Asking
<1>4. Tail(toServer) = <<>> /\ Head(toServer) = Put(client.pending[1])
  BY <1>3, OneElement
<1>5. Head(toServer).write = client.pending[1]
  BY <1>4 DEF Put
<1>6. client.pending[1] \in Write /\ Elements(client.pending) = {client.pending[1]}
  BY <1>3, PendingFacts DEF Types, Clients, OneJoin
<1>7. online /\ watching
  <2>1. online /\ Running
    BY DEF Asking, Stopped
  <2>2. toServer[1] # Listen
    BY <1>1
  <2>3. QED
    BY <2>1, <2>2 DEF Asking
<1>8. QED
  BY <1>3, <1>4, <1>5, <1>6, <1>7

LEMMA AskingNext ==
  ASSUME IInv, Moves
  PROVE  Asking'
<1> USE DEF IInv
<1>1. CASE UNCHANGED <<watching, online, toServer, client>> /\ ~ Launch
  <2>1. Running' => Running
    BY <1>1, StillMoves DEF Drop, Reconnect, ui, Running
  <2>2. QED
    BY <1>1, <2>1 DEF Asking
<1>2. CASE Launch
  <2>1. /\ ~ watching /\ toServer = <<>> /\ UNCHANGED <<watching, online, client>>
        /\ toServer' = Request(Listen)
    BY <1>2 DEF Launch, Stopped, server
  <2>2. Append(<<>>, Listen) = <<Listen>> /\ <<Listen>> # <<>> /\ <<Listen>>[1] = Listen
    OBVIOUS
  <2>3. toServer' = IF online THEN <<Listen>> ELSE <<>>
    BY <2>1, <2>2 DEF Request
  <2>4. QED
    BY <2>1, <2>2, <2>3 DEF Asking
<1>3. CASE WriteKeys
  <2> DEFINE w == [list |-> Head(dbQueue).list, key |-> Head(dbQueue).key]
  <2>1. Running /\ client.pending = <<>> /\ client'.pending = <<w>>
    BY <1>3, WriteFacts
  <2>2. toServer' = Request(Put(w)) /\ UNCHANGED <<watching, online>>
    BY <1>3 DEF WriteKeys, server
  <2> HIDE DEF w
  <2>3. <<w>> # <<>> /\ <<w>>[1] = w
    OBVIOUS
  <2>4. Put(w) # Listen
    BY DEF Put, Listen
  <2>5. CASE ~ online
    BY <2>2, <2>5 DEF Asking, Request
  <2>6. CASE online /\ toServer = <<>>
    <3>1. toServer' = <<Put(w)>> /\ <<Put(w)>> # <<>> /\ <<Put(w)>>[1] = Put(w)
      BY <2>2, <2>6 DEF Request
    <3>2. QED
      BY <2>1, <2>2, <2>3, <2>4, <2>6, <3>1 DEF Asking
  <2>7. CASE online /\ toServer = <<Listen>>
    <3>1. toServer' = <<Listen, Put(w)>> /\ <<Listen, Put(w)>> # <<>> /\ <<Listen, Put(w)>>[1] = Listen
          /\ <<Listen>> # <<>> /\ <<Listen>>[1] = Listen
      BY <2>2, <2>7, OneElement, TwoElements DEF Request
    <3>2. QED
      BY <2>1, <2>2, <2>3, <2>7, <3>1 DEF Asking
  <2>8. QED
    BY <2>1, <2>5, <2>6, <2>7 DEF Asking
<1>4. CASE ReceiveData
  <2>1. UNCHANGED <<watching, online, toServer, screen>> /\ client'.pending = client.pending
    BY <1>4 DEF ReceiveData, server, ui, Types, Clients
  <2>2. QED
    BY <2>1 DEF Asking, Running
<1>5. CASE ReceiveAck
  <2>1. UNCHANGED <<watching, online, toServer>> /\ toServer = <<>> /\ watching
    BY <1>5, AckFacts DEF ReceiveAck, server
  <2>2. QED
    BY <2>1 DEF Asking
<1>6. CASE Serve
  <2>1. CASE ServerListen
    <3>1. /\ toServer # <<>> /\ Head(toServer) = Listen /\ toServer[1] = Listen
          /\ toServer' = Tail(toServer) /\ watching' /\ UNCHANGED <<online, client>>
      BY <2>1, TailFacts DEF ServerListen, Types
    <3>2. Put(client.pending[1]) # Listen /\ \A r : <<r>>[1] = r
      BY DEF Put, Listen
    <3>3. \/ toServer = <<Listen>>
          \/ client.pending # <<>> /\ toServer = <<Listen, Put(client.pending[1])>>
      BY <3>1, <3>2 DEF Asking
    <3>4. Tail(<<Listen>>) = <<>> /\ \A r : Tail(<<Listen, r>>) = <<r>>
      OBVIOUS
    <3>5. \/ toServer' = <<>>
          \/ client.pending # <<>> /\ toServer' = <<Put(client.pending[1])>>
      BY <3>1, <3>3, <3>4
    <3>6. online
      BY <3>1 DEF Asking
    <3>7. QED
      BY <3>1, <3>2, <3>5, <3>6 DEF Asking
  <2>2. CASE ServerPut \/ ServerReject
    <3>1. toServer' = <<>> /\ watching /\ online /\ UNCHANGED <<watching, online>>
      BY <2>2, PutFacts DEF ServerPut, ServerReject, server
    <3>2. QED
      BY <3>1 DEF Asking
  <2>3. QED
    BY <1>6, <2>1, <2>2 DEF Serve
<1>7. CASE Drop
  BY <1>7 DEF Drop, Asking
<1>8. CASE Reconnect
  <2>1. ~ watching /\ ~ watching' /\ online' /\ UNCHANGED <<client, screen>>
    BY <1>8 DEF Reconnect, Asking, server, ui
  <2>2. CASE ~ Running
    BY <1>8, <2>1, <2>2 DEF Reconnect, Asking, Running
  <2>3. CASE Running /\ client.pending = <<>>
    <3>1. [n \in DOMAIN client.pending |-> Put(client.pending[n])] = <<>>
      BY <2>3, EmptyFacts
    <3>2. <<Listen>> \o <<>> = <<Listen>> /\ <<Listen>> # <<>> /\ <<Listen>>[1] = Listen
      OBVIOUS
    <3>3. toServer' = <<Listen>>
      BY <1>8, <2>3, <3>1, <3>2 DEF Reconnect
    <3>4. QED
      BY <2>1, <3>2, <3>3 DEF Asking
  <2>4. CASE Running /\ client.pending # <<>>
    <3>1. [n \in DOMAIN client.pending |-> Put(client.pending[n])] = <<Put(client.pending[1])>>
      BY <2>4, PendingFacts DEF Types, Clients, OneJoin
    <3>2. \A r : <<Listen>> \o <<r>> = <<Listen, r>> /\ <<Listen, r>> # <<>> /\ <<Listen, r>>[1] = Listen
      BY TwoElements
    <3>3. toServer' = <<Listen, Put(client.pending[1])>>
      BY <1>8, <2>4, <3>1, <3>2 DEF Reconnect
    <3>4. QED
      BY <2>1, <2>4, <3>2, <3>3 DEF Asking
  <2>5. QED
    BY <2>2, <2>3, <2>4
<1>9. QED
  <2>1. Screens => Launch \/ (UNCHANGED <<watching, online, toServer, client>> /\ ~ Launch)
    BY DEF Screens, OpenJoin, CloseJoin, Continue, Launch, server, network
  <2>2. Refresh \/ FetchKeys \/ ShowItems \/ FinishJoin \/ ReadKeysToJoin \/ ReadKeysToShow
          => Launch \/ (UNCHANGED <<watching, online, toServer, client>> /\ ~ Launch)
    BY DEF Refresh, FetchKeys, ShowItems, FinishJoin, ReadKeysToJoin, ReadKeysToShow, server, network
  <2>3. QED
    BY <1>1, <1>2, <1>3, <1>4, <1>5, <1>6, <1>7, <1>8, <2>1, <2>2 DEF Moves, Database, Receive


-----------------------------------------------------------------------------
(* One join at a time.                                                     *)

\* Blocks that answer no join.
LEMMA EventsAnswerNothing ==
  ASSUME NEW q \in Seq(Blocks), NEW r \in Seq(Blocks), \A e \in Elements(r) : e.kind = "event"
  PROVE  /\ ~ Has(r, {"done"}) /\ ~ Has(r, {"apply"})
         /\ Has(q \o r, {"done"}) <=> Has(q, {"done"})
         /\ HasOne(q, {"done"}) => HasOne(q \o r, {"done"})
<1>1. ~ Has(r, {"done"}) /\ ~ Has(r, {"apply"})
  BY DEF Has
<1>2. QED
  BY <1>1, ConcatFacts

\* A step that leaves the HUD and the pending writes alone, and starts no join.
LEMMA OneJoinStays ==
  ASSUME OneJoin, UNCHANGED hud, hud => screen' = screen /\ observers' = observers,
         client'.pending = client.pending,
         HasOne(dbQueue', {"readForJoin", "set"}),
         Has(dbQueue', {"readForJoin", "set"}) => Has(dbQueue, {"readForJoin", "set"}),
         HasOne(mainQueue', {"done"}), Has(mainQueue', {"done"}) => Has(mainQueue, {"done"})
  PROVE  OneJoin'
BY DEF OneJoin

LEMMA OneJoinNext ==
  ASSUME IInv, Moves
  PROVE  OneJoin'
<1> USE DEF IInv
<1>0. mainQueue \in Seq(Blocks) /\ dbQueue \in Seq(Calls) /\ observers \in Nat
  BY ChannelsAssumption DEF Types
<1>1. CASE Screens
  <2>1. CASE OpenJoin
    <3>1. ~ hud
      BY <2>1 DEF OpenJoin, OneJoin
    <3>2. UNCHANGED <<hud, client, dbQueue, mainQueue>>
      BY <2>1 DEF OpenJoin, queues
    <3>3. QED
      BY <3>1, <3>2 DEF OneJoin
  <2>2. CASE CloseJoin
    <3>1. ~ hud /\ UNCHANGED <<hud, client, dbQueue>> /\ mainQueue' = mainQueue \o FirstEvent
      BY <2>2 DEF CloseJoin
    <3>2. /\ Has(mainQueue \o FirstEvent, {"done"}) <=> Has(mainQueue, {"done"})
          /\ HasOne(mainQueue, {"done"}) => HasOne(mainQueue \o FirstEvent, {"done"})
      BY <1>0, FirstEventFacts, EventsAnswerNothing
    <3>3. QED
      BY <3>1, <3>2, OneJoinStays DEF OneJoin
  <2>3. ASSUME NEW k \in Keys, Continue(k) PROVE OneJoin'
    <3>1. /\ ~ hud /\ hud' /\ screen' = "join" /\ observers' < MaxObservers
          /\ UNCHANGED <<client, mainQueue>> /\ dbQueue' = Append(dbQueue, ReadForJoin(k))
      BY <2>3 DEF Continue
    <3>2. /\ ~ Has(dbQueue, {"readForJoin", "set"}) /\ client.pending = <<>>
          /\ ~ Has(mainQueue, {"done"})
      BY <3>1 DEF OneJoin
    <3>3. HasOne(dbQueue', {"readForJoin", "set"})
      BY <1>0, <3>1, <3>2, Made, AppendFacts DEF OneJoin
    <3>4. QED
      BY <3>1, <3>2, <3>3 DEF OneJoin
  <2>4. CASE Launch
    <3>1. ~ hud /\ UNCHANGED <<hud, client, dbQueue, mainQueue>>
      BY <2>4 DEF Launch, Stopped, queues
    <3>2. QED
      BY <3>1 DEF OneJoin
  <2>5. QED
    BY <1>1, <2>1, <2>2, <2>3, <2>4 DEF Screens
<1>2. CASE Refresh \/ FetchKeys \/ ShowItems
  <2>1. mainQueue # <<>> /\ UNCHANGED <<hud, screen, observers, client>>
    BY <1>2 DEF Refresh, FetchKeys, ShowItems, NextBlock, ui
  <2>2. mainQueue' \in {Tail(mainQueue), Append(Tail(mainQueue), Fetch)}
    BY <1>2 DEF Refresh, FetchKeys, ShowItems
  <2>3. dbQueue' \in {dbQueue, Append(dbQueue, ReadForList)}
    BY <1>2 DEF Refresh, FetchKeys, ShowItems
  <2>4. /\ Tail(mainQueue) \in Seq(Blocks)
        /\ HasOne(Tail(mainQueue), {"done"})
        /\ Has(Tail(mainQueue), {"done"}) => Has(mainQueue, {"done"})
    BY <1>0, <2>1, TailFacts DEF OneJoin
  <2>5. Fetch.kind = "fetch" /\ ReadForList.kind = "readForList"
    BY DEF Fetch, ReadForList
  <2>6. HasOne(mainQueue', {"done"}) /\ (Has(mainQueue', {"done"}) => Has(mainQueue, {"done"}))
    <3>1. Fetch \in Blocks /\ Fetch.kind \notin {"done"}
      BY <2>5, Made
    <3>2. /\ HasOne(Append(Tail(mainQueue), Fetch), {"done"})
          /\ Has(Append(Tail(mainQueue), Fetch), {"done"}) => Has(Tail(mainQueue), {"done"})
      BY <2>4, <3>1, AppendOther
    <3>3. QED
      BY <2>2, <2>4, <3>2
  <2>7. /\ HasOne(dbQueue', {"readForJoin", "set"})
        /\ Has(dbQueue', {"readForJoin", "set"}) => Has(dbQueue, {"readForJoin", "set"})
    <3>1. ReadForList \in Calls /\ ReadForList.kind \notin {"readForJoin", "set"}
      BY <2>5, Made
    <3>2. /\ HasOne(Append(dbQueue, ReadForList), {"readForJoin", "set"})
          /\ Has(Append(dbQueue, ReadForList), {"readForJoin", "set"})
               => Has(dbQueue, {"readForJoin", "set"})
      BY <1>0, <3>1, AppendOther DEF OneJoin
    <3>3. QED
      BY <2>3, <3>2 DEF OneJoin
  <2>8. QED
    BY <2>1, <2>6, <2>7, OneJoinStays
<1>3. CASE FinishJoin
  <2>1. /\ mainQueue # <<>> /\ Head(mainQueue).kind = "done" /\ hud' = FALSE
        /\ mainQueue' \in {Tail(mainQueue), Tail(mainQueue) \o FirstEvent}
        /\ UNCHANGED <<client, dbQueue>>
    BY <1>3 DEF FinishJoin, NextBlock
  <2>2. Has(mainQueue, {"done"}) /\ ~ Has(Tail(mainQueue), {"done"}) /\ Tail(mainQueue) \in Seq(Blocks)
        /\ HasOne(Tail(mainQueue), {"done"})
    BY <1>0, <2>1, TailFacts DEF OneJoin
  <2>3. client.pending = <<>> /\ ~ Has(dbQueue, {"readForJoin", "set"})
    BY <2>2 DEF OneJoin
  <2>4. ~ Has(mainQueue', {"done"}) /\ HasOne(mainQueue', {"done"})
    BY <2>1, <2>2, FirstEventFacts, EventsAnswerNothing
  <2>5. QED
    BY <2>1, <2>3, <2>4 DEF OneJoin
<1>4. CASE ReadKeysToJoin
  <2>1. /\ dbQueue # <<>> /\ Head(dbQueue).kind = "readForJoin"
        /\ UNCHANGED <<client, mainQueue, hud, screen, observers>>
    BY <1>4 DEF ReadKeysToJoin, NextCall, ui
  <2>2. /\ Has(dbQueue, {"readForJoin", "set"}) /\ ~ Has(Tail(dbQueue), {"readForJoin", "set"})
        /\ HasOne(Tail(dbQueue), {"readForJoin", "set"}) /\ Tail(dbQueue) \in Seq(Calls)
    BY <1>0, <2>1, TailFacts DEF OneJoin
  <2>3. HasOne(dbQueue', {"readForJoin", "set"})
    <3>1. dbQueue' \in Seq(Calls)
      BY TypesNext DEF Types
    <3>2. CASE dbQueue' = Tail(dbQueue)
      BY <2>2, <3>2
    <3>3. CASE KeysComplete(client)
      <4> DEFINE k == Head(dbQueue).key
                 c == SetList(ConvoKeys(client) (+) SetToBag({k}), k)
      <4>1. dbQueue' = Append(Tail(dbQueue), c)
        BY <1>4, <3>3 DEF ReadKeysToJoin
      <4>2. k \in Keys
        BY <1>0, <2>1, TailFacts, Carried
      <4>3. ConvoKeys(client) (+) SetToBag({k}) \in Lists
        BY <4>2, ValueFacts, ListFacts DEF ConvoKeys, Types, OneJoin
      <4>4. c \in Calls
        BY <4>2, <4>3, Made
      <4> HIDE DEF c
      <4>5. QED
        BY <2>2, <4>1, <4>4, AppendFacts
    <3>4. QED
      BY <1>4, <3>2, <3>3 DEF ReadKeysToJoin
  <2>4. QED
    BY <2>1, <2>2, <2>3, OneJoinStays DEF OneJoin
<1>5. CASE ReadKeysToShow
  <2>1. /\ dbQueue # <<>> /\ dbQueue' = Tail(dbQueue)
        /\ UNCHANGED <<client, hud, screen, observers>>
        /\ mainQueue' \in {mainQueue, Append(mainQueue, Apply(ConvoKeys(client)))}
    BY <1>5 DEF ReadKeysToShow, NextCall, ui
  <2>2. /\ HasOne(dbQueue', {"readForJoin", "set"})
        /\ Has(dbQueue', {"readForJoin", "set"}) => Has(dbQueue, {"readForJoin", "set"})
    BY <1>0, <2>1, TailFacts DEF OneJoin
  <2>3. Apply(ConvoKeys(client)).kind = "apply" /\ Apply(ConvoKeys(client)) \in Blocks
    BY ValueFacts, ListFacts, Made DEF Apply, ConvoKeys, Types, OneJoin
  <2>4. HasOne(mainQueue', {"done"}) /\ (Has(mainQueue', {"done"}) => Has(mainQueue, {"done"}))
    <3>1. Apply(ConvoKeys(client)).kind \notin {"done"}
      BY <2>3
    <3>2. /\ HasOne(Append(mainQueue, Apply(ConvoKeys(client))), {"done"})
          /\ Has(Append(mainQueue, Apply(ConvoKeys(client))), {"done"}) => Has(mainQueue, {"done"})
      BY <1>0, <2>3, <3>1, AppendOther DEF OneJoin
    <3>3. QED
      BY <2>1, <3>2 DEF OneJoin
  <2>5. QED
    BY <2>1, <2>2, <2>4, OneJoinStays
<1>6. CASE WriteKeys
  <2> DEFINE w == [list |-> Head(dbQueue).list, key |-> Head(dbQueue).key]
  <2>1. /\ hud /\ client'.pending = <<w>>
        /\ mainQueue' = mainQueue \o Raised(client, client')
        /\ ~ Has(mainQueue, {"done"}) /\ ~ Has(dbQueue', {"readForJoin", "set"})
    BY <1>6, WriteFacts
  <2>2. UNCHANGED <<hud, screen, observers>>
    BY <1>6 DEF WriteKeys, ui
  <2>3. ~ Has(mainQueue', {"done"}) /\ HasOne(mainQueue', {"done"})
    BY <1>0, <2>1, RaisedFacts, EventsAnswerNothing DEF OneJoin
  <2>4. HasOne(dbQueue', {"readForJoin", "set"})
    BY <2>1 DEF Has, HasOne, Elements
  <2> HIDE DEF w
  <2>5. Len(<<w>>) = 1
    OBVIOUS
  <2>6. QED
    BY <2>1, <2>2, <2>3, <2>4, <2>5 DEF OneJoin
<1>7. CASE ReceiveData
  <2>1. /\ client'.pending = client.pending /\ mainQueue' = mainQueue \o Raised(client, client')
        /\ UNCHANGED <<hud, screen, observers, dbQueue>>
    BY <1>7 DEF ReceiveData, ui, Types, Clients
  <2>2. HasOne(mainQueue', {"done"}) /\ (Has(mainQueue', {"done"}) => Has(mainQueue, {"done"}))
    BY <1>0, <2>1, RaisedFacts, EventsAnswerNothing DEF OneJoin
  <2>3. QED
    BY <2>1, <2>2, OneJoinStays DEF OneJoin
<1>8. CASE ReceiveAck
  <2> DEFINE a == Head(toClient)
             b == Done(a.write.key, a.ok)
             q == mainQueue \o Raised(client, client')
  <2>1. /\ hud /\ client'.pending = <<>> /\ mainQueue' = Append(q, b)
        /\ ~ Has(mainQueue, {"done"}) /\ ~ Has(dbQueue, {"readForJoin", "set"})
        /\ a.write \in Write /\ a.ok \in BOOLEAN
    BY <1>8, AckFacts
  <2>2. UNCHANGED <<hud, screen, observers, dbQueue>>
    BY <1>8 DEF ReceiveAck, ui
  <2>3. q \in Seq(Blocks) /\ ~ Has(q, {"done"}) /\ HasOne(q, {"done"})
    BY <1>0, <2>1, RaisedFacts, ConcatProperties, EventsAnswerNothing DEF OneJoin
  <2>4. b \in Blocks
    BY <2>1, Made DEF Write
  <2> HIDE DEF b, q
  <2>5. HasOne(mainQueue', {"done"})
    BY <2>1, <2>3, <2>4, AppendFacts
  <2>6. Len(<<>>) = 0
    OBVIOUS
  <2>7. QED
    BY <2>1, <2>2, <2>5, <2>6 DEF OneJoin
<1>9. CASE Serve \/ Drop \/ Reconnect
  <2>1. UNCHANGED <<client, dbQueue, mainQueue, hud, screen, observers>>
    BY <1>9 DEF Serve, ServerListen, ServerPut, ServerReject, Drop, Reconnect, queues, ui
  <2>2. QED
    BY <2>1, OneJoinStays DEF OneJoin
<1>10. QED
  BY <1>1, <1>2, <1>3, <1>4, <1>5, <1>6, <1>7, <1>8, <1>9 DEF Moves, Database, Receive

-----------------------------------------------------------------------------
(* What a join is about to write, and what is stored.                      *)

\* When nothing is pending and the view is complete, it is what is stored.
LEMMA KeysRead ==
  ASSUME IInv, client.pending = <<>>, client.complete, NEW k \in Keys
  PROVE  LET list == ConvoKeys(client) (+) SetToBag({k})
         IN  BagToSet(list) = BagToSet(stored) \cup {k}
<1>1. Value(client) = stored
  BY DEF IInv, Telling, Value
<1>2. QED
  BY <1>1, ListFacts DEF ConvoKeys, IInv, Types

LEMMA KeptNext ==
  ASSUME IInv, Moves
  PROVE  Kept' /\ BagToSet(stored) \subseteq BagToSet(stored')
<1> USE DEF IInv
<1>0. mainQueue \in Seq(Blocks) /\ dbQueue \in Seq(Calls) /\ observers \in Nat
  BY ChannelsAssumption DEF Types
<1>1. CASE Screens
  <2>1. UNCHANGED <<stored, client, joined>>
    BY <1>1 DEF Screens, OpenJoin, CloseJoin, Continue, Launch, server
  <2>2. \A c \in Elements(dbQueue') : c.kind = "set" => c \in Elements(dbQueue)
    <3>1. ASSUME NEW k \in Keys, Continue(k)
          PROVE  \A c \in Elements(dbQueue') : c.kind = "set" => c \in Elements(dbQueue)
      <4>1. dbQueue' = Append(dbQueue, ReadForJoin(k)) /\ ReadForJoin(k).kind # "set"
        BY <3>1 DEF Continue, ReadForJoin
      <4>2. QED
        BY <1>0, <4>1, Made, AppendFacts
    <3>2. OpenJoin \/ CloseJoin \/ Launch => dbQueue' = dbQueue
      BY DEF OpenJoin, CloseJoin, Launch, queues
    <3>3. QED
      BY <1>1, <3>1, <3>2 DEF Screens
  <2>3. \A b \in Elements(mainQueue') : b.kind = "done" => b \in Elements(mainQueue)
    <3>1. CASE CloseJoin
      <4>1. mainQueue' = mainQueue \o FirstEvent
        BY <3>1 DEF CloseJoin
      <4>2. QED
        BY <1>0, <4>1, FirstEventFacts, ConcatFacts
    <3>2. OpenJoin \/ (\E k \in Keys : Continue(k)) \/ Launch => mainQueue' = mainQueue
      BY DEF OpenJoin, Continue, Launch, queues
    <3>3. QED
      BY <1>1, <3>1, <3>2 DEF Screens
  <2>4. QED
    BY <2>1, <2>2, <2>3 DEF Kept, Adds
<1>2. CASE Refresh \/ FetchKeys \/ ShowItems
  <2>1. mainQueue # <<>> /\ UNCHANGED <<stored, client, joined>>
    BY <1>2 DEF Refresh, FetchKeys, ShowItems, NextBlock, server, ui
  <2>2. mainQueue' \in {Tail(mainQueue), Append(Tail(mainQueue), Fetch)}
        /\ dbQueue' \in {dbQueue, Append(dbQueue, ReadForList)}
    BY <1>2 DEF Refresh, FetchKeys, ShowItems
  <2>3. Fetch.kind = "fetch" /\ ReadForList.kind = "readForList"
    BY DEF Fetch, ReadForList
  <2>4. Tail(mainQueue) \in Seq(Blocks) /\ Elements(Tail(mainQueue)) \subseteq Elements(mainQueue)
    BY <1>0, <2>1, TailFacts
  <2>5. \A b \in Elements(mainQueue') : b.kind = "done" => b \in Elements(mainQueue)
    <3>1. Elements(Append(Tail(mainQueue), Fetch)) = Elements(Tail(mainQueue)) \cup {Fetch}
      BY <2>4, Made, AppendFacts
    <3>2. CASE mainQueue' = Tail(mainQueue)
      BY <2>4, <3>2
    <3>3. CASE mainQueue' = Append(Tail(mainQueue), Fetch)
      BY <2>3, <2>4, <3>1, <3>3
    <3>4. QED
      BY <2>2, <3>2, <3>3
  <2>6. \A c \in Elements(dbQueue') : c.kind = "set" => c \in Elements(dbQueue)
    <3>1. Elements(Append(dbQueue, ReadForList)) = Elements(dbQueue) \cup {ReadForList}
      BY <1>0, Made, AppendFacts
    <3>2. CASE dbQueue' = dbQueue
      BY <3>2
    <3>3. CASE dbQueue' = Append(dbQueue, ReadForList)
      BY <2>3, <3>1, <3>3
    <3>4. QED
      BY <2>2, <3>2, <3>3
  <2>7. QED
    BY <2>1, <2>5, <2>6 DEF Kept, Adds
<1>3. CASE FinishJoin
  <2> DEFINE done == Head(mainQueue)
  <2>1. /\ mainQueue # <<>> /\ done.kind = "done"
        /\ joined' = IF done.ok THEN joined \cup {done.key} ELSE joined
        /\ mainQueue' \in {Tail(mainQueue), Tail(mainQueue) \o FirstEvent}
        /\ UNCHANGED <<stored, client, dbQueue>>
    BY <1>3 DEF FinishJoin, NextBlock, server
  <2>2. /\ done \in Elements(mainQueue) /\ Tail(mainQueue) \in Seq(Blocks)
        /\ Elements(Tail(mainQueue)) \subseteq Elements(mainQueue)
    BY <1>0, <2>1, TailFacts
  <2>3. \A b \in Elements(mainQueue') : b.kind = "done" => b \in Elements(mainQueue)
    <3>1. Elements(Tail(mainQueue) \o FirstEvent) = Elements(Tail(mainQueue)) \cup Elements(FirstEvent)
      BY <2>2, FirstEventFacts, ConcatFacts
    <3>2. CASE mainQueue' = Tail(mainQueue)
      BY <2>2, <3>2
    <3>3. CASE mainQueue' = Tail(mainQueue) \o FirstEvent
      BY <2>2, <3>1, <3>3, FirstEventFacts
    <3>4. QED
      BY <2>1, <3>2, <3>3
  <2>4. joined' \subseteq BagToSet(stored)
    BY <2>1, <2>2 DEF Kept
  <2> HIDE DEF done
  <2>5. QED
    BY <2>1, <2>3, <2>4 DEF Kept, Adds
<1>4. CASE ReadKeysToJoin
  <2>1. /\ dbQueue # <<>> /\ Head(dbQueue).kind = "readForJoin"
        /\ UNCHANGED <<client, mainQueue, stored, joined>>
    BY <1>4 DEF ReadKeysToJoin, NextCall, server, ui
  <2>2. /\ Tail(dbQueue) \in Seq(Calls) /\ Elements(Tail(dbQueue)) \subseteq Elements(dbQueue)
        /\ Has(dbQueue, {"readForJoin", "set"}) /\ Head(dbQueue) \in Calls
    BY <1>0, <2>1, TailFacts
  <2>3. \A c \in Elements(dbQueue') : c.kind = "set" => client.complete /\ Adds(c)
    <3>1. CASE dbQueue' = Tail(dbQueue)
      BY <2>2, <3>1 DEF Kept
    <3>2. CASE KeysComplete(client)
      <4> DEFINE k    == Head(dbQueue).key
                 list == ConvoKeys(client) (+) SetToBag({k})
      <4>1. dbQueue' = Append(Tail(dbQueue), SetList(list, k))
        BY <1>4, <3>2 DEF ReadKeysToJoin
      <4>2. k \in Keys /\ client.pending = <<>> /\ client.complete
        BY <2>1, <2>2, <3>2, Carried DEF OneJoin, KeysComplete
      <4>3. BagToSet(list) = BagToSet(stored) \cup {k}
        BY <4>2, KeysRead
      <4>4. list \in Lists
        BY <4>2, ValueFacts, ListFacts DEF ConvoKeys, Types, OneJoin
      <4> HIDE DEF list, k
      <4>5. SetList(list, k) \in Calls /\ SetList(list, k).list = list /\ SetList(list, k).key = k
        BY <4>2, <4>4, Made DEF SetList
      <4>6. Adds(SetList(list, k))
        BY <4>3, <4>5 DEF Adds
      <4>7. Elements(dbQueue') = Elements(Tail(dbQueue)) \cup {SetList(list, k)}
        BY <2>2, <4>1, <4>5, AppendFacts
      <4>8. QED
        BY <2>2, <4>2, <4>6, <4>7 DEF Kept
    <3>3. QED
      BY <1>4, <3>1, <3>2 DEF ReadKeysToJoin
  <2>4. QED
    BY <2>1, <2>3 DEF Kept, Adds
<1>5. CASE ReadKeysToShow
  <2>1. /\ dbQueue # <<>> /\ dbQueue' = Tail(dbQueue) /\ UNCHANGED <<client, stored, joined>>
        /\ mainQueue' \in {mainQueue, Append(mainQueue, Apply(ConvoKeys(client)))}
    BY <1>5 DEF ReadKeysToShow, NextCall, server, ui
  <2>2. Elements(dbQueue') \subseteq Elements(dbQueue)
    BY <1>0, <2>1, TailFacts
  <2>3. Apply(ConvoKeys(client)).kind = "apply" /\ Apply(ConvoKeys(client)) \in Blocks
    BY ValueFacts, ListFacts, Made DEF Apply, ConvoKeys, Types, OneJoin
  <2>4. \A b \in Elements(mainQueue') : b.kind = "done" => b \in Elements(mainQueue)
    <3>1. Elements(Append(mainQueue, Apply(ConvoKeys(client))))
            = Elements(mainQueue) \cup {Apply(ConvoKeys(client))}
      BY <1>0, <2>3, AppendFacts
    <3>2. QED
      BY <2>1, <2>3, <3>1
  <2>5. QED
    BY <2>1, <2>2, <2>4 DEF Kept, Adds
<1>6. CASE WriteKeys
  <2> DEFINE w == [list |-> Head(dbQueue).list, key |-> Head(dbQueue).key]
  <2>1. /\ client'.pending = <<w>> /\ client'.complete /\ Adds(w)
        /\ mainQueue' = mainQueue \o Raised(client, client')
    BY <1>6, WriteFacts
  <2>2. dbQueue # <<>> /\ dbQueue' = Tail(dbQueue) /\ UNCHANGED <<stored, joined>>
    BY <1>6 DEF WriteKeys, NextCall, server, ui
  <2>3. Elements(dbQueue') \subseteq Elements(dbQueue)
    BY <1>0, <2>2, TailFacts
  <2>4. \A b \in Elements(mainQueue') : b.kind = "done" => b \in Elements(mainQueue)
    BY <1>0, <2>1, RaisedFacts, ConcatFacts
  <2> HIDE DEF w
  <2>5. Elements(client'.pending) = {w}
    BY <2>1, OneElement
  <2>6. QED
    BY <2>1, <2>2, <2>3, <2>4, <2>5 DEF Kept, Adds
<1>7. CASE ReceiveData
  <2>1. /\ client'.pending = client.pending /\ client'.complete
        /\ mainQueue' = mainQueue \o Raised(client, client')
        /\ UNCHANGED <<stored, joined, dbQueue>>
    BY <1>7 DEF ReceiveData, server, ui, Types, Clients
  <2>2. \A b \in Elements(mainQueue') : b.kind = "done" => b \in Elements(mainQueue)
    BY <1>0, <2>1, RaisedFacts, ConcatFacts
  <2>3. QED
    BY <2>1, <2>2 DEF Kept, Adds
<1>8. CASE ReceiveAck
  <2> DEFINE a == Head(toClient)
             b == Done(a.write.key, a.ok)
             q == mainQueue \o Raised(client, client')
  <2>1. /\ client'.pending = <<>> /\ client'.complete = client.complete
        /\ mainQueue' = Append(q, b)
        /\ a.write \in Write /\ a.ok \in BOOLEAN /\ (a.ok => stored = a.write.list)
        /\ a.write \in Elements(client.pending)
    BY <1>8, AckFacts
  <2>2. UNCHANGED <<stored, joined, dbQueue>>
    BY <1>8 DEF ReceiveAck, server, ui
  <2>3. q \in Seq(Blocks) /\ Elements(q) = Elements(mainQueue) \cup Elements(Raised(client, client'))
        /\ \A e \in Elements(Raised(client, client')) : e.kind = "event"
    BY <1>0, RaisedFacts, ConcatFacts
  <2>4. b \in Blocks /\ b.key = a.write.key /\ b.ok = a.ok
    BY <2>1, Made DEF Write, Done
  <2>5. b.ok => b.key \in BagToSet(stored)
    BY <2>1, <2>4 DEF Kept, Adds
  <2> HIDE DEF b, q
  <2>6. Elements(mainQueue') = Elements(q) \cup {b}
    BY <2>1, <2>3, <2>4, AppendFacts
  <2>7. \A e \in Elements(mainQueue') : e.kind = "done" /\ e.ok => e.key \in BagToSet(stored)
    BY <2>3, <2>5, <2>6 DEF Kept
  <2>8. QED
    BY <2>1, <2>2, <2>7, EmptyFacts DEF Kept, Adds
<1>9. CASE ServerPut
  <2>1. /\ client.pending # <<>> /\ Elements(client.pending) = {client.pending[1]}
        /\ stored' = client.pending[1].list
    BY <1>9, PutFacts DEF ServerPut
  <2>2. UNCHANGED <<client, dbQueue, mainQueue, joined>>
    BY <1>9 DEF ServerPut, queues, ui
  <2>3. Adds(client.pending[1])
    BY <2>1 DEF Kept
  <2>4. BagToSet(stored) \subseteq BagToSet(stored') /\ Adds(client.pending[1])'
    BY <2>1, <2>2, <2>3 DEF Adds
  <2>5. ~ Has(dbQueue, {"readForJoin", "set"})
    BY <2>1 DEF OneJoin
  <2>6. \A c \in Elements(dbQueue) : c.kind # "set"
    BY <2>5 DEF Has
  <2>7. QED
    BY <2>1, <2>2, <2>4, <2>6 DEF Kept
<1>10. CASE ServerListen \/ ServerReject \/ Drop \/ Reconnect
  <2>1. UNCHANGED <<stored, client, dbQueue, mainQueue, joined>>
    BY <1>10 DEF ServerListen, ServerReject, Drop, Reconnect, server, queues, ui
  <2>2. QED
    BY <2>1 DEF Kept, Adds
<1>11. QED
  BY <1>1, <1>2, <1>3, <1>4, <1>5, <1>6, <1>7, <1>8, <1>9, <1>10 DEF Moves, Database, Receive, Serve


-----------------------------------------------------------------------------
(* The server and the client that listens.                                 *)

LEMMA AcksLast ==
  ASSUME NEW q \in Seq(Answers), NEW e \in Answers
  PROVE  /\ (\A x \in Elements(q) : x.kind # "ack")
              => \A n \in DOMAIN Append(q, e) : Append(q, e)[n].kind = "ack" => n = Len(Append(q, e))
         /\ q # <<>> /\ (\A n \in DOMAIN q : q[n].kind = "ack" => n = Len(q))
              => \A n \in DOMAIN Tail(q) : Tail(q)[n].kind = "ack" => n = Len(Tail(q))
<1>1. ASSUME \A x \in Elements(q) : x.kind # "ack", NEW n \in DOMAIN Append(q, e),
             Append(q, e)[n].kind = "ack"
      PROVE  n = Len(Append(q, e))
  <2>1. /\ Len(q) \in Nat /\ DOMAIN q = 1 .. Len(q) /\ DOMAIN Append(q, e) = 1 .. Len(q) + 1
        /\ Len(Append(q, e)) = Len(q) + 1
        /\ \A k \in 1 .. Len(q) : Append(q, e)[k] = q[k]
    BY AppendProperties, LenProperties
  <2>2. ASSUME n # Len(q) + 1 PROVE FALSE
    <3>1. n \in DOMAIN q /\ Append(q, e)[n] = q[n]
      BY <2>1, <2>2
    <3>2. QED
      BY <1>1, <3>1 DEF Elements
  <2>3. QED
    BY <2>1, <2>2
<1>2. ASSUME q # <<>>, \A n \in DOMAIN q : q[n].kind = "ack" => n = Len(q),
             NEW n \in DOMAIN Tail(q), Tail(q)[n].kind = "ack"
      PROVE  n = Len(Tail(q))
  <2>1. /\ Len(q) \in Nat \ {0} /\ DOMAIN q = 1 .. Len(q) /\ DOMAIN Tail(q) = 1 .. Len(q) - 1
        /\ Len(Tail(q)) = Len(q) - 1
        /\ \A k \in 1 .. Len(q) - 1 : Tail(q)[k] = q[k + 1]
    BY <1>2, HeadTailProperties, EmptySeq, LenProperties
  <2>2. n + 1 \in DOMAIN q /\ q[n + 1].kind = "ack" /\ n \in Nat
    BY <1>2, <2>1
  <2>3. n + 1 = Len(q) /\ Len(Tail(q)) = Len(q) - 1 /\ Len(q) \in Nat /\ n \in Nat
    BY <1>2, <2>1, <2>2
  <2>4. QED
    BY <2>3
<1>3. QED
  BY <1>1, <1>2

LEMMA TellingNext ==
  ASSUME IInv, Moves
  PROVE  Telling'
<1> USE DEF IInv
<1>0. toClient \in Seq(Answers) /\ stored \in Lists /\ client.pending \in Seq(Write)
  BY DEF Types, Clients
<1>1. CASE UNCHANGED <<watching, toClient, toServer, client, stored>>
  BY <1>1 DEF Telling
<1>2. CASE Launch
  <2>1. ~ watching' /\ toClient' = <<>> /\ client'.complete = FALSE
    BY <1>2 DEF Launch, Stopped, server, FreshClient
  <2>2. QED
    BY <2>1, EmptyFacts, LastDataFacts DEF Telling
<1>3. CASE WriteKeys
  <2> DEFINE w == [list |-> Head(dbQueue).list, key |-> Head(dbQueue).key]
  <2>1. /\ client.pending = <<>> /\ client'.pending = <<w>>
        /\ client'.complete = client.complete /\ client'.cache = client.cache
    BY <1>3, WriteFacts
  <2>2. UNCHANGED <<stored, watching, toClient>>
    BY <1>3 DEF WriteKeys, server
  <2>3. \A a \in Elements(toClient) : a.kind # "ack"
    BY <2>1 DEF Telling
  <2> HIDE DEF w
  <2>4. <<w>> # <<>>
    OBVIOUS
  <2>5. QED
    BY <2>1, <2>2, <2>3, <2>4 DEF Telling
<1>4. CASE ReceiveData
  <2> DEFINE list == Head(toClient).list
  <2>1. /\ toClient # <<>> /\ Head(toClient).kind = "data" /\ toClient' = Tail(toClient)
        /\ UNCHANGED <<stored, watching, toServer>>
    BY <1>4 DEF ReceiveData, server
  <2>2. client'.pending = client.pending /\ client'.complete /\ client'.cache = list
    BY <1>4 DEF ReceiveData, Types, Clients
  <2>3. /\ Head(toClient) \in Elements(toClient)
        /\ Elements(Tail(toClient)) \subseteq Elements(toClient)
    BY <1>0, <2>1, TailFacts
  <2>4. \A n \in DOMAIN Tail(toClient) : Tail(toClient)[n].kind = "ack" => n = Len(Tail(toClient))
    <3>1. Data(stored) \in Answers
      BY <1>0, Made
    <3>2. QED
      BY <1>0, <2>1, <3>1, AcksLast DEF Telling
  <2>5. /\ LastData(Tail(toClient), stored)
        /\ list # stored => Data(stored) \in Elements(Tail(toClient))
    BY <1>0, <2>1, LastDataFacts DEF Telling
  <2>6. client.pending = <<>> => list = stored
    BY <2>1, <2>3 DEF Telling
  <2> HIDE DEF list
  <2>7. QED
    BY <2>1, <2>2, <2>3, <2>4, <2>5, <2>6 DEF Telling
<1>5. CASE ReceiveAck
  <2>1. /\ toClient' = <<>> /\ client.complete /\ client.cache = stored
        /\ client'.complete = client.complete /\ client'.cache = client.cache
    BY <1>5, AckFacts
  <2>2. UNCHANGED <<stored, watching>>
    BY <1>5 DEF ReceiveAck, server
  <2>3. QED
    BY <2>1, <2>2, EmptyFacts, LastDataFacts DEF Telling
<1>6. CASE ServerListen
  <2>1. /\ toServer # <<>> /\ Head(toServer) = Listen /\ watching'
        /\ toClient' = Append(toClient, Data(stored)) /\ UNCHANGED <<stored, client>>
    BY <1>6 DEF ServerListen
  <2>2. toServer[1] = Listen
    BY <2>1, TailFacts DEF Types
  <2>3. toClient = <<>>
    BY <2>1, <2>2 DEF Asking, Telling
  <2>4. Append(<<>>, Data(stored)) = <<Data(stored)>>
    OBVIOUS
  <2>5. toClient' = <<Data(stored)>> /\ Elements(toClient') = {Data(stored)}
    BY <2>1, <2>3, <2>4, OneElement
  <2>6. Data(stored).kind = "data" /\ Data(stored).list = stored /\ Data(stored) \in Answers
    BY <1>0, Made DEF Data
  <2>7. LastData(toClient', stored)
    BY <1>0, <2>1, <2>6, LastDataFacts
  <2>8. \A n \in DOMAIN toClient' : toClient'[n].kind # "ack"
    BY <2>5, <2>6 DEF Elements
  <2>9. client.pending = <<>> /\ client.complete => client.cache = stored
    BY DEF Telling
  <2>10. QED
    BY <2>1, <2>5, <2>6, <2>7, <2>8, <2>9 DEF Telling
<1>7. CASE ServerPut
  <2> DEFINE w    == Head(toServer).write
             told == watching /\ w.list # stored
             mid  == IF told THEN Append(toClient, Data(w.list)) ELSE toClient
  <2>1. /\ toServer = <<Put(client.pending[1])>> /\ w = client.pending[1] /\ client.pending # <<>>
        /\ w \in Write /\ Tail(toServer) = <<>> /\ watching
    BY <1>7, PutFacts DEF ServerPut
  <2>2. /\ stored' = w.list /\ toServer' = <<>> /\ UNCHANGED <<watching, client>>
        /\ toClient' = toClient \o (IF told THEN <<Data(w.list)>> ELSE <<>>) \o <<Ack(w, TRUE)>>
    BY <1>7, <2>1 DEF ServerPut
  <2>3. w.list \in Lists /\ Data(w.list) \in Answers /\ Ack(w, TRUE) \in Answers
    BY <2>1, Made DEF Write
  <2>4. \A a \in Elements(toClient) : a.kind # "ack"
    <3>1. toServer # <<>>
      BY <2>1, OneElement
    <3>2. QED
      BY <3>1 DEF Telling
  <2> HIDE DEF w
  <2>5. /\ mid \in Seq(Answers)
        /\ Elements(mid) = Elements(toClient) \cup (IF told THEN {Data(w.list)} ELSE {})
    BY <1>0, <2>3, AppendFacts
  <2>6. LastData(mid, w.list)
    <3>1. CASE told
      BY <1>0, <2>3, <3>1, LastDataFacts
    <3>2. CASE ~ told
      BY <2>1, <3>2 DEF Telling
    <3>3. QED
      BY <3>1, <3>2
  <2>7. toClient \o (IF told THEN <<Data(w.list)>> ELSE <<>>) = mid
    <3>1. Append(toClient, Data(w.list)) = toClient \o <<Data(w.list)>>
      BY <1>0, <2>3, AppendIsConcat
    <3>2. toClient \o <<>> = toClient
      BY <1>0, ConcatEmptySeq
    <3>3. QED
      BY <3>1, <3>2
  <2>8. ~ told => w.list = stored
    BY <2>1
  <2> HIDE DEF mid, told
  <2>9. toClient' = Append(mid, Ack(w, TRUE))
    BY <2>2, <2>3, <2>5, <2>7, AppendIsConcat
  <2>10. /\ Data(w.list).kind = "data"
         /\ Ack(w, TRUE).kind = "ack" /\ Ack(w, TRUE).write = w
    BY DEF Data, Ack
  <2>11. Elements(toClient') = Elements(mid) \cup {Ack(w, TRUE)}
    BY <2>3, <2>5, <2>9, AppendFacts
  <2>12. \A a \in Elements(mid) : a.kind # "ack"
    BY <2>4, <2>5, <2>10
  <2>13. \A n \in DOMAIN toClient' : toClient'[n].kind = "ack" => n = Len(toClient')
    BY <2>3, <2>5, <2>9, <2>12, AcksLast
  <2>14. LastData(toClient', stored')
    <3>1. LastData(Append(mid, Ack(w, TRUE)), w.list)
      BY <2>3, <2>5, <2>6, <2>10, LastDataFacts
    <3>2. QED
      BY <2>2, <2>9, <3>1
  <2>15. \A a \in Elements(toClient') : a.kind = "ack" => a.write = w
    BY <2>10, <2>11, <2>12
  <2>16. (client.complete /\ client.cache = stored') \/ Data(stored') \in Elements(toClient')
    <3>1. CASE told
      BY <2>2, <2>5, <2>11, <3>1
    <3>2. CASE ~ told
      BY <2>1, <2>2, <2>5, <2>8, <2>11, <3>2 DEF Telling
    <3>3. QED
      BY <3>1, <3>2
  <2>17. QED
    BY <2>1, <2>2, <2>13, <2>14, <2>15, <2>16 DEF Telling
<1>8. CASE ServerReject
  <2> DEFINE w == Head(toServer).write
  <2>1. /\ toServer = <<Put(client.pending[1])>> /\ w = client.pending[1] /\ client.pending # <<>>
        /\ w \in Write /\ Tail(toServer) = <<>> /\ watching
    BY <1>8, PutFacts DEF ServerReject
  <2>2. /\ toServer' = <<>> /\ UNCHANGED <<stored, watching, client>>
        /\ toClient' = Append(toClient, Ack(w, FALSE))
    BY <1>8, <2>1 DEF ServerReject, server
  <2>3. Ack(w, FALSE) \in Answers
    BY <2>1, Made
  <2>4. \A a \in Elements(toClient) : a.kind # "ack"
    <3>1. toServer # <<>>
      BY <2>1, OneElement
    <3>2. QED
      BY <3>1 DEF Telling
  <2> HIDE DEF w
  <2>5. Ack(w, FALSE).kind = "ack" /\ Ack(w, FALSE).write = w /\ Ack(w, FALSE).ok = FALSE
    BY DEF Ack
  <2>6. Elements(toClient') = Elements(toClient) \cup {Ack(w, FALSE)}
    BY <1>0, <2>2, <2>3, AppendFacts
  <2>7. \A n \in DOMAIN toClient' : toClient'[n].kind = "ack" => n = Len(toClient')
    BY <1>0, <2>2, <2>3, <2>4, AcksLast
  <2>8. LastData(toClient', stored)
    BY <1>0, <2>2, <2>3, <2>5, LastDataFacts DEF Telling
  <2>9. \A a \in Elements(toClient') : a.kind = "ack" => a.write = w /\ ~ a.ok
    BY <2>4, <2>5, <2>6
  <2>10. (client.complete /\ client.cache = stored) \/ Data(stored) \in Elements(toClient')
    BY <2>1, <2>6 DEF Telling
  <2>11. QED
    BY <2>1, <2>2, <2>7, <2>8, <2>9, <2>10 DEF Telling
<1>9. CASE Drop
  <2>1. ~ watching' /\ toClient' = <<>> /\ UNCHANGED <<stored, client>>
    BY <1>9 DEF Drop
  <2>2. client.pending = <<>> /\ client.complete => client.cache = stored
    BY DEF Telling
  <2>3. QED
    BY <2>1, <2>2, EmptyFacts, LastDataFacts DEF Telling
<1>10. CASE Reconnect
  <2>1. ~ watching' /\ toClient' = <<>> /\ UNCHANGED <<stored, client>>
    BY <1>10 DEF Reconnect, Asking, Telling, server
  <2>2. client.pending = <<>> /\ client.complete => client.cache = stored
    BY DEF Telling
  <2>3. QED
    BY <2>1, <2>2, EmptyFacts, LastDataFacts DEF Telling
<1>11. QED
  <2>1. Screens => Launch \/ UNCHANGED <<watching, toClient, toServer, client, stored>>
    BY DEF Screens, OpenJoin, CloseJoin, Continue, server, network
  <2>2. Refresh \/ FetchKeys \/ ShowItems \/ FinishJoin \/ ReadKeysToJoin \/ ReadKeysToShow
          => UNCHANGED <<watching, toClient, toServer, client, stored>>
    BY DEF Refresh, FetchKeys, ShowItems, FinishJoin, ReadKeysToJoin, ReadKeysToShow, server, network
  <2>3. QED
    BY <1>1, <1>2, <1>3, <1>4, <1>5, <1>6, <1>7, <1>8, <1>9, <1>10, <2>1, <2>2
       DEF Moves, Database, Receive, Serve

-----------------------------------------------------------------------------
(* The list and the client's view.                                         *)

\* The client's view stays, and so does what is waiting to show it.
LEMMA FollowingStays ==
  ASSUME Following, Running' => Running, named' = named, items' = items,
         client'.complete => client.complete, Value(client') = Value(client),
         Has(mainQueue, {"event", "fetch"}) => Has(mainQueue', {"event", "fetch"}),
         Has(dbQueue, {"readForList"}) => Has(dbQueue', {"readForList"}),
         LastApply(mainQueue, BagToSet(Value(client))) => LastApply(mainQueue', BagToSet(Value(client))),
         Has(mainQueue', {"apply"}) => Has(mainQueue, {"apply"})
  PROVE  Following'
<1>1. KeysComplete(client') = (client'.complete /\ (named' \/ Value(client') # EmptyBag))
      /\ KeysComplete(client)' = (client'.complete /\ (named' \/ Value(client') # EmptyBag))
  BY DEF KeysComplete
<1>2. KeysComplete(client)' => KeysComplete(client)
  BY <1>1 DEF KeysComplete
<1>3. QED
  BY <1>2 DEF Following

\* Events added to the main queue leave what waits there.
LEMMA EventsStay ==
  ASSUME NEW q \in Seq(Blocks), NEW r \in Seq(Blocks), \A e \in Elements(r) : e.kind = "event"
  PROVE  /\ Has(q, {"event", "fetch"}) \/ Has(r, {"event", "fetch"}) <=> Has(q \o r, {"event", "fetch"})
         /\ Has(q \o r, {"apply"}) => Has(q, {"apply"})
         /\ \A keys : LastApply(q, keys) => LastApply(q \o r, keys)
<1>1. ~ Has(r, {"apply"})
  BY DEF Has
<1>2. QED
  BY <1>1, ConcatFacts, LastApplyFacts

\* A new view of the client is announced to every observer.
LEMMA NewViewFollowed ==
  ASSUME IInv, Running, Running', UNCHANGED <<named, items>>,
         Has(dbQueue, {"readForList"}) => Has(dbQueue', {"readForList"}),
         client'.complete,
         LET q == mainQueue \o Raised(client, client')
         IN  \/ mainQueue' = q
             \/ \E b \in Blocks : b.kind = "done" /\ mainQueue' = Append(q, b)
  PROVE  Following'
<1> DEFINE q == mainQueue \o Raised(client, client')
<1>1. mainQueue \in Seq(Blocks) /\ observers \in Nat /\ observers > 0
  BY ChannelsAssumption DEF IInv, Types, Stopped
<1>2. /\ Raised(client, client') \in Seq(Blocks)
      /\ \A e \in Elements(Raised(client, client')) : e.kind = "event"
      /\ ~ client.complete \/ Value(client') # Value(client)
           => Has(Raised(client, client'), {"event", "fetch"})
  BY <1>1, RaisedFacts
<1>3. /\ Has(mainQueue, {"event", "fetch"}) \/ Has(Raised(client, client'), {"event", "fetch"})
           => Has(q, {"event", "fetch"})
      /\ Has(q, {"apply"}) => Has(mainQueue, {"apply"})
      /\ \A keys : LastApply(mainQueue, keys) => LastApply(q, keys)
      /\ q \in Seq(Blocks)
  BY <1>1, <1>2, EventsStay, ConcatProperties
<1>4. /\ Has(q, {"event", "fetch"}) => Has(mainQueue', {"event", "fetch"})
      /\ Has(mainQueue', {"apply"}) => Has(q, {"apply"})
      /\ \A keys : LastApply(q, keys) => LastApply(mainQueue', keys)
  <2>1. CASE mainQueue' = q
    BY <2>1
  <2>2. ASSUME NEW b \in Blocks, b.kind = "done", mainQueue' = Append(q, b)
        PROVE  /\ Has(q, {"event", "fetch"}) => Has(mainQueue', {"event", "fetch"})
               /\ Has(mainQueue', {"apply"}) => Has(q, {"apply"})
               /\ \A keys : LastApply(q, keys) => LastApply(mainQueue', keys)
    <3>1. Has(q, {"event", "fetch"}) => Has(Append(q, b), {"event", "fetch"})
      BY <1>3, AppendFacts
    <3>2. b.kind \notin {"apply"}
      BY <2>2
    <3>3. Has(Append(q, b), {"apply"}) => Has(q, {"apply"})
      BY <1>3, <3>2, AppendOther
    <3>4. \A keys : LastApply(q, keys) => LastApply(Append(q, b), keys)
      BY <1>3, <2>2, LastApplyFacts
    <3>5. QED
      BY <2>2, <3>1, <3>3, <3>4
  <2>3. QED
    BY <2>1, <2>2
<1>5. CASE ~ client.complete \/ Value(client') # Value(client)
  BY <1>2, <1>3, <1>4, <1>5 DEF Following
<1>6. CASE client.complete /\ Value(client') = Value(client)
  BY <1>3, <1>4, <1>6, FollowingStays DEF IInv
<1>7. QED
  BY <1>5, <1>6


LEMMA FollowingNext ==
  ASSUME IInv, Moves
  PROVE  Following'
<1> USE DEF IInv
<1>0. mainQueue \in Seq(Blocks) /\ dbQueue \in Seq(Calls)
  BY DEF Types
<1>1. CASE Launch
  <2>1. client'.complete = FALSE
    BY <1>1 DEF Launch, Stopped, FreshClient
  <2>2. QED
    BY <2>1 DEF Following, KeysComplete
<1>2. CASE ~ Running /\ ~ Launch
  <2>1. ~ Running'
    BY <1>2, StillMoves DEF Drop, Reconnect, ui, Running
  <2>2. QED
    BY <2>1 DEF Following
<1>3. CASE OpenJoin \/ Drop \/ Reconnect \/ Serve
  <2>1. UNCHANGED <<client, named, items, mainQueue, dbQueue>>
    BY <1>3 DEF OpenJoin, Drop, Reconnect, Serve, ServerListen, ServerPut, ServerReject, server, queues, ui
  <2>2. Running' => Running
    BY <1>3 DEF OpenJoin, Drop, Reconnect, Serve, ServerListen, ServerPut, ServerReject, ui, Running
  <2>3. QED
    BY <2>1, <2>2, FollowingStays
<1>4. CASE CloseJoin
  <2>1. /\ UNCHANGED <<client, named, items, dbQueue>> /\ Running
        /\ mainQueue' = mainQueue \o FirstEvent
    BY <1>4 DEF CloseJoin, server, Running
  <2>2. /\ Has(mainQueue, {"event", "fetch"}) => Has(mainQueue', {"event", "fetch"})
        /\ Has(mainQueue', {"apply"}) => Has(mainQueue, {"apply"})
        /\ \A keys : LastApply(mainQueue, keys) => LastApply(mainQueue', keys)
    BY <1>0, <2>1, FirstEventFacts, EventsStay
  <2>3. QED
    BY <2>1, <2>2, FollowingStays
<1>5. ASSUME NEW k \in Keys, Continue(k) PROVE Following'
  <2>1. /\ UNCHANGED <<client, named, items, mainQueue, screen>>
        /\ dbQueue' = Append(dbQueue, ReadForJoin(k))
    BY <1>5 DEF Continue, server
  <2>2. Has(dbQueue, {"readForList"}) => Has(dbQueue', {"readForList"})
    BY <1>0, <2>1, Made, AppendFacts
  <2>3. QED
    BY <2>1, <2>2, FollowingStays DEF Running
<1>6. CASE Refresh
  <2>1. mainQueue # <<>> /\ mainQueue' = Append(Tail(mainQueue), Fetch)
    BY <1>6 DEF Refresh, NextBlock
  <2>2. Fetch \in Blocks /\ Fetch.kind = "fetch"
    BY Made DEF Fetch
  <2>3. Has(mainQueue', {"event", "fetch"})
    BY <1>0, <2>1, <2>2, TailFacts, AppendFacts
  <2>4. QED
    BY <2>3 DEF Following
<1>7. CASE FetchKeys
  <2>1. dbQueue' = Append(dbQueue, ReadForList)
    BY <1>7 DEF FetchKeys
  <2>2. ReadForList \in Calls /\ ReadForList.kind = "readForList"
    BY Made DEF ReadForList
  <2>3. Has(dbQueue', {"readForList"})
    BY <1>0, <2>1, <2>2, AppendFacts
  <2>4. QED
    BY <2>3 DEF Following
<1>8. CASE ShowItems
  <2> DEFINE b == Head(mainQueue)
  <2>1. /\ mainQueue # <<>> /\ b.kind = "apply" /\ items' = BagToSet(b.list)
        /\ mainQueue' = Tail(mainQueue) /\ UNCHANGED <<client, named, dbQueue, screen>>
    BY <1>8 DEF ShowItems, NextBlock, server
  <2>2. /\ Has(mainQueue, {"event", "fetch"}) => Has(Tail(mainQueue), {"event", "fetch"})
        /\ Has(mainQueue, {"apply"})
    BY <1>0, <2>1, TailFacts
  <2>3. \A keys : LastApply(mainQueue, keys) =>
          LastApply(Tail(mainQueue), keys) \/ (BagToSet(b.list) = keys /\ ~ Has(Tail(mainQueue), {"apply"}))
    BY <1>0, <2>1, LastApplyFacts
  <2> HIDE DEF b
  <2>4. KeysComplete(client)' = KeysComplete(client) /\ Running' = Running
    BY <2>1 DEF KeysComplete, Running
  <2>5. QED
    BY <2>1, <2>2, <2>3, <2>4 DEF Following
<1>9. CASE FinishJoin
  <2>1. /\ mainQueue # <<>> /\ Head(mainQueue).kind = "done" /\ Running
        /\ mainQueue' \in {Tail(mainQueue), Tail(mainQueue) \o FirstEvent}
        /\ UNCHANGED <<client, named, dbQueue, items>>
    BY <1>9 DEF FinishJoin, NextBlock, server
  <2>2. /\ Tail(mainQueue) \in Seq(Blocks)
        /\ Has(mainQueue, {"event", "fetch"}) => Has(Tail(mainQueue), {"event", "fetch"})
        /\ Has(Tail(mainQueue), {"apply"}) => Has(mainQueue, {"apply"})
        /\ \A keys : LastApply(mainQueue, keys) => LastApply(Tail(mainQueue), keys)
    BY <1>0, <2>1, TailFacts, LastApplyFacts
  <2>3. /\ Has(Tail(mainQueue), {"event", "fetch"})
              => Has(Tail(mainQueue) \o FirstEvent, {"event", "fetch"})
        /\ Has(Tail(mainQueue) \o FirstEvent, {"apply"}) => Has(Tail(mainQueue), {"apply"})
        /\ \A keys : LastApply(Tail(mainQueue), keys) => LastApply(Tail(mainQueue) \o FirstEvent, keys)
    BY <2>2, FirstEventFacts, EventsStay
  <2>4. /\ Has(mainQueue, {"event", "fetch"}) => Has(mainQueue', {"event", "fetch"})
        /\ Has(mainQueue', {"apply"}) => Has(mainQueue, {"apply"})
        /\ \A keys : LastApply(mainQueue, keys) => LastApply(mainQueue', keys)
    BY <2>1, <2>2, <2>3
  <2>5. QED
    BY <2>1, <2>4, FollowingStays
<1>10. CASE ReadKeysToJoin
  <2>1. /\ dbQueue # <<>> /\ Head(dbQueue).kind = "readForJoin"
        /\ UNCHANGED <<client, named, mainQueue, items, screen>>
    BY <1>10 DEF ReadKeysToJoin, NextCall, server, ui
  <2>2. /\ Tail(dbQueue) \in Seq(Calls)
        /\ Has(dbQueue, {"readForList"}) => Has(Tail(dbQueue), {"readForList"})
    BY <1>0, <2>1, TailFacts
  <2>3. Has(Tail(dbQueue), {"readForList"}) => Has(dbQueue', {"readForList"})
    <3>1. CASE dbQueue' = Tail(dbQueue)
      BY <3>1
    <3>2. CASE KeysComplete(client)
      <4> DEFINE k == Head(dbQueue).key
                 c == SetList(ConvoKeys(client) (+) SetToBag({k}), k)
      <4>1. dbQueue' = Append(Tail(dbQueue), c)
        BY <1>10, <3>2 DEF ReadKeysToJoin
      <4>2. k \in Keys
        BY <1>0, <2>1, TailFacts, Carried
      <4>3. ConvoKeys(client) (+) SetToBag({k}) \in Lists
        BY <4>2, ValueFacts, ListFacts DEF ConvoKeys, Types, OneJoin
      <4>4. c \in Calls
        BY <4>2, <4>3, Made
      <4> HIDE DEF c
      <4>5. QED
        BY <2>2, <4>1, <4>4, AppendFacts
    <3>3. QED
      BY <1>10, <3>1, <3>2 DEF ReadKeysToJoin
  <2>4. QED
    BY <2>1, <2>2, <2>3, FollowingStays DEF Running
<1>11. CASE ReadKeysToShow
  <2>1. UNCHANGED <<client, named>>
    BY <1>11 DEF ReadKeysToShow, server
  <2>2. CASE KeysComplete(client)
    <3>1. mainQueue' = Append(mainQueue, Apply(ConvoKeys(client)))
      BY <1>11, <2>2 DEF ReadKeysToShow
    <3>2. /\ Value(client) \in Lists
          /\ ConvoKeys(client) \in Lists /\ BagToSet(ConvoKeys(client)) = BagToSet(Value(client))
      BY ValueFacts, ListFacts DEF ConvoKeys, Types, OneJoin
    <3>3. /\ Apply(ConvoKeys(client)) \in Blocks /\ Apply(ConvoKeys(client)).kind = "apply"
          /\ Apply(ConvoKeys(client)).list = ConvoKeys(client)
      BY <3>2, Made DEF Apply
    <3>4. LastApply(mainQueue', BagToSet(Value(client)))
      BY <1>0, <3>1, <3>2, <3>3, LastApplyFacts
    <3>5. QED
      BY <2>1, <3>4 DEF Following
  <2>3. CASE ~ KeysComplete(client)
    BY <2>1, <2>3 DEF Following, KeysComplete
  <2>4. QED
    BY <2>2, <2>3
<1>12. CASE WriteKeys
  <2>1. /\ Running /\ client.complete /\ client'.complete = client.complete
        /\ mainQueue' = mainQueue \o Raised(client, client')
    BY <1>12, WriteFacts
  <2>2. /\ dbQueue # <<>> /\ Head(dbQueue).kind = "set" /\ dbQueue' = Tail(dbQueue)
        /\ UNCHANGED <<named, items, screen>>
    BY <1>12 DEF WriteKeys, NextCall, server, ui
  <2>3. Has(dbQueue, {"readForList"}) => Has(dbQueue', {"readForList"})
    BY <1>0, <2>2, TailFacts
  <2>4. Running'
    BY <2>1, <2>2 DEF Running
  <2>5. QED
    BY <2>1, <2>2, <2>3, <2>4, NewViewFollowed
<1>13. CASE ReceiveData /\ Running
  <2>1. /\ client'.complete /\ mainQueue' = mainQueue \o Raised(client, client')
        /\ UNCHANGED <<named, items, screen, dbQueue>>
    BY <1>13 DEF ReceiveData, server, ui, Types, Clients
  <2>2. Running'
    BY <1>13, <2>1 DEF Running
  <2>3. QED
    BY <1>13, <2>1, <2>2, NewViewFollowed
<1>14. CASE ReceiveAck
  <2> DEFINE a == Head(toClient)
             b == Done(a.write.key, a.ok)
  <2>1. /\ Running /\ client.complete /\ client'.complete = client.complete
        /\ a.write \in Write /\ a.ok \in BOOLEAN
        /\ mainQueue' = Append(mainQueue \o Raised(client, client'), b)
    BY <1>14, AckFacts
  <2>2. UNCHANGED <<named, items, screen, dbQueue>>
    BY <1>14 DEF ReceiveAck, server, ui
  <2>3. b \in Blocks /\ b.kind = "done"
    BY <2>1, Made DEF Write, Done
  <2> HIDE DEF b
  <2>4. Running'
    BY <2>1, <2>2 DEF Running
  <2>5. QED
    BY <2>1, <2>2, <2>3, <2>4, NewViewFollowed
<1>15. QED
  BY <1>1, <1>2, <1>3, <1>4, <1>5, <1>6, <1>7, <1>8, <1>9, <1>10, <1>11, <1>12, <1>13, <1>14
     DEF Moves, Screens, Database, Receive

-----------------------------------------------------------------------------
(* The theorems.                                                           *)

LEMMA IInvNext == IInv /\ [Next]_vars => IInv'
<1> SUFFICES ASSUME IInv, [Next]_vars PROVE IInv'
  OBVIOUS
<1>1. CASE Moves
  BY <1>1, TypesNext, StoppedNext, OneJoinNext, KeptNext, AskingNext, TellingNext, FollowingNext DEF IInv
<1>2. CASE Stopping
  BY <1>2, StoppingKeepsIInv
<1>3. CASE UNCHANGED vars
  BY <1>3 DEF IInv, Types, Stopped, OneJoin, Kept, Adds, Asking, Telling, Following, Running,
     KeysComplete, vars, server, network, queues, ui
<1>4. QED
  BY <1>1, <1>2, <1>3, NextCases

\* The inductive invariant, of which the others are consequences: joins, reads and
\* writes of whole lists, answers and refreshes fit together in every order.
THEOREM Invariance == Spec => []IInv
<1>1. Init => IInv
  BY IInvInit
<1>2. IInv /\ [Next]_vars => IInv'
  BY IInvNext
<1>3. QED
  BY <1>1, <1>2, PTL DEF Spec

\* Types, and that the HUD keeps joins apart: one at a time, from "Continue" to the
\* answer, whatever is lost, refused or killed in between.
THEOREM TypeCorrect == Spec => []TypeOK
<1>1. IInv => TypeOK
  BY DEF IInv, Types, OneJoin, TypeOK, Clients
<1>2. QED
  BY <1>1, Invariance, PTL

\* A join screen that closes after "Continue" has stored its key.
THEOREM JoinsAreStored == Spec => []ClosedMeansStored
<1>1. IInv => ClosedMeansStored
  BY DEF IInv, Kept, ClosedMeansStored
<1>2. QED
  BY <1>1, Invariance, PTL

\* No join writes back a list that lacks a stored channel.
THEOREM NoneIsLost == Spec => NoChannelLost
<1>1. IInv /\ [Next]_vars => [BagToSet(stored) \subseteq BagToSet(stored')]_vars
  <2> SUFFICES ASSUME IInv, Next PROVE BagToSet(stored) \subseteq BagToSet(stored')
    OBVIOUS
  <2>1. CASE Moves
    BY <2>1, KeptNext
  <2>2. CASE Stopping
    BY <2>2 DEF Stopping
  <2>3. QED
    BY <2>1, <2>2, NextCases
<1>2. QED
  BY <1>1, Invariance, PTL DEF Spec, NoChannelLost

\* A list with no refresh waiting shows the client's view.
THEOREM QuietList == Spec => []QuietListIsCurrent
<1>1. IInv => QuietListIsCurrent
  <2> SUFFICES ASSUME IInv, Running, dbQueue = <<>>, mainQueue = <<>>, KeysComplete(client)
               PROVE  items = BagToSet(Value(client))
    BY DEF QuietListIsCurrent
  <2>1. ~ LastApply(mainQueue, BagToSet(Value(client)))
    BY EmptyFacts DEF LastApply
  <2>2. QED
    BY <2>1, EmptyFacts DEF IInv, Following
<1>2. QED
  BY <1>1, Invariance, PTL


-----------------------------------------------------------------------------
(* Crashes.                                                                *)

\* uniqued leaves no key twice in a list about to be shown.
Single(list) == \A k \in BagToSet(list) : list[k] = 1

CInv ==
  /\ IInv
  /\ \A b \in Elements(mainQueue) : b.kind = "apply" => Single(b.list)
  /\ CrashOnlyOnAliases

\* What is about to be shown was waiting before, or was just read.
LEMMA AppliesNext ==
  ASSUME IInv, Moves
  PROVE  \A b \in Elements(mainQueue') : b.kind = "apply" => b \in Elements(mainQueue) \/ Single(b.list)
<1> USE DEF IInv
<1> DEFINE Goal == \A b \in Elements(mainQueue') :
                     b.kind = "apply" => b \in Elements(mainQueue) \/ Single(b.list)
<1>0. mainQueue \in Seq(Blocks) /\ observers \in Nat
  BY ChannelsAssumption DEF Types
<1>1. ASSUME NEW r \in Seq(Blocks), \A e \in Elements(r) : e.kind = "event", mainQueue' = mainQueue \o r
      PROVE  Goal
  <2>1. Elements(mainQueue') = Elements(mainQueue) \cup Elements(r)
    BY <1>0, <1>1, ConcatFacts
  <2>2. QED
    BY <1>1, <2>1
<1>2. CASE CloseJoin \/ WriteKeys \/ ReceiveData
  <2>1. \/ mainQueue' = mainQueue \o FirstEvent
        \/ mainQueue' = mainQueue \o Raised(client, client')
    BY <1>2 DEF CloseJoin, WriteKeys, ReceiveData
  <2>2. QED
    BY <1>0, <1>1, <2>1, FirstEventFacts, RaisedFacts
<1>3. CASE ReceiveAck
  <2> DEFINE a == Head(toClient)
             b == Done(a.write.key, a.ok)
             q == mainQueue \o Raised(client, client')
  <2>1. mainQueue' = Append(q, b) /\ a.write \in Write /\ a.ok \in BOOLEAN
    BY <1>3, AckFacts
  <2>2. /\ q \in Seq(Blocks) /\ Elements(q) = Elements(mainQueue) \cup Elements(Raised(client, client'))
        /\ \A e \in Elements(Raised(client, client')) : e.kind = "event"
    BY <1>0, RaisedFacts, ConcatFacts
  <2>3. b \in Blocks /\ b.kind = "done"
    BY <2>1, Made DEF Write, Done
  <2> HIDE DEF b, q
  <2>4. Elements(mainQueue') = Elements(q) \cup {b}
    BY <2>1, <2>2, <2>3, AppendFacts
  <2>5. QED
    BY <2>2, <2>3, <2>4
<1>4. CASE Refresh \/ FetchKeys \/ ShowItems \/ FinishJoin
  <2>1. /\ mainQueue # <<>>
        /\ mainQueue' \in {Tail(mainQueue), Append(Tail(mainQueue), Fetch), Tail(mainQueue) \o FirstEvent}
    BY <1>4 DEF Refresh, FetchKeys, ShowItems, FinishJoin, NextBlock
  <2>2. Tail(mainQueue) \in Seq(Blocks) /\ Elements(Tail(mainQueue)) \subseteq Elements(mainQueue)
    BY <1>0, <2>1, TailFacts
  <2>3. /\ Elements(Append(Tail(mainQueue), Fetch)) = Elements(Tail(mainQueue)) \cup {Fetch}
        /\ Fetch.kind = "fetch"
    BY <2>2, Made, AppendFacts DEF Fetch
  <2>4. /\ Elements(Tail(mainQueue) \o FirstEvent) = Elements(Tail(mainQueue)) \cup Elements(FirstEvent)
        /\ \A e \in Elements(FirstEvent) : e.kind = "event"
    BY <2>2, FirstEventFacts, ConcatFacts
  <2>5. CASE mainQueue' = Tail(mainQueue)
    BY <2>2, <2>5
  <2>6. CASE mainQueue' = Append(Tail(mainQueue), Fetch)
    BY <2>2, <2>3, <2>6
  <2>7. CASE mainQueue' = Tail(mainQueue) \o FirstEvent
    BY <2>2, <2>4, <2>7
  <2>8. QED
    BY <2>1, <2>5, <2>6, <2>7
<1>5. CASE ReadKeysToShow
  <2> DEFINE b == Apply(ConvoKeys(client))
  <2>1. mainQueue' \in {mainQueue, Append(mainQueue, b)}
    BY <1>5 DEF ReadKeysToShow
  <2>2. b \in Blocks /\ b.list = ConvoKeys(client)
    BY ValueFacts, ListFacts, Made DEF Apply, ConvoKeys, Types, OneJoin
  <2>3. Single(ConvoKeys(client))
    BY DEF Single, ConvoKeys, Uniqued, SetToBag, BagToSet
  <2> HIDE DEF b
  <2>4. Elements(Append(mainQueue, b)) = Elements(mainQueue) \cup {b}
    BY <1>0, <2>2, AppendFacts
  <2>5. QED
    BY <2>1, <2>2, <2>3, <2>4
<1>6. CASE UNCHANGED mainQueue
  BY <1>6
<1>7. QED
  <2>1. Screens => CloseJoin \/ UNCHANGED mainQueue
    BY DEF Screens, OpenJoin, Continue, Launch, queues
  <2>2. ReadKeysToJoin \/ Serve \/ Drop \/ Reconnect => UNCHANGED mainQueue
    BY DEF ReadKeysToJoin, Serve, ServerListen, ServerPut, ServerReject, Drop, Reconnect, queues
  <2>3. QED
    BY <1>2, <1>3, <1>4, <1>5, <1>6, <2>1, <2>2 DEF Moves, Database, Receive

LEMMA CInvNext == CInv /\ [Next]_vars => CInv'
<1> SUFFICES ASSUME CInv, [Next]_vars PROVE CInv'
  OBVIOUS
<1> USE DEF CInv
<1>1. IInv'
  BY IInvNext
<1>2. CASE Moves
  <2>1. \A b \in Elements(mainQueue') : b.kind = "apply" => Single(b.list)
    BY <1>2, AppliesNext
  <2>2. screen' = "crashed" => screen = "crashed"
    <3>1. CASE Running
      BY <1>2, <3>1, RunningMoves DEF Running
    <3>2. CASE ~ Running
      BY <1>2, <3>2, StillMoves DEF Launch, Drop, Reconnect, ui
    <3>3. QED
      BY <3>1, <3>2
  <2>3. QED
    BY <1>1, <2>1, <2>2 DEF CrashOnlyOnAliases
<1>3. CASE Kill
  BY <1>1, <1>3, EmptyFacts DEF Kill, Stop, CrashOnlyOnAliases
<1>4. CASE ApplyItems
  <2> DEFINE list == Head(mainQueue).list
  <2>1. /\ mainQueue # <<>> /\ Head(mainQueue).kind = "apply"
        /\ Head(mainQueue) \in Elements(mainQueue) /\ list \in Lists
    BY <1>4, TailFacts, Carried DEF ApplyItems, NextBlock, IInv, Types
  <2>2. CASE Clash(list)
    <3>1. PICK k, l \in BagToSet(list) : /\ IdOf[k] = IdOf[l] /\ IdOf[k] # NoId
                                         /\ k # l \/ list[k] > 1
      BY <2>2 DEF Clash
    <3>2. list[k] = 1
      BY <2>1 DEF Single
    <3>3. k \in Keys /\ l \in Keys
      <4>1. BagToSet(list) \subseteq Keys
        BY <2>1, ListFacts
      <4>2. QED
        BY <3>1, <4>1
    <3>4. k # l
      <4> HIDE DEF list
      <4>1. ~ (1 > 1)
        BY SMT
      <4>2. QED
        BY <3>1, <3>2, <4>1
    <3>5. Stop("crashed")
      BY <1>4, <2>2 DEF ApplyItems
    <3>6. QED
      BY <1>1, <3>1, <3>3, <3>4, <3>5, EmptyFacts DEF Stop, CrashOnlyOnAliases
  <2>3. CASE ~ Clash(list)
    <3>1. ShowItems
      BY <1>4, <2>3 DEF ApplyItems, ShowItems
    <3>2. Moves
      BY <3>1 DEF Moves
    <3>3. QED
      BY <1>2, <3>2
  <2>4. QED
    BY <2>2, <2>3
<1>5. CASE UNCHANGED vars
  BY <1>1, <1>5 DEF CrashOnlyOnAliases, vars, queues, ui
<1>6. QED
  BY <1>2, <1>3, <1>4, <1>5 DEF Next, Moves, Screens, User, Main

\* The list crashes only on two spellings of one UUID: joining a channel again, in
\* any order with refreshes and restarts, never does.
THEOREM CrashesNeedAliases == Spec => []CrashOnlyOnAliases
<1>1. Init => CInv
  <2>1. Init => IInv
    BY IInvInit
  <2>2. Init => (\A b \in Elements(mainQueue) : b.kind = "apply" => Single(b.list))
                  /\ CrashOnlyOnAliases
    BY EmptyFacts DEF Init, CrashOnlyOnAliases
  <2>3. QED
    BY <2>1, <2>2 DEF CInv
<1>2. CInv /\ [Next]_vars => CInv'
  BY CInvNext
<1>3. CInv => CrashOnlyOnAliases
  BY DEF CInv
<1>4. QED
  BY <1>1, <1>2, <1>3, PTL DEF Spec
=============================================================================
