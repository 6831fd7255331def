-------------------------- MODULE ConnectionProofs --------------------------
(***************************************************************************)
(* Proofs about Connection, for any queries, any numbers of puts and gets  *)
(* and any budget of events: how attempts, fetches and interruptions       *)
(* exclude each other, and the types of everything the client keeps and    *)
(* the connection carries.  The inductive invariant adds two facts to what *)
(* is proved: fetches are told apart by their attempts, so that the result *)
(* of one cannot be taken for another's; and nothing is under way unless   *)
(* there is a connection, so that no late answer revives a closed one.     *)
(***************************************************************************)
EXTENDS Connection, FiniteSetTheorems, FunctionTheorems, SequenceTheorems, TLAPS

ControlType ==
  /\ state \in States
  /\ retry \in {"none", "plain", "forced"}
  /\ attempt \in Nat
  /\ issued \in Nat

\* Fetches belong to attempts that were started, one fetch each.
FetchesNumbered ==
  /\ \A f \in fetches : f.attempt \in 1 .. attempt
  /\ \A f, g \in fetches : f.attempt = g.attempt => f = g

\* Requests, answers and the server's side of a connection end with it.
NothingOutlives ==
  ~ Realtime => /\ toServer = <<>> /\ toClient = <<>>
                /\ session = NoToken /\ watched = {}

IInv == ControlType /\ FetchesNumbered /\ NothingOutlives /\ OneAttempt /\ InterruptedIsDown

-----------------------------------------------------------------------------
(* Closing and interrupting, the steps that several actions share.         *)

\* A connection that closes is scheduled again, or stays down interrupted.
LEMMA CloseKeepsIInv ==
  ASSUME IInv, Realtime, NEW rs, NEW f, Close(rs, f), reasons' = rs,
         UNCHANGED <<attempt, fetches, issued>>
  PROVE  IInv'
BY DEF IInv, ControlType, FetchesNumbered, NothingOutlives, OneAttempt, InterruptedIsDown,
       Realtime, Close, Schedule, States

\* An interruption leaves no attempt behind, whatever the state was.
LEMMA InterruptKeepsIInv ==
  ASSUME IInv, NEW r, Interrupt(r)
  PROVE  IInv'
<1>1. CASE Realtime
  <2>1. Close(reasons', force) /\ UNCHANGED <<attempt, fetches, issued>>
    BY <1>1 DEF Interrupt, auth
  <2>2. QED
    BY <1>1, <2>1, CloseKeepsIInv
<1>2. CASE ~ Realtime
  <2>1. /\ state' = "disconnected" /\ retry' = "none" /\ reasons' # {}
        /\ UNCHANGED <<attempt, fetches, issued, network, server>>
    BY <1>2 DEF Interrupt, auth
  <2>2. ControlType' /\ FetchesNumbered' /\ OneAttempt' /\ InterruptedIsDown'
    BY <2>1 DEF IInv, ControlType, FetchesNumbered, OneAttempt, InterruptedIsDown, States
  <2>3. NothingOutlives'
    BY <1>2, <2>1 DEF IInv, NothingOutlives, network, server
  <2>4. QED
    BY <2>2, <2>3 DEF IInv
<1>3. QED
  BY <1>1, <1>2

\* A step that only talks over an existing connection, or only asks for something.
LEMMA TalkKeepsIInv ==
  ASSUME IInv, UNCHANGED <<state, reasons, retry, attempt, fetches>>, issued' \in Nat,
         Realtime \/ UNCHANGED <<toServer, toClient, session, watched>>
  PROVE  IInv'
BY DEF IInv, ControlType, FetchesNumbered, NothingOutlives, OneAttempt, InterruptedIsDown,
       Realtime

\* A request or an answer is under way only on a connection.
LEMMA UnderWayNeedsRealtime ==
  ASSUME IInv, toServer # <<>> \/ toClient # <<>> \/ session # NoToken \/ watched # {}
  PROVE  Realtime
BY DEF IInv, NothingOutlives

-----------------------------------------------------------------------------
(* The invariant is inductive.                                             *)

LEMMA IInvInit == Init => IInv
<1> SUFFICES ASSUME Init PROVE IInv
  OBVIOUS
<1>1. issued \in Nat
  BY ConnectionAssumption DEF Init
<1>2. QED
  BY <1>1 DEF Init, IInv, ControlType, FetchesNumbered, NothingOutlives, OneAttempt,
              InterruptedIsDown, Realtime, States

\* Attempts and interruptions.
LEMMA AttemptsKeepIInv ==
  ASSUME IInv, Resuming \/ Interrupting \/ RetryFires
  PROVE  IInv'
<1>1. ASSUME NEW r \in reasons, Resume(r) PROVE IInv'
  <2>1. state = "disconnected" /\ retry = "none" /\ state' = state
    BY <1>1 DEF IInv, InterruptedIsDown, Resume
  <2>2. Schedule(reasons', force)
    BY <1>1, <2>1 DEF Resume
  <2>3. UNCHANGED <<attempt, fetches, issued, toServer, toClient, session, watched>>
    BY <1>1 DEF Resume, network, server, auth
  <2>4. QED
    BY <2>1, <2>2, <2>3 DEF IInv, ControlType, FetchesNumbered, NothingOutlives, OneAttempt,
                            InterruptedIsDown, Realtime, Schedule
<1>2. CASE GoOffline
  BY <1>2, InterruptKeepsIInv DEF GoOffline
<1>3. CASE ServerKill
  BY <1>3, InterruptKeepsIInv DEF ServerKill
<1>4. CASE Drop
  <2>1. Realtime /\ Close(reasons, force) /\ UNCHANGED <<reasons, attempt, fetches, issued>>
    BY <1>4 DEF Drop, auth
  <2>2. QED
    BY <2>1, CloseKeepsIInv
<1>5. CASE Signal
  BY <1>5 DEF Signal, IInv, ControlType, FetchesNumbered, NothingOutlives, OneAttempt,
              InterruptedIsDown, Realtime, Schedule, network, server, auth
<1>6. CASE RetryFires
  <2> DEFINE new == [attempt |-> attempt', forced |-> retry = "forced", token |-> cached]
  <2>1. /\ state = "disconnected" /\ reasons = {} /\ reasons' = reasons
        /\ retry' = "none" /\ state' = "gettingToken"
    BY <1>6 DEF RetryFires, IInv, OneAttempt, InterruptedIsDown
  <2>2. attempt \in Nat /\ attempt' = attempt + 1 /\ fetches' = fetches \cup {new}
    BY <1>6 DEF RetryFires, IInv, ControlType
  <2>3. UNCHANGED <<issued, toServer, toClient, session, watched>>
    BY <1>6 DEF RetryFires, network, server, auth
  <2>4. new.attempt = attempt + 1 /\ \A f \in fetches : f.attempt \in 1 .. attempt
    BY <2>2 DEF IInv, FetchesNumbered
  <2> HIDE DEF new
  <2>5. FetchesNumbered'
    BY <2>2, <2>4 DEF IInv, FetchesNumbered
  <2>6. OneAttempt' /\ InterruptedIsDown'
    BY <2>1, <2>2, <2>4 DEF OneAttempt, InterruptedIsDown
  <2>7. ControlType' /\ NothingOutlives'
    BY <2>1, <2>2, <2>3 DEF IInv, ControlType, NothingOutlives, Realtime, States
  <2>8. QED
    BY <2>5, <2>6, <2>7 DEF IInv
<1>7. QED
  BY <1>1, <1>2, <1>3, <1>4, <1>5, <1>6 DEF Resuming, Interrupting

\* What FIRAuth does leaves the client alone.
LEMMA AuthIsAside ==
  ASSUME Answering \/ Failing \/ NewToken \/ SignOut
  PROVE  UNCHANGED clients
BY DEF Answering, Refresh, AnswerFetch, Failing, FailFetch, NewToken, SignOut, Change

\* Results of fetches, awaited or late, changes of the token, and the connection
\* that opens.
LEMMA FetchesKeepIInv ==
  ASSUME IInv, Told \/ OnReady
  PROVE  IInv'
<1>1. ASSUME NEW f \in fetches, FetchSucceeds(f) PROVE IInv'
  <2>1. /\ fetches' = fetches \ {f}
        /\ state' = IF Awaited(f) THEN "connecting" ELSE state
        /\ UNCHANGED <<reasons, retry, attempt, issued, toServer, toClient, session, watched>>
    BY <1>1 DEF FetchSucceeds, network, server
  <2>2. FetchesNumbered'
    BY <2>1 DEF IInv, FetchesNumbered
  <2>3. OneAttempt' /\ InterruptedIsDown' /\ NothingOutlives' /\ ControlType'
    BY <2>1 DEF IInv, ControlType, FetchesNumbered, OneAttempt, InterruptedIsDown,
                NothingOutlives, Realtime, Awaited, States
  <2>4. QED
    BY <2>2, <2>3 DEF IInv
<1>2. ASSUME NEW f \in fetches, FetchFails(f) PROVE IInv'
  <2>1. /\ fetches' = fetches \ {f}
        /\ UNCHANGED <<reasons, attempt, issued, toServer, toClient, session, watched>>
    BY <1>2 DEF FetchFails, network, server
  <2>2. FetchesNumbered'
    BY <2>1 DEF IInv, FetchesNumbered
  <2>3. CASE f.attempt = attempt
    <3>1. ~ Realtime /\ state' = "disconnected" /\ Schedule(reasons, force)
      BY <1>2, <2>3 DEF FetchFails, IInv, OneAttempt, Realtime
    <3>2. QED
      BY <2>1, <2>2, <3>1 DEF IInv, ControlType, OneAttempt, InterruptedIsDown, NothingOutlives,
                              Realtime, Schedule, States
  <2>4. CASE f.attempt # attempt
    <3>1. UNCHANGED <<state, retry>>
      BY <1>2, <2>4 DEF FetchFails
    <3>2. QED
      BY <2>1, <2>2, <2>4, <3>1 DEF IInv, ControlType, OneAttempt, InterruptedIsDown,
                                    NothingOutlives, Realtime
  <2>5. QED
    BY <2>3, <2>4
<1>3. CASE OnReady
  <2>1. /\ state = "connecting" /\ state' \in {"authenticating", "connected"}
        /\ UNCHANGED <<reasons, retry, attempt, fetches, issued>>
    BY <1>3 DEF OnReady, token, auth
  <2>2. QED
    BY <2>1 DEF IInv, ControlType, FetchesNumbered, NothingOutlives, OneAttempt,
                InterruptedIsDown, Realtime, States
<1>4. CASE OnTokenChange
  <2>1. Realtime \/ toServer' = toServer
    BY <1>4 DEF OnTokenChange, TokenRequests, IsConnected, Realtime
  <2>2. QED
    BY <1>4, <2>1, TalkKeepsIInv DEF OnTokenChange, server, IInv, ControlType
<1>5. QED
  BY <1>1, <1>2, <1>3, <1>4 DEF Told, Fetched

\* Answers and pushes: a refused or revoked token closes the connection, the others
\* find it open.
LEMMA AnswersKeepIInv ==
  ASSUME IInv, Answered
  PROVE  IInv'
<1>1. Realtime /\ issued' = issued /\ issued \in Nat
  <2>1. toClient # <<>>
    BY DEF Answered, OnAuthAnswer, OnAuthRevoked, OnListenAnswer, OnListenRevoked, OnPutAnswer,
           OnGetAnswer, Answer
  <2>2. issued' = issued
    BY DEF Answered, OnAuthAnswer, OnAuthRevoked, OnListenAnswer, OnListenRevoked, OnPutAnswer,
           OnGetAnswer, auth
  <2>3. QED
    BY <2>1, <2>2, UnderWayNeedsRealtime DEF IInv, ControlType
<1>2. CASE OnAuthAnswer
  <2>1. UNCHANGED <<reasons, attempt, fetches>>
    BY <1>2 DEF OnAuthAnswer
  <2>2. CASE Head(toClient).ok
    <3>1. state' = "connected" /\ retry' = retry
      BY <1>2, <2>2 DEF OnAuthAnswer
    <3>2. QED
      BY <1>1, <2>1, <3>1 DEF IInv, ControlType, FetchesNumbered, NothingOutlives, OneAttempt,
                              InterruptedIsDown, Realtime, States
  <2>3. CASE ~ Head(toClient).ok
    BY <1>1, <1>2, <2>1, <2>3, CloseKeepsIInv DEF OnAuthAnswer, LoseToken
  <2>4. QED
    BY <2>2, <2>3
<1>3. CASE OnAuthRevoked
  BY <1>1, <1>3, CloseKeepsIInv DEF OnAuthRevoked, LoseToken
<1>4. CASE OnListenAnswer \/ OnListenRevoked \/ OnPutAnswer \/ OnGetAnswer
  BY <1>1, <1>4, TalkKeepsIInv
     DEF OnListenAnswer, OnListenRevoked, OnPutAnswer, OnGetAnswer, token
<1>5. QED
  BY <1>2, <1>3, <1>4 DEF Answered

\* FIRAuth answers a fetch, or the user or the token changes.
LEMMA TokensKeepIInv ==
  ASSUME IInv, Answering \/ Failing \/ FIRAuth
  PROVE  IInv'
<1>1. CASE Answering \/ Failing \/ NewToken \/ SignOut
  <2>1. UNCHANGED <<state, reasons, retry, attempt, fetches, toServer, toClient, session, watched>>
    BY <1>1, AuthIsAside DEF clients, token, network, server
  <2>2. issued' \in {issued, issued + 1}
    BY <1>1 DEF Answering, Refresh, AnswerFetch, Failing, FailFetch, NewToken, SignOut
  <2>3. QED
    BY <2>1, <2>2, TalkKeepsIInv DEF IInv, ControlType
<1>2. ASSUME NEW t \in 1 .. issued, Expire(t) PROVE IInv'
  <2>1. Realtime \/ UNCHANGED <<toServer, toClient, session, watched>>
    BY <1>2, UnderWayNeedsRealtime DEF Expire, NoToken, IInv, ControlType
  <2>2. QED
    BY <1>2, <2>1, TalkKeepsIInv DEF Expire, token, IInv, ControlType
<1>3. QED
  BY <1>1, <1>2 DEF FIRAuth

\* Requests of the app, the timers of gets, and the server.
LEMMA RequestsKeepIInv ==
  ASSUME IInv, Asking \/ Timer \/ Serve \/ Revoking
  PROVE  IInv'
<1>1. UNCHANGED <<state, reasons, retry, attempt, fetches>>
  BY DEF Asking, Put, Get, Listen, Unlisten, Timer, GetTimesOut, Serve, ServerAuth,
         ServerUnauth, ServerListen, ServerUnlisten, ServerPut, ServerGet, Revoking,
         RevokeListen, token
<1>2. issued' = issued /\ issued \in Nat
  BY DEF Asking, Put, Get, Listen, Unlisten, Timer, GetTimesOut, Serve, ServerAuth,
         ServerUnauth, ServerListen, ServerUnlisten, ServerPut, ServerGet, Revoking,
         RevokeListen, auth, IInv, ControlType
<1>3. Realtime \/ UNCHANGED <<toServer, toClient, session, watched>>
  <2>1. CASE Asking
    BY <2>1 DEF Asking, Put, Get, Listen, Unlisten, IsConnected, CanSend, Realtime, server
  <2>2. CASE Timer
    BY <2>2 DEF Timer, GetTimesOut, network, server
  <2>3. CASE Serve
    <3>1. toServer # <<>>
      BY <2>3 DEF Serve, ServerAuth, ServerUnauth, ServerListen, ServerUnlisten, ServerPut,
                  ServerGet, Request
    <3>2. QED
      BY <3>1, UnderWayNeedsRealtime
  <2>4. CASE Revoking
    BY <2>4, UnderWayNeedsRealtime DEF Revoking
  <2>5. QED
    BY <2>1, <2>2, <2>3, <2>4
<1>4. QED
  BY <1>1, <1>2, <1>3, TalkKeepsIInv

LEMMA IInvNext == IInv /\ [Next]_vars => IInv'
<1> SUFFICES ASSUME IInv, [Next]_vars PROVE IInv'
  OBVIOUS
<1>1. CASE Next
  BY <1>1, AttemptsKeepIInv, FetchesKeepIInv, AnswersKeepIInv, TokensKeepIInv, RequestsKeepIInv
     DEF Next
<1>2. CASE UNCHANGED vars
  BY <1>2, TalkKeepsIInv DEF vars, token, network, server, auth, IInv, ControlType
<1>3. QED
  BY <1>1, <1>2

THEOREM Invariance == Spec => []IInv
<1>1. QED
  BY IInvInit, IInvNext, PTL DEF Spec

-----------------------------------------------------------------------------
(* Messages under way.                                                     *)

Requests ==
  [kind : {"auth"}, token : 1 .. issued, restore : BOOLEAN] \cup [kind : {"unauth"}]
    \cup [kind : {"listen", "unlisten"}, query : listened]
    \cup [kind : {"put"}, index : 1 .. putCounter] \cup [kind : {"get"}, index : 1 .. getCounter]
Answers ==
  [kind : {"auth"}, ok : BOOLEAN, restore : BOOLEAN] \cup [kind : {"authRevoked"}]
    \cup [kind : {"listen"}, query : listened, ok : BOOLEAN]
    \cup [kind : {"listenRevoked"}, query : listened]
    \cup [kind : {"put"}, index : 1 .. putCounter] \cup [kind : {"get"}, index : 1 .. getCounter]

-----------------------------------------------------------------------------
(* What is in a queue.                                                     *)

Count(q, kind) == Cardinality(At(q, kind))

Has(q, kinds) == \E n \in DOMAIN q : q[n].kind \in kinds

Indexes(q) == {q[n].index : n \in At(q, "put")}

Rising(q) == \A m, n \in At(q, "put") : m < n => q[m].index < q[n].index

-----------------------------------------------------------------------------
(* Lemmas about queues.                                                    *)

LEMMA Places ==
  ASSUME NEW S, NEW q \in Seq(S), NEW kind
  PROVE  /\ Len(q) \in Nat /\ DOMAIN q = 1 .. Len(q) /\ \A n \in DOMAIN q : q[n] \in S
         /\ At(q, kind) \subseteq 1 .. Len(q)
         /\ IsFiniteSet(At(q, kind)) /\ Count(q, kind) \in Nat
<1>1. Len(q) \in Nat /\ DOMAIN q = 1 .. Len(q) /\ \A n \in DOMAIN q : q[n] \in S
  BY LenProperties, ElementOfSeq
<1>2. At(q, kind) \subseteq 1 .. Len(q)
  BY <1>1 DEF At
<1>3. IsFiniteSet(1 .. Len(q))
  BY <1>1, FS_Interval
<1>4. IsFiniteSet(At(q, kind))
  BY <1>2, <1>3, FS_Subset
<1>5. QED
  BY <1>1, <1>2, <1>4, FS_CardinalityType DEF Count

LEMMA NoPlaces ==
  /\ DOMAIN <<>> = {} /\ Len(<<>>) = 0 /\ \A S : <<>> \in Seq(S)
  /\ \A kind : Count(<<>>, kind) = 0
  /\ Indexes(<<>>) = {} /\ Rising(<<>>) /\ \A kinds : ~ Has(<<>>, kinds)
<1>1. DOMAIN <<>> = {} /\ Len(<<>>) = 0 /\ \A S : <<>> \in Seq(S)
  BY EmptySeq
<1>2. \A kind : At(<<>>, kind) = {}
  BY <1>1 DEF At
<1>3. \A kind : Count(<<>>, kind) = 0
  BY <1>2, FS_EmptySet DEF Count
<1>4. Indexes(<<>>) = {} /\ Rising(<<>>) /\ \A kinds : ~ Has(<<>>, kinds)
  BY <1>1, <1>2 DEF Indexes, Rising, Has
<1>5. QED
  BY <1>1, <1>3, <1>4

LEMMA Appended ==
  ASSUME NEW S, NEW q \in Seq(S), NEW e \in S
  PROVE  /\ Append(q, e) \in Seq(S) /\ Append(q, e) # <<>>
         /\ Len(q) \in Nat /\ DOMAIN q = 1 .. Len(q) /\ DOMAIN Append(q, e) = 1 .. Len(q) + 1
         /\ \A n \in 1 .. Len(q) : Append(q, e)[n] = q[n]
         /\ Append(q, e)[Len(q) + 1] = e
BY AppendProperties, LenProperties

LEMMA AppendedPlaces ==
  ASSUME NEW S, NEW q \in Seq(S), NEW e \in S
  PROVE  /\ \A kind : Count(Append(q, e), kind) = Count(q, kind) + (IF e.kind = kind THEN 1 ELSE 0)
         /\ \A kinds : Has(Append(q, e), kinds) <=> Has(q, kinds) \/ e.kind \in kinds
         /\ Indexes(Append(q, e)) = Indexes(q) \cup (IF e.kind = "put" THEN {e.index} ELSE {})
         /\ Rising(q) /\ (e.kind = "put" => \A i \in Indexes(q) : i < e.index)
              => Rising(Append(q, e))
<1> DEFINE new == Append(q, e)
<1>1. /\ Len(q) \in Nat /\ DOMAIN q = 1 .. Len(q) /\ DOMAIN new = 1 .. Len(q) + 1
      /\ \A n \in 1 .. Len(q) : new[n] = q[n]
      /\ new[Len(q) + 1] = e
  BY Appended
<1> HIDE DEF new
<1>2. ASSUME NEW kind
      PROVE  At(new, kind) = At(q, kind) \cup (IF e.kind = kind THEN {Len(q) + 1} ELSE {})
  <2>1. \A n \in 1 .. Len(q) + 1 : n \in 1 .. Len(q) \/ n = Len(q) + 1
    BY <1>1
  <2>2. QED
    BY <1>1, <2>1 DEF At
<1>3. ASSUME NEW kind PROVE Count(new, kind) = Count(q, kind) + (IF e.kind = kind THEN 1 ELSE 0)
  <2>1. Len(q) + 1 \notin At(q, kind) /\ IsFiniteSet(At(q, kind)) /\ Count(q, kind) \in Nat
    BY <1>1, Places
  <2>2. CASE e.kind = kind
    <3>1. At(new, kind) = At(q, kind) \cup {Len(q) + 1}
      BY <1>2, <2>2
    <3>2. Cardinality(At(q, kind) \cup {Len(q) + 1}) = Cardinality(At(q, kind)) + 1
      BY <2>1, FS_AddElement
    <3>3. QED
      BY <2>2, <3>1, <3>2 DEF Count
  <2>3. CASE e.kind # kind
    <3>1. At(new, kind) = At(q, kind)
      BY <1>2, <2>3
    <3>2. QED
      BY <2>1, <2>3, <3>1 DEF Count
  <2>4. QED
    BY <2>2, <2>3
<1>4. ASSUME NEW kinds PROVE Has(new, kinds) <=> Has(q, kinds) \/ e.kind \in kinds
  <2>1. \A n \in 1 .. Len(q) + 1 : n \in 1 .. Len(q) \/ n = Len(q) + 1
    BY <1>1
  <2>2. Len(q) + 1 \in DOMAIN new /\ 1 .. Len(q) \subseteq DOMAIN new
    BY <1>1
  <2>3. QED
    BY <1>1, <2>1, <2>2 DEF Has
<1>5. Indexes(new) = Indexes(q) \cup (IF e.kind = "put" THEN {e.index} ELSE {})
  <2>1. \A n \in At(q, "put") : new[n] = q[n]
    BY <1>1 DEF At
  <2>2. CASE e.kind = "put"
    BY <1>1, <1>2, <2>1, <2>2 DEF Indexes
  <2>3. CASE e.kind # "put"
    BY <1>1, <1>2, <2>1, <2>3 DEF Indexes
  <2>4. QED
    BY <2>2, <2>3
<1>6. ASSUME Rising(q), e.kind = "put" => \A i \in Indexes(q) : i < e.index
      PROVE  Rising(new)
  <2> SUFFICES ASSUME NEW m \in At(new, "put"), NEW n \in At(new, "put"), m < n
               PROVE  new[m].index < new[n].index
    BY DEF Rising
  <2>1. m \in At(q, "put") /\ new[m] = q[m]
    <3>1. m \in 1 .. Len(q) + 1 /\ n \in 1 .. Len(q) + 1
      BY <1>1 DEF At
    <3>2. m # Len(q) + 1
      BY <1>1, <3>1
    <3>3. QED
      BY <1>1, <1>2, <3>2 DEF At
  <2>2. CASE n \in At(q, "put")
    BY <1>1, <1>6, <2>1, <2>2 DEF Rising, At
  <2>3. CASE n \notin At(q, "put")
    <3>1. new[n] = e /\ e.kind = "put"
      BY <1>1, <1>2, <2>3
    <3>2. QED
      BY <1>6, <2>1, <3>1 DEF Indexes
  <2>4. QED
    BY <2>2, <2>3
<1>7. QED
  BY <1>3, <1>4, <1>5, <1>6 DEF new

LEMMA Single ==
  ASSUME NEW S, NEW e \in S
  PROVE  /\ <<e>> \in Seq(S) /\ <<e>> # <<>>
         /\ Len(<<e>>) = 1 /\ DOMAIN <<e>> = {1} /\ <<e>>[1] = e
OBVIOUS

LEMMA Taken ==
  ASSUME NEW S, NEW q \in Seq(S), q # <<>>
  PROVE  /\ Head(q) \in S /\ Tail(q) \in Seq(S) /\ Head(q) = q[1]
         /\ Len(q) \in Nat \ {0} /\ DOMAIN q = 1 .. Len(q) /\ DOMAIN Tail(q) = 1 .. Len(q) - 1
         /\ \A n \in 1 .. Len(q) - 1 : Tail(q)[n] = q[n + 1]
BY HeadTailProperties, EmptySeq, LenProperties

LEMMA TakenPlaces ==
  ASSUME NEW S, NEW q \in Seq(S), q # <<>>
  PROVE  /\ \A kind : Count(q, kind) = Count(Tail(q), kind) + (IF Head(q).kind = kind THEN 1 ELSE 0)
         /\ \A kinds : Has(q, kinds) <=> Has(Tail(q), kinds) \/ Head(q).kind \in kinds
         /\ Indexes(q) = Indexes(Tail(q)) \cup (IF Head(q).kind = "put" THEN {Head(q).index} ELSE {})
         /\ Rising(q) => Rising(Tail(q))
         /\ Rising(q) /\ Head(q).kind = "put" => \A i \in Indexes(Tail(q)) : Head(q).index < i
<1> DEFINE new == Tail(q)
<1>1. /\ new \in Seq(S) /\ Head(q) = q[1]
      /\ Len(q) \in Nat \ {0} /\ DOMAIN q = 1 .. Len(q) /\ DOMAIN new = 1 .. Len(q) - 1
      /\ \A n \in 1 .. Len(q) - 1 : new[n] = q[n + 1]
  BY Taken
<1> HIDE DEF new
<1>2. ASSUME NEW kind
      PROVE  /\ \A n \in At(new, kind) : n + 1 \in At(q, kind) /\ n \in Nat \ {0}
             /\ \A n \in At(q, kind) : n = 1 \/ (n \in Nat /\ n - 1 \in At(new, kind) /\ (n - 1) + 1 = n)
             /\ 1 \in At(q, kind) <=> Head(q).kind = kind
  BY <1>1 DEF At
<1>3. ASSUME NEW kind PROVE Count(q, kind) = Count(new, kind) + (IF Head(q).kind = kind THEN 1 ELSE 0)
  <2> DEFINE rest == At(q, kind) \ {1}
             next == [n \in At(new, kind) |-> n + 1]
  <2>1. IsFiniteSet(At(new, kind)) /\ IsFiniteSet(At(q, kind)) /\ Count(q, kind) \in Nat
    BY <1>1, Places
  <2>2. next \in Bijection(At(new, kind), rest)
    <3>1. next \in [At(new, kind) -> rest]
      BY <1>2
    <3>2. \A m, n \in At(new, kind) : m # n => next[m] # next[n]
      BY <1>2
    <3>3. \A n \in rest : \E m \in At(new, kind) : next[m] = n
      BY <1>2
    <3>4. QED
      BY <3>1, <3>2, <3>3, Fun_IsBij
  <2>3. Cardinality(rest) = Count(new, kind)
    BY <2>1, <2>2, FS_Bijection DEF Count, ExistsBijection
  <2>4. Cardinality(rest) = IF 1 \in At(q, kind) THEN Count(q, kind) - 1 ELSE Count(q, kind)
    BY <2>1, FS_RemoveElement DEF Count
  <2>5. QED
    BY <1>2, <2>1, <2>3, <2>4
<1>4. ASSUME NEW kinds PROVE Has(q, kinds) <=> Has(new, kinds) \/ Head(q).kind \in kinds
  <2>1. \A n \in DOMAIN q : n = 1 \/ (n - 1 \in DOMAIN new /\ new[n - 1] = q[n])
    BY <1>1
  <2>2. \A n \in DOMAIN new : n + 1 \in DOMAIN q
    BY <1>1
  <2>3. 1 \in DOMAIN q
    BY <1>1
  <2>4. QED
    BY <1>1, <2>1, <2>2, <2>3 DEF Has
<1>5. \A n \in At(new, "put") : new[n] = q[n + 1]
  BY <1>1 DEF At
<1>6. Indexes(q) = Indexes(new) \cup (IF Head(q).kind = "put" THEN {Head(q).index} ELSE {})
  <2>1. \A n \in At(new, "put") : new[n].index \in Indexes(q)
    BY <1>2, <1>5 DEF Indexes
  <2>2. \A n \in At(q, "put") : n = 1 \/ q[n].index \in Indexes(new)
    BY <1>2, <1>5 DEF Indexes
  <2>3. Head(q).kind = "put" => Head(q).index \in Indexes(q)
    BY <1>1, <1>2 DEF Indexes
  <2>4. Indexes(new) \subseteq Indexes(q)
    BY <2>1 DEF Indexes
  <2>5. ASSUME NEW i \in Indexes(q)
        PROVE  i \in Indexes(new) \/ (Head(q).kind = "put" /\ i = Head(q).index)
    BY <1>1, <1>2, <2>2 DEF Indexes
  <2>6. QED
    BY <2>3, <2>4, <2>5
<1>7. ASSUME Rising(q)
      PROVE  /\ Rising(new)
             /\ Head(q).kind = "put" => \A i \in Indexes(new) : Head(q).index < i
  <2>1. \A m, n \in At(new, "put") : m < n => m + 1 < n + 1
    BY <1>2
  <2>2. Rising(new)
    BY <1>2, <1>5, <1>7, <2>1 DEF Rising
  <2>3. \A n \in At(new, "put") : 1 < n + 1
    BY <1>2
  <2>4. QED
    BY <1>1, <1>2, <1>5, <1>7, <2>2, <2>3 DEF Rising, Indexes
<1>8. QED
  BY <1>3, <1>4, <1>6, <1>7 DEF new

LEMMA Joined ==
  ASSUME NEW S, NEW q \in Seq(S), NEW r \in Seq(S)
  PROVE  /\ q \o r \in Seq(S)
         /\ Len(q) \in Nat /\ Len(r) \in Nat /\ DOMAIN q = 1 .. Len(q) /\ DOMAIN r = 1 .. Len(r)
         /\ DOMAIN (q \o r) = 1 .. Len(q) + Len(r)
         /\ \A n \in 1 .. Len(q) : (q \o r)[n] = q[n]
         /\ \A n \in 1 .. Len(r) : (q \o r)[Len(q) + n] = r[n]
         /\ \A n \in DOMAIN (q \o r) :
              n \in 1 .. Len(q) \/ (n - Len(q) \in 1 .. Len(r) /\ Len(q) + (n - Len(q)) = n)
<1> DEFINE new == q \o r
<1>1. /\ new \in Seq(S)
      /\ Len(q) \in Nat /\ Len(r) \in Nat /\ DOMAIN q = 1 .. Len(q) /\ DOMAIN r = 1 .. Len(r)
      /\ DOMAIN new = 1 .. Len(q) + Len(r)
      /\ \A n \in 1 .. Len(q) + Len(r) : new[n] = IF n <= Len(q) THEN q[n] ELSE r[n - Len(q)]
  BY ConcatProperties, LenProperties
<1> HIDE DEF new
<1>2. \A n \in 1 .. Len(q) : new[n] = q[n]
  BY <1>1
<1>3. \A n \in 1 .. Len(r) : new[Len(q) + n] = r[n]
  BY <1>1
<1>4. \A n \in DOMAIN new :
        n \in 1 .. Len(q) \/ (n - Len(q) \in 1 .. Len(r) /\ Len(q) + (n - Len(q)) = n)
  BY <1>1
<1>5. QED
  BY <1>1, <1>2, <1>3, <1>4 DEF new

LEMMA JoinedPlaces ==
  ASSUME NEW S, NEW q \in Seq(S), NEW r \in Seq(S)
  PROVE  /\ \A kind : Count(q \o r, kind) = Count(q, kind) + Count(r, kind)
         /\ \A kinds : Has(q \o r, kinds) <=> Has(q, kinds) \/ Has(r, kinds)
         /\ Indexes(q \o r) = Indexes(q) \cup Indexes(r)
         /\ Rising(q) /\ Rising(r) /\ (\A i \in Indexes(q), j \in Indexes(r) : i < j)
              => Rising(q \o r)
<1> DEFINE new == q \o r
           later(kind) == {Len(q) + n : n \in At(r, kind)}
<1>1. /\ new \in Seq(S)
      /\ Len(q) \in Nat /\ Len(r) \in Nat /\ DOMAIN q = 1 .. Len(q) /\ DOMAIN r = 1 .. Len(r)
      /\ DOMAIN new = 1 .. Len(q) + Len(r)
      /\ \A n \in 1 .. Len(q) : new[n] = q[n]
      /\ \A n \in 1 .. Len(r) : new[Len(q) + n] = r[n]
      /\ \A n \in DOMAIN new :
           n \in 1 .. Len(q) \/ (n - Len(q) \in 1 .. Len(r) /\ Len(q) + (n - Len(q)) = n)
  BY Joined
<1> HIDE DEF new
<1>2. \A n \in 1 .. Len(q) : n \in DOMAIN new
  BY <1>1
<1>3. \A n \in 1 .. Len(r) : Len(q) + n \in DOMAIN new /\ Len(q) + n > Len(q)
  BY <1>1
<1>4. ASSUME NEW kind
      PROVE  At(new, kind) = At(q, kind) \cup later(kind) /\ At(q, kind) \cap later(kind) = {}
  <2>1. \A n \in At(q, kind) : n \in At(new, kind) /\ n <= Len(q)
    BY <1>1, <1>2 DEF At
  <2>2. \A n \in At(r, kind) : Len(q) + n \in At(new, kind) /\ Len(q) + n > Len(q)
    BY <1>1, <1>3 DEF At
  <2>3. ASSUME NEW n \in At(new, kind) PROVE n \in At(q, kind) \cup later(kind)
    <3>1. n \in DOMAIN new /\ new[n].kind = kind
      BY DEF At
    <3>2. CASE n \in 1 .. Len(q)
      BY <1>1, <3>1, <3>2 DEF At
    <3>3. CASE n - Len(q) \in 1 .. Len(r) /\ Len(q) + (n - Len(q)) = n
      <4>1. n - Len(q) \in At(r, kind)
        BY <1>1, <3>1, <3>3 DEF At
      <4>2. QED
        BY <3>3, <4>1
    <3>4. QED
      BY <1>1, <3>1, <3>2, <3>3
  <2>4. At(q, kind) \cap later(kind) = {}
    <3>1. \A n \in later(kind) : n > Len(q) /\ n \in Int
      BY <1>1 DEF At
    <3>2. QED
      BY <1>1, <2>1, <3>1
  <2>5. QED
    BY <2>1, <2>2, <2>3, <2>4
<1>5. ASSUME NEW kind PROVE Count(new, kind) = Count(q, kind) + Count(r, kind)
  <2> DEFINE move == [n \in At(r, kind) |-> Len(q) + n]
  <2>1. /\ IsFiniteSet(At(q, kind)) /\ IsFiniteSet(At(r, kind))
        /\ Count(q, kind) \in Nat /\ Count(r, kind) \in Nat /\ At(r, kind) \subseteq 1 .. Len(r)
    BY Places
  <2>2. move \in Bijection(At(r, kind), later(kind))
    <3>1. move \in [At(r, kind) -> later(kind)]
      OBVIOUS
    <3>2. \A m, n \in At(r, kind) : m # n => move[m] # move[n]
      BY <1>1, <2>1
    <3>3. \A n \in later(kind) : \E m \in At(r, kind) : move[m] = n
      OBVIOUS
    <3>4. QED
      BY <3>1, <3>2, <3>3, Fun_IsBij
  <2>3. IsFiniteSet(later(kind)) /\ Cardinality(later(kind)) = Count(r, kind)
    BY <2>1, <2>2, FS_Bijection DEF Count, ExistsBijection
  <2> HIDE DEF later
  <2>4. Cardinality(At(q, kind) \cup later(kind))
          = Cardinality(At(q, kind)) + Cardinality(later(kind)) - Cardinality(At(q, kind) \cap later(kind))
    BY <2>1, <2>3, FS_Union
  <2>5. Cardinality(At(q, kind) \cap later(kind)) = 0
    BY <1>4, FS_EmptySet
  <2>6. Cardinality(At(new, kind)) = Cardinality(At(q, kind) \cup later(kind))
    BY <1>4
  <2>7. QED
    BY <2>1, <2>3, <2>4, <2>5, <2>6 DEF Count
<1>6. ASSUME NEW kinds PROVE Has(new, kinds) <=> Has(q, kinds) \/ Has(r, kinds)
  <2>1. ASSUME NEW n \in DOMAIN new, new[n].kind \in kinds PROVE Has(q, kinds) \/ Has(r, kinds)
    <3>1. CASE n \in 1 .. Len(q)
      BY <1>1, <2>1, <3>1 DEF Has
    <3>2. CASE n - Len(q) \in 1 .. Len(r) /\ Len(q) + (n - Len(q)) = n
      BY <1>1, <2>1, <3>2 DEF Has
    <3>3. QED
      BY <1>1, <3>1, <3>2
  <2>2. \A n \in DOMAIN q : q[n].kind \in kinds => Has(new, kinds)
    BY <1>1, <1>2 DEF Has
  <2>3. ASSUME NEW n \in DOMAIN r, r[n].kind \in kinds PROVE Has(new, kinds)
    <3>1. Len(q) + n \in DOMAIN new /\ new[Len(q) + n].kind \in kinds
      BY <1>1, <1>3, <2>3
    <3>2. QED
      BY <3>1 DEF Has
  <2>4. QED
    BY <2>1, <2>2, <2>3 DEF Has
<1>7. /\ \A n \in At(q, "put") : new[n] = q[n]
      /\ \A n \in At(r, "put") : new[Len(q) + n] = r[n]
  BY <1>1 DEF At
<1>8. Indexes(new) = Indexes(q) \cup Indexes(r)
  <2>1. \A n \in At(q, "put") : q[n].index \in Indexes(new)
    BY <1>4, <1>7 DEF Indexes
  <2>2. \A n \in At(r, "put") : r[n].index \in Indexes(new)
    <3> SUFFICES ASSUME NEW n \in At(r, "put") PROVE r[n].index \in Indexes(new)
      OBVIOUS
    <3>1. Len(q) + n \in At(new, "put") /\ new[Len(q) + n].index = r[n].index
      BY <1>4, <1>7
    <3>2. QED
      BY <3>1 DEF Indexes
  <2>3. ASSUME NEW n \in At(new, "put") PROVE new[n].index \in Indexes(q) \cup Indexes(r)
    <3>1. CASE n \in At(q, "put")
      BY <1>7, <3>1 DEF Indexes
    <3>2. ASSUME NEW m \in At(r, "put"), n = Len(q) + m PROVE new[n].index \in Indexes(r)
      BY <1>7, <3>2 DEF Indexes
    <3>3. QED
      BY <1>4, <3>1, <3>2
  <2>4. QED
    BY <2>1, <2>2, <2>3 DEF Indexes
<1>9. ASSUME Rising(q), Rising(r), \A i \in Indexes(q), j \in Indexes(r) : i < j
      PROVE  Rising(new)
  <2> SUFFICES ASSUME NEW m \in At(new, "put"), NEW n \in At(new, "put"), m < n
               PROVE  new[m].index < new[n].index
    BY DEF Rising
  <2>1. CASE m \in At(q, "put") /\ n \in At(q, "put")
    BY <1>7, <1>9, <2>1 DEF Rising
  <2>2. CASE m \in At(q, "put") /\ n \in later("put")
    <3>1. new[m].index \in Indexes(q) /\ new[n].index \in Indexes(r)
      BY <1>7, <2>2 DEF Indexes
    <3>2. QED
      BY <1>9, <3>1
  <2>3. CASE m \in later("put") /\ n \in At(q, "put")
    <3>1. m > Len(q) /\ n <= Len(q) /\ m \in Int /\ n \in Int
      BY <1>1, <2>3 DEF At
    <3>2. QED
      BY <1>1, <3>1
  <2>4. CASE m \in later("put") /\ n \in later("put")
    <3>1. PICK k \in At(r, "put"), l \in At(r, "put") : m = Len(q) + k /\ n = Len(q) + l
      BY <2>4
    <3>2. k < l
      BY <1>1, <3>1 DEF At
    <3>3. QED
      BY <1>7, <1>9, <3>1, <3>2 DEF Rising
  <2>5. QED
    BY <1>4, <2>1, <2>2, <2>3, <2>4
<1>10. QED
  BY <1>5, <1>6, <1>8, <1>9 DEF new

LEMMA NoPuts ==
  ASSUME NEW q, ~ Has(q, {"put"})
  PROVE  Indexes(q) = {} /\ Rising(q)
<1>1. At(q, "put") = {}
  BY DEF At, Has
<1>2. QED
  BY <1>1 DEF Indexes, Rising

-----------------------------------------------------------------------------
(* What a restored connection sends.                                       *)

LEMMA Numbered ==
  ASSUME NEW n \in Nat, NEW S, S \subseteq 1 .. n
  PROVE  IsFiniteSet(S)
<1>1. IsFiniteSet(1 .. n)
  BY FS_Interval
<1>2. QED
  BY <1>1, FS_Subset

LEMMA OrdersAreSequences ==
  ASSUME NEW S, IsFiniteSet(S), NEW s \in Orders(S)
  PROVE  /\ s \in Seq(S) /\ Len(s) = Cardinality(S) /\ Cardinality(S) \in Nat
         /\ DOMAIN s = 1 .. Cardinality(S)
         /\ \A n \in DOMAIN s : s[n] \in S
         /\ \A x \in S : \E n \in DOMAIN s : s[n] = x
<1>1. Cardinality(S) \in Nat
  BY FS_CardinalityType
<1>2. s \in [1 .. Cardinality(S) -> S] /\ \A x \in S : \E n \in DOMAIN s : s[n] = x
  BY DEF Orders
<1>3. s \in Seq(S) /\ Len(s) = Cardinality(S)
  BY <1>1, <1>2
<1>4. QED
  BY <1>1, <1>2, <1>3

LEMMA SentListens ==
  ASSUME NEW S, IsFiniteSet(S), S \subseteq listened, NEW s \in Orders(S)
  PROVE  LET sent == [n \in DOMAIN s |-> SendListen(s[n])]
         IN  /\ sent \in Seq(Requests) /\ Count(sent, "listen") = Cardinality(S)
             /\ \A n \in DOMAIN sent : sent[n].kind = "listen"
             /\ Indexes(sent) = {} /\ Rising(sent)
<1> DEFINE sent == [n \in DOMAIN s |-> SendListen(s[n])]
<1>1. /\ Cardinality(S) \in Nat /\ DOMAIN s = 1 .. Cardinality(S) /\ \A n \in DOMAIN s : s[n] \in S
  BY OrdersAreSequences
<1>2. \A n \in 1 .. Cardinality(S) : SendListen(s[n]) \in Requests
  BY <1>1 DEF SendListen, Requests
<1>3. sent \in Seq(Requests)
  BY <1>1, <1>2
<1>4. DOMAIN sent = 1 .. Cardinality(S) /\ \A n \in DOMAIN sent : sent[n].kind = "listen"
  BY <1>1 DEF SendListen
<1> HIDE DEF sent
<1>5. At(sent, "listen") = 1 .. Cardinality(S)
  BY <1>4 DEF At
<1>6. Cardinality(1 .. Cardinality(S)) = Cardinality(S)
  <2>1. Cardinality(1 .. Cardinality(S)) = IF 1 > Cardinality(S) THEN 0 ELSE Cardinality(S) - 1 + 1
    BY <1>1, FS_Interval
  <2>2. QED
    BY <1>1, <2>1
<1>7. ~ Has(sent, {"put"})
  BY <1>4 DEF Has
<1>8. QED
  BY <1>3, <1>4, <1>5, <1>6, <1>7, NoPuts DEF Count, sent

LEMMA SentPuts ==
  ASSUME NEW S, IsFiniteSet(S), S \subseteq 1 .. putCounter, NEW s \in Sorted(S)
  PROVE  LET sent == [n \in DOMAIN s |-> SendPut(s[n])]
         IN  /\ sent \in Seq(Requests) /\ Count(sent, "listen") = 0
             /\ \A n \in DOMAIN sent : sent[n].kind = "put"
             /\ Indexes(sent) = S /\ Rising(sent)
<1> DEFINE sent == [n \in DOMAIN s |-> SendPut(s[n])]
<1>1. s \in Orders(S) /\ \A m, n \in DOMAIN s : m < n => s[m] < s[n]
  BY DEF Sorted
<1>2. /\ Cardinality(S) \in Nat /\ DOMAIN s = 1 .. Cardinality(S) /\ \A n \in DOMAIN s : s[n] \in S
      /\ \A x \in S : \E n \in DOMAIN s : s[n] = x
  BY <1>1, OrdersAreSequences
<1>3. \A n \in 1 .. Cardinality(S) : SendPut(s[n]) \in Requests
  BY <1>2 DEF SendPut, Requests
<1>4. sent \in Seq(Requests)
  BY <1>2, <1>3
<1>5. /\ DOMAIN sent = DOMAIN s
      /\ \A n \in DOMAIN sent : sent[n].kind = "put" /\ sent[n].index = s[n]
  BY DEF SendPut
<1> HIDE DEF sent
<1>6. At(sent, "put") = DOMAIN s /\ At(sent, "listen") = {}
  BY <1>5 DEF At
<1>7. Indexes(sent) = S
  <2>1. \A n \in DOMAIN s : sent[n].index \in S
    BY <1>2, <1>5
  <2>2. Indexes(sent) \subseteq S
    BY <1>6, <2>1 DEF Indexes
  <2>3. \A n \in DOMAIN s : s[n] \in Indexes(sent)
    BY <1>5, <1>6 DEF Indexes
  <2>4. QED
    BY <1>2, <2>2, <2>3
<1>8. Rising(sent)
  BY <1>1, <1>5, <1>6 DEF Rising
<1>9. QED
  BY <1>4, <1>5, <1>6, <1>7, <1>8, FS_EmptySet DEF Count, sent

LEMMA SentGets ==
  ASSUME NEW S, IsFiniteSet(S), S \subseteq 1 .. getCounter, NEW s \in Sorted(S)
  PROVE  LET sent == [n \in DOMAIN s |-> SendGet(s[n])]
         IN  /\ sent \in Seq(Requests) /\ Count(sent, "listen") = 0
             /\ \A n \in DOMAIN sent : sent[n].kind = "get"
             /\ Indexes(sent) = {} /\ Rising(sent)
<1> DEFINE sent == [n \in DOMAIN s |-> SendGet(s[n])]
<1>1. s \in Orders(S)
  BY DEF Sorted
<1>2. /\ Cardinality(S) \in Nat /\ DOMAIN s = 1 .. Cardinality(S) /\ \A n \in DOMAIN s : s[n] \in S
  BY <1>1, OrdersAreSequences
<1>3. \A n \in 1 .. Cardinality(S) : SendGet(s[n]) \in Requests
  BY <1>2 DEF SendGet, Requests
<1>4. sent \in Seq(Requests)
  BY <1>2, <1>3
<1>5. \A n \in DOMAIN sent : sent[n].kind = "get"
  BY DEF SendGet
<1> HIDE DEF sent
<1>6. At(sent, "listen") = {} /\ ~ Has(sent, {"put"})
  BY <1>5 DEF At, Has
<1>7. QED
  BY <1>4, <1>5, <1>6, NoPuts, FS_EmptySet DEF Count, sent

\* restoreState sends every listen, every put in the order of the indexes, and gets,
\* after what is under way.
LEMMA Restored ==
  ASSUME NEW before \in Seq(Requests), RestoreState(before),
         IsFiniteSet(listens), listens \subseteq listened,
         putCounter \in Nat, puts \subseteq 1 .. putCounter,
         getCounter \in Nat, gets \subseteq 1 .. getCounter
  PROVE  \E sent \in Seq(Requests) :
           /\ toServer' = before \o sent
           /\ Count(sent, "listen") = Cardinality(listens) /\ Cardinality(listens) \in Nat
           /\ Indexes(sent) = puts /\ Rising(sent)
           /\ \A n \in DOMAIN sent : sent[n].kind \in {"listen", "put", "get"}
<1>1. PICK ls \in Orders(listens), ps \in Sorted(puts), gs \in Sorted(gets \ sentGets) :
        toServer' = before \o [n \in DOMAIN ls |-> SendListen(ls[n])]
                           \o [n \in DOMAIN ps |-> SendPut(ps[n])]
                           \o [n \in DOMAIN gs |-> SendGet(gs[n])]
  BY DEF RestoreState
<1> DEFINE first  == [n \in DOMAIN ls |-> SendListen(ls[n])]
           second == [n \in DOMAIN ps |-> SendPut(ps[n])]
           third  == [n \in DOMAIN gs |-> SendGet(gs[n])]
<1>2. /\ first \in Seq(Requests) /\ Count(first, "listen") = Cardinality(listens)
      /\ \A n \in DOMAIN first : first[n].kind = "listen"
      /\ Indexes(first) = {} /\ Rising(first)
  BY SentListens
<1>3. /\ second \in Seq(Requests) /\ Count(second, "listen") = 0
      /\ \A n \in DOMAIN second : second[n].kind = "put"
      /\ Indexes(second) = puts /\ Rising(second)
  <2>1. IsFiniteSet(puts)
    BY Numbered
  <2>2. QED
    BY <2>1, SentPuts
<1>4. /\ third \in Seq(Requests) /\ Count(third, "listen") = 0
      /\ \A n \in DOMAIN third : third[n].kind = "get"
      /\ Indexes(third) = {} /\ Rising(third)
  <2>1. gets \ sentGets \subseteq 1 .. getCounter
    OBVIOUS
  <2>2. IsFiniteSet(gets \ sentGets)
    BY <2>1, Numbered
  <2>3. QED
    BY <2>1, <2>2, SentGets
<1>5. Cardinality(listens) \in Nat
  BY FS_CardinalityType
<1>6. toServer' = ((before \o first) \o second) \o third
  BY <1>1
<1> HIDE DEF first, second, third
<1> DEFINE sent == (first \o second) \o third
<1>7. first \o second \in Seq(Requests) /\ sent \in Seq(Requests)
  BY <1>2, <1>3, <1>4, Joined
<1>8. toServer' = before \o sent
  <2>1. (before \o first) \o second = before \o (first \o second)
    BY <1>2, <1>3, ConcatAssociative
  <2>2. (before \o (first \o second)) \o third = before \o sent
    <3> DEFINE both == first \o second
    <3>1. both \in Seq(Requests)
      BY <1>7
    <3> HIDE DEF both
    <3>2. (before \o both) \o third = before \o (both \o third)
      BY <1>4, <3>1, ConcatAssociative
    <3>3. QED
      BY <3>2 DEF both
  <2>3. QED
    BY <1>6, <2>1, <2>2
<1>9. Count(sent, "listen") = Cardinality(listens)
  <2>1. Count(first \o second, "listen") = Cardinality(listens) + 0
    BY <1>2, <1>3, JoinedPlaces
  <2>2. Count(sent, "listen") = Count(first \o second, "listen") + 0
    <3> DEFINE both == first \o second
    <3>1. both \in Seq(Requests)
      BY <1>7
    <3> HIDE DEF both
    <3>2. Count(both \o third, "listen") = Count(both, "listen") + 0
      BY <1>4, <3>1, JoinedPlaces
    <3>3. QED
      BY <3>2 DEF both
  <2>3. QED
    BY <1>5, <2>1, <2>2
<1>10. Indexes(sent) = puts /\ Rising(sent)
  <2>1. Indexes(first \o second) = puts /\ Rising(first \o second)
    <3>1. \A i \in Indexes(first), j \in Indexes(second) : i < j
      BY <1>2
    <3>2. Rising(first \o second)
      BY <1>2, <1>3, <3>1, JoinedPlaces
    <3>3. Indexes(first \o second) = Indexes(first) \cup Indexes(second)
      BY <1>2, <1>3, JoinedPlaces
    <3>4. QED
      BY <1>2, <1>3, <3>2, <3>3
  <2>2. \A i \in Indexes(first \o second), j \in Indexes(third) : i < j
    BY <1>4
  <2>3. Rising(sent)
    BY <1>4, <1>7, <2>1, <2>2, JoinedPlaces
  <2>4. Indexes(sent) = Indexes(first \o second) \cup Indexes(third)
    BY <1>4, <1>7, JoinedPlaces
  <2>5. QED
    BY <1>4, <2>1, <2>3, <2>4
<1>11. \A n \in DOMAIN sent : sent[n].kind \in {"listen", "put", "get"}
  <2> SUFFICES ASSUME NEW n \in DOMAIN sent PROVE sent[n].kind \in {"listen", "put", "get"}
    OBVIOUS
  <2> DEFINE others(q) == \A m \in DOMAIN q : q[m].kind \in {"listen", "put", "get"}
  <2>1. ASSUME NEW q \in Seq(Requests), NEW r \in Seq(Requests), others(q), others(r)
        PROVE  others(q \o r)
    <3> SUFFICES ASSUME NEW m \in DOMAIN (q \o r) PROVE (q \o r)[m].kind \in {"listen", "put", "get"}
      OBVIOUS
    <3>1. /\ DOMAIN q = 1 .. Len(q) /\ DOMAIN r = 1 .. Len(r)
          /\ \A k \in 1 .. Len(q) : (q \o r)[k] = q[k]
          /\ \A k \in 1 .. Len(r) : (q \o r)[Len(q) + k] = r[k]
          /\ m \in 1 .. Len(q) \/ (m - Len(q) \in 1 .. Len(r) /\ Len(q) + (m - Len(q)) = m)
      BY Joined
    <3>2. CASE m \in 1 .. Len(q)
      BY <2>1, <3>1, <3>2
    <3>3. CASE m - Len(q) \in 1 .. Len(r) /\ Len(q) + (m - Len(q)) = m
      <4>1. (q \o r)[m] = r[m - Len(q)] /\ m - Len(q) \in DOMAIN r
        BY <3>1, <3>3
      <4>2. QED
        BY <2>1, <4>1
    <3>4. QED
      BY <3>1, <3>2, <3>3
  <2>2. others(first) /\ others(second) /\ others(third)
    BY <1>2, <1>3, <1>4
  <2>3. others(first \o second)
    BY <1>2, <1>3, <2>1, <2>2
  <2>4. others(sent)
    BY <1>4, <1>7, <2>1, <2>2, <2>3
  <2>5. QED
    BY <2>4
<1>12. QED
  BY <1>5, <1>7, <1>8, <1>9, <1>10, <1>11

-----------------------------------------------------------------------------
(* Types.  The count is an integer here; that it is never negative follows *)
(* once it is known to be exact.                                           *)

TokenTypes ==
  /\ state \in States
  /\ reasons \subseteq {"waitingForOpen", "repoInterrupt", "serverKill"}
  /\ retry \in {"none", "plain", "forced"}
  /\ force \in BOOLEAN /\ overtaken \in BOOLEAN /\ unrefreshed \in BOOLEAN
  /\ attempt \in Nat /\ issued \in Nat /\ cached \in 0 .. issued /\ authToken \in 0 .. issued
  /\ fetches \subseteq Fetches
  /\ session \in 0 .. issued /\ expired \subseteq 1 .. issued

PostTypes == posts \in Seq(Posts)

WorkTypes ==
  /\ listens \subseteq listened /\ listened \subseteq Queries /\ watched \subseteq listened
  /\ IsFiniteSet(listened)
  /\ unacked \in Int
  /\ putCounter \in 0 .. MaxPuts /\ getCounter \in 0 .. MaxGets
  /\ puts \cup arrived \subseteq 1 .. putCounter
  /\ putsToAck \in Seq(1 .. putCounter) /\ completed \in Seq(1 .. putCounter)
  /\ gets \cup sentGets \cup timedGets \cup answered \subseteq 1 .. getCounter
  /\ budget \in [Events -> Nat]

QueueTypes == toServer \in Seq(Requests) /\ toClient \in Seq(Answers)

Types == TokenTypes /\ WorkTypes /\ QueueTypes

LEMMA Spent ==
  ASSUME budget \in [Events -> Nat], NEW event, Spend(event)
  PROVE  budget' \in [Events -> Nat]
<1>1. budget[event] > 0 /\ budget' = [budget EXCEPT ![event] = budget[event] - 1]
  BY DEF Spend
<1>2. CASE event \in Events
  <2>1. budget[event] - 1 \in Nat
    BY <1>1, <1>2
  <2>2. QED
    BY <1>1, <2>1
<1>3. CASE event \notin Events
  BY <1>1, <1>3
<1>4. QED
  BY <1>2, <1>3

LEMMA Kinds ==
  ASSUME QueueTypes
  PROVE  /\ \A r \in Requests :
              /\ r.kind = "auth" => r.token \in 1 .. issued /\ r.restore \in BOOLEAN
              /\ r.kind \in {"listen", "unlisten"} => r.query \in listened
              /\ r.kind = "put" => r.index \in 1 .. putCounter
              /\ r.kind = "get" => r.index \in 1 .. getCounter
         /\ \A a \in Answers :
              /\ a.kind = "auth" => a.ok \in BOOLEAN /\ a.restore \in BOOLEAN
              /\ a.kind \in {"listen", "listenRevoked"} => a.query \in listened
              /\ a.kind = "listen" => a.ok \in BOOLEAN
              /\ a.kind = "put" => a.index \in 1 .. putCounter
              /\ a.kind = "get" => a.index \in 1 .. getCounter
BY DEF Requests, Answers

\* What has been asked for and issued only grows, and with it what may be said.
Grows ==
  /\ issued' \in Nat /\ issued <= issued' /\ listened \subseteq listened'
  /\ putCounter' \in Nat /\ putCounter <= putCounter'
  /\ getCounter' \in Nat /\ getCounter <= getCounter'

LEMMA Growing ==
  ASSUME Types, Grows
  PROVE  /\ 0 .. issued \subseteq 0 .. issued' /\ 1 .. issued \subseteq 1 .. issued'
         /\ 1 .. putCounter \subseteq 1 .. putCounter' /\ 1 .. getCounter \subseteq 1 .. getCounter'
         /\ Requests \subseteq Requests' /\ Answers \subseteq Answers'
         /\ toServer \in Seq(Requests') /\ toClient \in Seq(Answers')
<1>1. issued \in Nat /\ putCounter \in Nat /\ getCounter \in Nat
  BY ConnectionAssumption DEF Types, TokenTypes, WorkTypes
<1>2. /\ 0 .. issued \subseteq 0 .. issued' /\ 1 .. issued \subseteq 1 .. issued'
      /\ 1 .. putCounter \subseteq 1 .. putCounter' /\ 1 .. getCounter \subseteq 1 .. getCounter'
  BY <1>1 DEF Grows
<1>3. Requests \subseteq Requests'
  BY <1>2 DEF Grows, Requests
<1>4. Answers \subseteq Answers'
  BY <1>2 DEF Grows, Answers
<1>5. toServer \in Seq(Requests') /\ toClient \in Seq(Answers')
  BY <1>3, <1>4, SeqMonotonic DEF Types, QueueTypes
<1>6. QED
  BY <1>2, <1>3, <1>4, <1>5

LEMMA Asked ==
  ASSUME Types, UNCHANGED <<issued, listened, putCounter, getCounter>>
  PROVE  Grows /\ Requests' = Requests /\ Answers' = Answers
<1>1. issued \in Nat /\ putCounter \in Nat /\ getCounter \in Nat
  BY ConnectionAssumption DEF Types, TokenTypes, WorkTypes
<1>2. QED
  BY <1>1 DEF Grows, Requests, Answers

\* A message taken from a queue.
LEMMA Received ==
  ASSUME Types, toClient # <<>>
  PROVE  /\ Head(toClient) \in Answers /\ Tail(toClient) \in Seq(Answers)
         /\ Head(toClient) = toClient[1]
BY Taken DEF Types, QueueTypes

LEMMA Requested ==
  ASSUME Types, toServer # <<>>
  PROVE  /\ Head(toServer) \in Requests /\ Tail(toServer) \in Seq(Requests)
         /\ Head(toServer) = toServer[1]
BY Taken DEF Types, QueueTypes

-----------------------------------------------------------------------------
(* Types are preserved.                                                    *)

LEMMA TypesInit == Init => Types
<1> SUFFICES ASSUME Init PROVE Types
  OBVIOUS
<1>1. issued \in Nat /\ MaxPuts \in Nat /\ MaxGets \in Nat /\ Budget \in [Events -> Nat]
  BY ConnectionAssumption DEF Init
<1>2. TokenTypes
  <2>1. /\ state \in States /\ retry \in {"none", "plain", "forced"} /\ force \in BOOLEAN
        /\ overtaken \in BOOLEAN /\ unrefreshed \in BOOLEAN
        /\ reasons \subseteq {"waitingForOpen", "repoInterrupt", "serverKill"}
    BY DEF Init, States
  <2>2. /\ attempt \in Nat /\ cached \in 0 .. issued
        /\ authToken \in 0 .. issued /\ session \in 0 .. issued
    BY <1>1 DEF Init, NoToken
  <2>3. fetches = {} /\ expired = {}
    BY DEF Init
  <2>4. QED
    BY <1>1, <2>1, <2>2, <2>3 DEF TokenTypes
<1>3. WorkTypes
  <2>1. IsFiniteSet({}) /\ \A S : <<>> \in Seq(S)
    BY FS_EmptySet, EmptySeq
  <2>2. QED
    BY <1>1, <2>1 DEF Init, WorkTypes
<1>4. QueueTypes
  BY EmptySeq DEF Init, QueueTypes
<1>5. QED
  BY <1>2, <1>3, <1>4 DEF Types

LEMMA TypesClosed ==
  ASSUME Types, NEW rs, NEW f \in BOOLEAN, Close(rs, f)
  PROVE  /\ state' \in States /\ retry' \in {"none", "plain", "forced"} /\ force' \in BOOLEAN
         /\ session' = NoToken /\ watched' = {} /\ unacked' = 0
         /\ toServer' = <<>> /\ toClient' = <<>>
BY DEF Types, TokenTypes, Close, Schedule, States

\* Attempts and interruptions.
LEMMA AttemptsKeepTypes ==
  ASSUME Types, Resuming \/ Interrupting \/ RetryFires
  PROVE  Types'
<1>1. UNCHANGED <<issued, listened, putCounter, getCounter>>
  BY DEF Resuming, Resume, Interrupting, GoOffline, ServerKill, Interrupt, Drop, Signal,
         RetryFires, auth, asked
<1>2. Requests' = Requests /\ Answers' = Answers
  BY <1>1, Asked
<1>3. issued \in Nat /\ 0 \in 0 .. issued /\ \A S : <<>> \in Seq(S)
  BY EmptySeq DEF Types, TokenTypes
<1>4. ASSUME NEW r \in reasons, Resume(r) PROVE Types'
  <2>1. TokenTypes'
    BY <1>4 DEF Types, TokenTypes, Fetches, Resume, Schedule, server, auth, history
  <2>2. WorkTypes' /\ QueueTypes'
    BY <1>2, <1>4 DEF Types, WorkTypes, QueueTypes, Resume, work, network, server, asked, history
  <2>3. QED
    BY <2>1, <2>2 DEF Types
<1>5. ASSUME NEW r \in {"repoInterrupt", "serverKill"}, Interrupt(r), Spend("interrupt")
      PROVE  Types'
  <2>1. /\ state' \in States /\ retry' \in {"none", "plain", "forced"} /\ force' \in BOOLEAN
        /\ session' \in 0 .. issued /\ watched' \subseteq listened /\ unacked' \in Int
        /\ toServer' \in Seq(Requests) /\ toClient' \in Seq(Answers)
    <3>1. CASE Realtime
      <4>1. Close(reasons', force) /\ force \in BOOLEAN
        BY <1>5, <3>1 DEF Interrupt, Types, TokenTypes
      <4>2. /\ state' \in States /\ retry' \in {"none", "plain", "forced"} /\ force' \in BOOLEAN
            /\ session' = NoToken /\ watched' = {} /\ unacked' = 0
            /\ toServer' = <<>> /\ toClient' = <<>>
        BY <4>1, TypesClosed
      <4>3. QED
        BY <1>3, <4>2 DEF NoToken
    <3>2. CASE ~ Realtime
      BY <1>5, <3>2 DEF Types, TokenTypes, WorkTypes, QueueTypes, Interrupt, States, network,
                        server
    <3>3. QED
      BY <3>1, <3>2
  <2>2. TokenTypes'
    BY <1>5, <2>1 DEF Types, TokenTypes, Fetches, Interrupt, auth, history
  <2>3. WorkTypes' /\ QueueTypes'
    BY <1>2, <1>5, <2>1, Spent DEF Types, WorkTypes, QueueTypes, Interrupt, work, asked, history
  <2>4. QED
    BY <2>2, <2>3 DEF Types
<1>6. CASE Drop
  <2>1. /\ state' \in States /\ retry' \in {"none", "plain", "forced"} /\ force' \in BOOLEAN
        /\ session' = 0 /\ watched' = {} /\ unacked' = 0
        /\ toServer' = <<>> /\ toClient' = <<>>
    BY <1>6, TypesClosed DEF Types, TokenTypes, Drop, NoToken
  <2>2. TokenTypes'
    BY <1>3, <1>6, <2>1 DEF Types, TokenTypes, Fetches, Drop, auth, history
  <2>3. WorkTypes' /\ QueueTypes'
    BY <1>2, <1>3, <1>6, <2>1, Spent DEF Types, WorkTypes, QueueTypes, Drop, work, asked, history
  <2>4. QED
    BY <2>2, <2>3 DEF Types
<1>7. CASE Signal
  <2>1. TokenTypes'
    BY <1>7 DEF Types, TokenTypes, Fetches, Signal, Schedule, server, auth, history
  <2>2. WorkTypes' /\ QueueTypes'
    BY <1>2, <1>7, Spent DEF Types, WorkTypes, QueueTypes, Signal, work, network, server, asked,
                             history
  <2>3. QED
    BY <2>1, <2>2 DEF Types
<1>8. CASE RetryFires
  <2> DEFINE new == [attempt |-> attempt', forced |-> retry = "forced", token |-> cached]
  <2>1. /\ attempt \in Nat /\ attempt' = attempt + 1 /\ fetches' = fetches \cup {new}
        /\ cached \in 0 .. issued
    BY <1>8 DEF Types, TokenTypes, RetryFires
  <2>2. new \in Fetches'
    BY <1>1, <2>1 DEF Fetches
  <2>3. fetches \subseteq Fetches'
    <3>1. 1 .. attempt \subseteq 1 .. attempt'
      BY <2>1
    <3>2. QED
      BY <1>1, <3>1 DEF Types, TokenTypes, Fetches
  <2> HIDE DEF new
  <2>4. TokenTypes'
    BY <1>8, <2>1, <2>2, <2>3 DEF Types, TokenTypes, RetryFires, States, server, auth, history
  <2>5. WorkTypes' /\ QueueTypes'
    BY <1>2, <1>8 DEF Types, WorkTypes, QueueTypes, RetryFires, work, network, server, asked,
                      history
  <2>6. QED
    BY <2>4, <2>5 DEF Types
<1>9. QED
  BY <1>4, <1>5, <1>6, <1>7, <1>8 DEF Resuming, Interrupting, GoOffline, ServerKill

\* A change of the token, as it is sent.
LEMMA TypesRequested ==
  ASSUME Types, NEW t \in 0 .. issued
  PROVE  TokenRequests(t) \in Seq(Requests)
<1>1. toServer \in Seq(Requests) /\ issued \in Nat
  BY DEF Types, QueueTypes, TokenTypes
<1>2. Unauth \in Requests /\ (t # NoToken => Auth(t, FALSE) \in Requests)
  BY <1>1 DEF Requests, Unauth, Auth, NoToken
<1>3. QED
  BY <1>1, <1>2, Appended DEF TokenRequests

\* A block posted by FIRAuth.
LEMMA PostKinds ==
  ASSUME NEW p \in Posts
  PROVE  /\ p.kind \in {"token", "fetch", "failure"}
         /\ p.kind \in {"token", "fetch"} => p.token \in 0 .. issued
         /\ p.kind \in {"fetch", "failure"} => p.fetch \in Fetches
BY DEF Posts, TokenPost, FetchPost, FailurePost

LEMMA NextPost ==
  ASSUME PostTypes, posts # <<>>
  PROVE  /\ Head(posts) \in Posts /\ Head(posts) = posts[1]
         /\ Posted("token") \/ Posted("fetch") => Head(posts).token \in 0 .. issued
BY Taken, PostKinds DEF PostTypes, Posted

LEMMA TypesRestored ==
  ASSUME Types, UNCHANGED <<issued, listened, putCounter, getCounter>>,
         NEW before \in Seq(Requests), RestoreState(before)
  PROVE  /\ toServer' \in Seq(Requests) /\ unacked' \in Int
         /\ sentGets' \subseteq 1 .. getCounter
<1>1. /\ IsFiniteSet(listens) /\ listens \subseteq listened
      /\ putCounter \in Nat /\ puts \subseteq 1 .. putCounter
      /\ getCounter \in Nat /\ gets \cup sentGets \subseteq 1 .. getCounter
  <2>1. IsFiniteSet(listens)
    BY FS_Subset DEF Types, WorkTypes
  <2>2. putCounter \in Nat /\ getCounter \in Nat
    BY ConnectionAssumption DEF Types, WorkTypes
  <2>3. QED
    BY <2>1, <2>2 DEF Types, WorkTypes
<1>2. PICK sent \in Seq(Requests) : toServer' = before \o sent /\ Cardinality(listens) \in Nat
  BY <1>1, Restored
<1>3. toServer' \in Seq(Requests)
  BY <1>2, Joined
<1>4. unacked' = unacked + Cardinality(listens) /\ sentGets' = sentGets \cup gets
  BY DEF RestoreState
<1>5. unacked \in Int
  BY DEF Types, WorkTypes
<1>6. QED
  BY <1>1, <1>2, <1>3, <1>4, <1>5

\* Results of fetches, changes of the token, and the connection that opens.
LEMMA FetchesKeepTypes ==
  ASSUME Types, PostTypes, Told \/ OnReady
  PROVE  Types'
<1>1. UNCHANGED <<issued, listened, putCounter, getCounter>>
  BY DEF Told, Fetched, FetchSucceeds, FetchFails, OnTokenChange, OnReady, asked, auth
<1>2. issued \in Nat /\ putCounter \in Nat /\ getCounter \in Nat
  BY ConnectionAssumption DEF Types, TokenTypes, WorkTypes
<1>3. Requests' = Requests /\ Answers' = Answers
  BY <1>1, Asked
<1>4. ASSUME NEW f \in fetches, FetchSucceeds(f) PROVE Types'
  <2>1. Head(posts).token \in 0 .. issued /\ f.forced \in BOOLEAN
    BY <1>4, NextPost DEF Types, TokenTypes, Fetches, FetchSucceeds, Posted
  <2>2. /\ state' \in States /\ authToken' \in 0 .. issued /\ overtaken' \in BOOLEAN
        /\ unrefreshed' \in BOOLEAN
    <3>1. CASE Awaited(f)
      BY <1>4, <2>1, <3>1 DEF FetchSucceeds, Types, TokenTypes, States
    <3>2. CASE ~ Awaited(f)
      BY <1>4, <3>2 DEF FetchSucceeds, Types, TokenTypes
    <3>3. QED
      BY <3>1, <3>2
  <2>3. fetches' \subseteq Fetches'
    BY <1>1, <1>4 DEF FetchSucceeds, Types, TokenTypes, Fetches
  <2>4. TokenTypes'
    BY <1>4, <2>2, <2>3 DEF Types, TokenTypes, Fetches, FetchSucceeds, server
  <2>5. WorkTypes' /\ QueueTypes'
    BY <1>1, <1>3, <1>4 DEF Types, WorkTypes, QueueTypes, FetchSucceeds, work, server, network
  <2>6. QED
    BY <2>4, <2>5 DEF Types
<1>5. ASSUME NEW f \in fetches, FetchFails(f) PROVE Types'
  <2>1. fetches' \subseteq Fetches'
    BY <1>1, <1>5 DEF FetchFails, Types, TokenTypes, Fetches
  <2>2. TokenTypes'
    BY <1>5, <2>1 DEF Types, TokenTypes, Fetches, FetchFails, Schedule, States, server, history
  <2>3. WorkTypes' /\ QueueTypes'
    BY <1>1, <1>3, <1>5 DEF Types, WorkTypes, QueueTypes, FetchFails, work, server, network, history
  <2>4. QED
    BY <2>2, <2>3 DEF Types
<1>6. CASE OnTokenChange
  <2>1. Head(posts).token \in 0 .. issued
    BY <1>6, NextPost DEF OnTokenChange, Posted
  <2>2. toServer' \in Seq(Requests)
    BY <1>6, <2>1, TypesRequested DEF OnTokenChange
  <2>3. authToken' \in 0 .. issued /\ overtaken' \in BOOLEAN /\ unrefreshed' \in BOOLEAN
    BY <1>6, <2>1 DEF OnTokenChange
  <2>4. fetches' \subseteq Fetches'
    BY <1>1, <1>6 DEF OnTokenChange, Types, TokenTypes, Fetches
  <2>5. TokenTypes'
    BY <1>6, <2>3, <2>4 DEF Types, TokenTypes, Fetches, OnTokenChange, server
  <2>6. WorkTypes' /\ QueueTypes'
    BY <1>1, <1>3, <1>6, <2>2 DEF Types, WorkTypes, QueueTypes, OnTokenChange, work, server
  <2>7. QED
    BY <2>5, <2>6 DEF Types
<1>7. CASE OnReady
  <2>1. /\ toServer' \in Seq(Requests) /\ unacked' \in Int /\ sentGets' \subseteq 1 .. getCounter
    <3>1. CASE authToken = NoToken
      <4>1. RestoreState(<<>>) /\ <<>> \in Seq(Requests)
        BY <1>7, <3>1, EmptySeq DEF OnReady
      <4>2. QED
        BY <1>1, <4>1, TypesRestored
    <3>2. CASE authToken # NoToken
      <4>1. Auth(authToken, TRUE) \in Requests
        BY <1>2, <3>2 DEF Types, TokenTypes, Requests, Auth, NoToken
      <4>2. toServer' = <<Auth(authToken, TRUE)>> /\ UNCHANGED <<unacked, sentGets>>
        BY <1>7, <3>2 DEF OnReady
      <4>3. <<Auth(authToken, TRUE)>> \in Seq(Requests)
        BY <4>1, Single
      <4>4. QED
        BY <4>2, <4>3 DEF Types, WorkTypes
    <3>3. QED
      BY <3>1, <3>2
  <2>2. TokenTypes'
    BY <1>7 DEF Types, TokenTypes, Fetches, OnReady, States, token, server, auth, history
  <2>3. WorkTypes' /\ QueueTypes'
    BY <1>1, <1>7, <1>3, <2>1 DEF Types, WorkTypes, QueueTypes, OnReady, server, history
  <2>4. QED
    BY <2>2, <2>3 DEF Types
<1>8. QED
  BY <1>4, <1>5, <1>6, <1>7 DEF Told, Fetched

\* Answers and pushes.
LEMMA AnswersKeepTypes ==
  ASSUME Types, Answered
  PROVE  Types'
<1>1. UNCHANGED <<issued, listened, putCounter, getCounter>>
  BY DEF Answered, OnAuthAnswer, OnAuthRevoked, OnListenAnswer, OnListenRevoked, OnPutAnswer,
         OnGetAnswer, auth, asked
<1>2. Requests' = Requests /\ Answers' = Answers
  BY <1>1, Asked
<1>3. /\ toClient # <<>> /\ Head(toClient) \in Answers /\ Tail(toClient) \in Seq(Answers)
      /\ toServer \in Seq(Requests)
  <2>1. toClient # <<>>
    BY DEF Answered, OnAuthAnswer, OnAuthRevoked, OnListenAnswer, OnListenRevoked, OnPutAnswer,
           OnGetAnswer, Answer
  <2>2. QED
    BY <2>1, Received DEF Types, QueueTypes
<1>4. issued \in Nat /\ 0 \in 0 .. issued /\ \A S : <<>> \in Seq(S)
  BY EmptySeq DEF Types, TokenTypes
<1>5. ASSUME LoseToken, UNCHANGED <<reasons, attempt, fetches, auth, overtaken>>,
             UNCHANGED <<work, asked, arrived, completed, answered, budget>>
      PROVE  Types'
  <2>1. Close(reasons, TRUE) /\ authToken' = 0 /\ unrefreshed' = TRUE
    BY <1>5 DEF LoseToken, NoToken
  <2>2. /\ state' \in States /\ retry' \in {"none", "plain", "forced"} /\ force' \in BOOLEAN
        /\ session' = 0 /\ watched' = {} /\ unacked' = 0
        /\ toServer' = <<>> /\ toClient' = <<>>
    BY <2>1, TypesClosed DEF NoToken
  <2>3. TokenTypes'
    BY <1>4, <1>5, <2>1, <2>2 DEF Types, TokenTypes, Fetches, auth
  <2>4. WorkTypes' /\ QueueTypes'
    BY <1>2, <1>4, <1>5, <2>2 DEF Types, WorkTypes, QueueTypes, work, asked
  <2>5. QED
    BY <2>3, <2>4 DEF Types
<1>6. CASE OnAuthAnswer
  <2>1. CASE Head(toClient).ok
    <3>1. /\ state' = "connected" /\ toClient' = Tail(toClient)
          /\ UNCHANGED <<reasons, retry, force, attempt, fetches, authToken, server, auth>>
          /\ UNCHANGED <<overtaken, unrefreshed>>
          /\ UNCHANGED <<listens, puts, putsToAck, gets, timedGets, asked>>
          /\ UNCHANGED <<arrived, completed, answered, budget>>
      BY <1>6, <2>1 DEF OnAuthAnswer
    <3>2. /\ toServer' \in Seq(Requests) /\ unacked' \in Int /\ sentGets' \subseteq 1 .. getCounter
      <4>1. CASE Head(toClient).restore
        BY <1>1, <1>3, <1>6, <2>1, <4>1, TypesRestored DEF OnAuthAnswer
      <4>2. CASE ~ Head(toClient).restore
        BY <1>3, <1>6, <2>1, <4>2 DEF OnAuthAnswer, Types, WorkTypes
      <4>3. QED
        BY <4>1, <4>2
    <3>3. TokenTypes'
      BY <3>1 DEF Types, TokenTypes, Fetches, States, server, auth
    <3>4. WorkTypes' /\ QueueTypes'
      BY <1>2, <1>3, <3>1, <3>2 DEF Types, WorkTypes, QueueTypes, server, asked
    <3>5. QED
      BY <3>3, <3>4 DEF Types
  <2>2. CASE ~ Head(toClient).ok
    BY <1>5, <1>6, <2>2 DEF OnAuthAnswer, work
  <2>3. QED
    BY <2>1, <2>2
<1>7. CASE OnAuthRevoked
  BY <1>5, <1>7 DEF OnAuthRevoked
<1>8. CASE OnListenAnswer
  <2>1. TokenTypes'
    BY <1>8 DEF Types, TokenTypes, Fetches, OnListenAnswer, token, server, auth
  <2>2. unacked \in Int /\ putsToAck \in Seq(1 .. putCounter) /\ completed \in Seq(1 .. putCounter)
    BY DEF Types, WorkTypes
  <2>3. completed \o putsToAck \in Seq(1 .. putCounter) /\ <<>> \in Seq(1 .. putCounter)
    BY <1>4, <2>2, ConcatProperties
  <2>4. /\ unacked' \in Int /\ listens' \subseteq listens
        /\ putsToAck' \in Seq(1 .. putCounter) /\ completed' \in Seq(1 .. putCounter)
    <3>1. unacked' = unacked - 1 /\ listens' \in {listens, listens \ {Head(toClient).query}}
      BY <1>8 DEF OnListenAnswer
    <3>2. putsToAck' \in {putsToAck, <<>>} /\ completed' \in {completed, completed \o putsToAck}
      BY <1>8 DEF OnListenAnswer
    <3>3. putsToAck' \in Seq(1 .. putCounter) /\ completed' \in Seq(1 .. putCounter)
      BY <2>2, <2>3, <3>2
    <3>4. unacked' \in Int /\ listens' \subseteq listens
      BY <2>2, <3>1
    <3>5. QED
      BY <3>3, <3>4
  <2>5. WorkTypes' /\ QueueTypes'
    BY <1>2, <1>3, <1>8, <2>4 DEF Types, WorkTypes, QueueTypes, OnListenAnswer, server, asked
  <2>6. QED
    BY <2>1, <2>5 DEF Types
<1>9. CASE OnListenRevoked
  <2>1. TokenTypes'
    BY <1>9 DEF Types, TokenTypes, Fetches, OnListenRevoked, token, server, auth, history
  <2>2. WorkTypes' /\ QueueTypes'
    BY <1>2, <1>3, <1>9 DEF Types, WorkTypes, QueueTypes, OnListenRevoked, server, asked, history
  <2>3. QED
    BY <2>1, <2>2 DEF Types
<1>10. CASE OnPutAnswer
  <2> DEFINE i == Head(toClient).index
  <2>1. i \in 1 .. putCounter
    BY <1>3, <1>10, Kinds DEF OnPutAnswer, Answer, Types
  <2>2. putsToAck \in Seq(1 .. putCounter) /\ completed \in Seq(1 .. putCounter)
    BY DEF Types, WorkTypes
  <2>3. Append(completed, i) \in Seq(1 .. putCounter) /\ Append(putsToAck, i) \in Seq(1 .. putCounter)
    BY <2>1, <2>2, AppendProperties
  <2>4. /\ puts' = puts \ {i}
        /\ putsToAck' \in Seq(1 .. putCounter) /\ completed' \in Seq(1 .. putCounter)
    BY <1>10, <2>2, <2>3 DEF OnPutAnswer
  <2> HIDE DEF i
  <2>5. TokenTypes'
    BY <1>10 DEF Types, TokenTypes, Fetches, OnPutAnswer, token, server, auth
  <2>6. WorkTypes' /\ QueueTypes'
    BY <1>2, <1>3, <1>10, <2>4 DEF Types, WorkTypes, QueueTypes, OnPutAnswer, server, asked
  <2>7. QED
    BY <2>5, <2>6 DEF Types
<1>11. CASE OnGetAnswer
  <2> DEFINE i == Head(toClient).index
  <2>1. i \in 1 .. getCounter
    BY <1>3, <1>11, Kinds DEF OnGetAnswer, Answer, Types
  <2>2. gets' = gets \ {i} /\ answered' = answered \cup {i}
    BY <1>11 DEF OnGetAnswer
  <2> HIDE DEF i
  <2>3. TokenTypes'
    BY <1>11 DEF Types, TokenTypes, Fetches, OnGetAnswer, token, server, auth
  <2>4. WorkTypes' /\ QueueTypes'
    BY <1>2, <1>3, <1>11, <2>1, <2>2
       DEF Types, WorkTypes, QueueTypes, OnGetAnswer, server, asked
  <2>5. QED
    BY <2>3, <2>4 DEF Types
<1>12. QED
  BY <1>6, <1>7, <1>8, <1>9, <1>10, <1>11 DEF Answered

\* FIRAuth answers a fetch, or the user or the token changes.
LEMMA TokensKeepTypes ==
  ASSUME Types, Answering \/ Failing \/ FIRAuth
  PROVE  Types'
<1>1. UNCHANGED <<listened, putCounter, getCounter>>
  BY AuthIsAside DEF FIRAuth, clients, Expire, asked
<1>2. issued \in Nat /\ putCounter \in Nat /\ getCounter \in Nat
  BY ConnectionAssumption DEF Types, TokenTypes, WorkTypes
<1>3. ASSUME UNCHANGED clients, Grows, cached' \in 0 .. issued', expired' = expired,
             budget' \in [Events -> Nat]
      PROVE  Types'
  <2>1. /\ toServer \in Seq(Requests') /\ toClient \in Seq(Answers')
        /\ 0 .. issued \subseteq 0 .. issued' /\ 1 .. issued \subseteq 1 .. issued'
    BY <1>3, Growing
  <2>2. UNCHANGED <<attempt, fetches, authToken, session, force>> /\ issued' \in Nat
    BY <1>3 DEF clients, token, server, Grows
  <2>3. fetches' \subseteq Fetches' /\ authToken' \in 0 .. issued' /\ session' \in 0 .. issued'
        /\ expired' \subseteq 1 .. issued'
    BY <1>3, <2>1, <2>2 DEF Types, TokenTypes, Fetches
  <2>4. TokenTypes'
    BY <1>3, <2>2, <2>3 DEF Types, TokenTypes, Fetches, clients, history
  <2>5. WorkTypes' /\ QueueTypes'
    BY <1>1, <1>3, <2>1
       DEF Types, WorkTypes, QueueTypes, clients, work, network, server, history
  <2>6. QED
    BY <2>4, <2>5 DEF Types
<1>4. CASE Answering \/ Failing \/ NewToken \/ SignOut
  <2>1. UNCHANGED clients
    BY <1>4, AuthIsAside
  <2>2. /\ expired' = expired
        /\ \/ issued' = issued /\ cached' \in {cached, NoToken}
           \/ issued' = issued + 1 /\ cached' = issued + 1
    BY <1>4 DEF Answering, Refresh, AnswerFetch, Failing, FailFetch, NewToken, SignOut, Change
  <2>3. budget' \in [Events -> Nat]
    BY <1>4, Spent DEF Answering, Refresh, AnswerFetch, Failing, FailFetch, NewToken, SignOut, Types,
                       WorkTypes
  <2>4. Grows /\ cached' \in 0 .. issued'
    BY <1>1, <1>2, <2>2 DEF Grows, NoToken, Types, TokenTypes
  <2>5. QED
    BY <1>3, <2>1, <2>2, <2>3, <2>4
<1>5. ASSUME NEW t \in 1 .. issued, Expire(t) PROVE Types'
  <2>1. Requests' = Requests /\ Answers' = Answers
    BY <1>1, <1>5, Asked DEF Expire
  <2>2. session' \in 0 .. issued /\ toClient' \in Seq(Answers)
    <3>1. AuthRevoked \in Answers
      BY DEF AuthRevoked, Answers
    <3>2. Append(toClient, AuthRevoked) \in Seq(Answers) /\ 0 \in 0 .. issued
      BY <1>2, <3>1, Appended DEF Types, QueueTypes
    <3>3. QED
      BY <1>5, <3>2 DEF Expire, NoToken, Types, TokenTypes, QueueTypes
  <2>3. expired' \subseteq 1 .. issued
    BY <1>5 DEF Expire, Types, TokenTypes
  <2>4. TokenTypes'
    BY <1>5, <2>2, <2>3 DEF Types, TokenTypes, Fetches, Expire, token, history
  <2>5. WorkTypes' /\ QueueTypes'
    BY <1>1, <1>5, <2>1, <2>2, Spent DEF Types, WorkTypes, QueueTypes, Expire, work, history
  <2>6. QED
    BY <2>4, <2>5 DEF Types
<1>6. QED
  BY <1>4, <1>5 DEF FIRAuth

\* Requests of the app, and the timers of gets.
LEMMA AskingKeepsTypes ==
  ASSUME Types, Asking \/ Timer
  PROVE  Types'
<1>1. /\ TokenTypes' /\ issued' = issued /\ toClient' = toClient
      /\ UNCHANGED <<watched, arrived, completed, putsToAck>>
  BY DEF Asking, Put, Get, Listen, Unlisten, Timer, GetTimesOut, Types, TokenTypes, Fetches,
         token, server, auth, network, history
<1>2. issued \in Nat /\ putCounter \in Nat /\ getCounter \in Nat /\ MaxPuts \in Nat /\ MaxGets \in Nat
  BY ConnectionAssumption DEF Types, TokenTypes, WorkTypes
<1>3. CASE Put
  <2>1. /\ putCounter' = putCounter + 1 /\ putCounter' \in 0 .. MaxPuts
        /\ puts' = puts \cup {putCounter'}
        /\ UNCHANGED <<getCounter, listened>>
    BY <1>2, <1>3 DEF Put
  <2>2. Grows
    BY <1>1, <1>2, <2>1 DEF Grows
  <2>3. /\ toServer \in Seq(Requests') /\ toClient \in Seq(Answers')
        /\ 1 .. putCounter \subseteq 1 .. putCounter' /\ putCounter' \in 1 .. putCounter'
    BY <1>2, <2>1, <2>2, Growing
  <2>4. SendPut(putCounter') \in Requests'
    BY <2>3 DEF SendPut, Requests
  <2>5. toServer' \in Seq(Requests')
    BY <1>3, <2>3, <2>4, Appended DEF Put
  <2>6. putsToAck \in Seq(1 .. putCounter') /\ completed \in Seq(1 .. putCounter')
    BY <2>3, SeqMonotonic DEF Types, WorkTypes
  <2>7. WorkTypes'
    BY <1>1, <1>3, <2>1, <2>3, <2>6 DEF Types, WorkTypes, Put, history
  <2>8. QED
    BY <1>1, <2>3, <2>5, <2>7 DEF Types, QueueTypes
<1>4. CASE Get
  <2>1. /\ getCounter' = getCounter + 1 /\ getCounter' \in 0 .. MaxGets
        /\ gets' = gets \cup {getCounter'}
        /\ sentGets' \subseteq sentGets \cup {getCounter'}
        /\ timedGets' \subseteq timedGets \cup {getCounter'}
        /\ UNCHANGED <<putCounter, listened>>
    BY <1>2, <1>4 DEF Get
  <2>2. Grows
    BY <1>1, <1>2, <2>1 DEF Grows
  <2>3. /\ toServer \in Seq(Requests') /\ toClient \in Seq(Answers')
        /\ 1 .. getCounter \subseteq 1 .. getCounter' /\ getCounter' \in 1 .. getCounter'
    BY <1>2, <2>1, <2>2, Growing
  <2>4. SendGet(getCounter') \in Requests'
    BY <2>3 DEF SendGet, Requests
  <2>5. toServer' \in Seq(Requests')
    <3>1. Append(toServer, SendGet(getCounter')) \in Seq(Requests')
      BY <2>3, <2>4, Appended
    <3>2. toServer' \in {toServer, Append(toServer, SendGet(getCounter'))}
      BY <1>4 DEF Get
    <3>3. QED
      BY <2>3, <3>1, <3>2
  <2>6. WorkTypes'
    BY <1>1, <1>4, <2>1, <2>3 DEF Types, WorkTypes, Get, history
  <2>7. QED
    BY <1>1, <2>3, <2>5, <2>6 DEF Types, QueueTypes
<1>5. ASSUME NEW q \in Queries, Listen(q) PROVE Types'
  <2>1. /\ listened' = listened \cup {q} /\ listens' = listens \cup {q}
        /\ UNCHANGED <<putCounter, getCounter>>
    BY <1>5 DEF Listen
  <2>2. Grows
    BY <1>1, <1>2, <2>1 DEF Grows
  <2>3. toServer \in Seq(Requests') /\ toClient \in Seq(Answers')
    BY <2>2, Growing
  <2>4. SendListen(q) \in Requests'
    BY <2>1 DEF SendListen, Requests
  <2>5. toServer' \in Seq(Requests') /\ unacked' \in Int
    <3>1. Append(toServer, SendListen(q)) \in Seq(Requests')
      BY <2>3, <2>4, Appended
    <3>2. toServer' \in {toServer, Append(toServer, SendListen(q))}
      BY <1>5 DEF Listen
    <3>3. unacked' \in {unacked, unacked + 1} /\ unacked \in Int
      BY <1>5 DEF Listen, Types, WorkTypes
    <3>4. toServer' \in Seq(Requests')
      BY <2>3, <3>1, <3>2
    <3>5. unacked' \in Int
      BY <3>3
    <3>6. QED
      BY <3>4, <3>5
  <2>6. IsFiniteSet(listened')
    BY <2>1, FS_AddElement DEF Types, WorkTypes
  <2>7. WorkTypes'
    BY <1>1, <1>5, <2>1, <2>5, <2>6 DEF Types, WorkTypes, Listen, history
  <2>8. QED
    BY <1>1, <2>3, <2>5, <2>7 DEF Types, QueueTypes
<1>6. ASSUME NEW q \in Queries, Unlisten(q) PROVE Types'
  <2>1. UNCHANGED <<listened, putCounter, getCounter>>
    BY <1>6 DEF Unlisten, asked
  <2>2. Requests' = Requests /\ Answers' = Answers
    BY <1>1, <2>1, Asked
  <2>3. SendUnlisten(q) \in Requests
    BY <1>6 DEF Unlisten, SendUnlisten, Requests, Types, WorkTypes
  <2>4. toServer' \in Seq(Requests)
    BY <1>6, <2>3, Appended DEF Unlisten, Types, QueueTypes
  <2>5. WorkTypes'
    BY <1>1, <1>6, <2>1, Spent DEF Types, WorkTypes, Unlisten, history
  <2>6. QED
    BY <1>1, <2>2, <2>4, <2>5 DEF Types, QueueTypes
<1>7. ASSUME NEW i \in timedGets, GetTimesOut(i) PROVE Types'
  <2>1. UNCHANGED <<listened, putCounter, getCounter, toServer>>
    BY <1>7 DEF GetTimesOut, asked, network
  <2>2. Requests' = Requests /\ Answers' = Answers
    BY <1>1, <2>1, Asked
  <2>3. /\ gets' \subseteq gets /\ timedGets' \subseteq timedGets
        /\ sentGets' \subseteq sentGets \cup {i} /\ answered' \subseteq answered \cup {i}
    BY <1>7 DEF GetTimesOut
  <2>4. WorkTypes'
    BY <1>1, <1>7, <2>1, <2>3 DEF Types, WorkTypes, GetTimesOut
  <2>5. QED
    BY <1>1, <2>1, <2>2, <2>4 DEF Types, QueueTypes
<1>8. QED
  BY <1>3, <1>4, <1>5, <1>6, <1>7 DEF Asking, Timer

\* The server.
LEMMA ServingKeepsTypes ==
  ASSUME Types, Serve \/ Revoking
  PROVE  Types'
<1>1. /\ UNCHANGED <<issued, listened, putCounter, getCounter, state, reasons, retry, token, unacked>>
      /\ UNCHANGED <<work, auth, completed, answered, overtaken, unrefreshed>>
  BY DEF Serve, ServerAuth, ServerUnauth, ServerListen, ServerUnlisten, ServerPut, ServerGet,
         Revoking, RevokeListen, auth, asked, history
<1>2. Requests' = Requests /\ Answers' = Answers
  BY <1>1, Asked
<1>3. Serve => /\ toServer # <<>> /\ Head(toServer) \in Requests /\ toServer' = Tail(toServer)
               /\ Tail(toServer) \in Seq(Requests) /\ budget' = budget
  <2>1. Serve => toServer # <<>> /\ toServer' = Tail(toServer) /\ budget' = budget
    BY DEF Serve, ServerAuth, ServerUnauth, ServerListen, ServerUnlisten, ServerPut, ServerGet,
           Request
  <2>2. QED
    BY <2>1, Requested
<1>4. \A a \in Answers : Append(toClient, a) \in Seq(Answers)
  BY Appended DEF Types, QueueTypes
<1>5. ASSUME toServer' \in Seq(Requests), toClient' \in Seq(Answers), session' \in 0 .. issued,
             watched' \subseteq listened, arrived' \subseteq 1 .. putCounter,
             budget' \in [Events -> Nat]
      PROVE  Types'
  <2>1. TokenTypes'
    BY <1>1, <1>5 DEF Types, TokenTypes, Fetches, token, auth
  <2>2. WorkTypes' /\ QueueTypes'
    BY <1>1, <1>2, <1>5 DEF Types, WorkTypes, QueueTypes, work
  <2>3. QED
    BY <2>1, <2>2 DEF Types
<1>6. /\ session \in 0 .. issued /\ 0 \in 0 .. issued /\ watched \subseteq listened
      /\ arrived \subseteq 1 .. putCounter /\ budget \in [Events -> Nat]
      /\ toServer \in Seq(Requests) /\ toClient \in Seq(Answers)
  BY DEF Types, TokenTypes, WorkTypes, QueueTypes
<1>7. CASE ServerAuth
  <2> DEFINE ok == Head(toServer).token \notin expired
             answer == AuthAnswer(ok, Head(toServer).restore)
  <2>1. Head(toServer).token \in 1 .. issued /\ Head(toServer).restore \in BOOLEAN
    BY <1>3, <1>7, Kinds DEF Serve, ServerAuth, Request, Types
  <2>2. answer \in Answers
    BY <2>1 DEF AuthAnswer, Answers
  <2>3. toClient' = Append(toClient, answer) /\ session' \in 0 .. issued
    BY <1>6, <1>7, <2>1 DEF ServerAuth, NoToken
  <2> HIDE DEF answer, ok
  <2>4. UNCHANGED <<watched, arrived>>
    BY <1>7 DEF ServerAuth, history
  <2>5. QED
    BY <1>3, <1>4, <1>5, <1>6, <1>7, <2>2, <2>3, <2>4 DEF Serve
<1>8. CASE ServerUnauth
  BY <1>3, <1>5, <1>6, <1>8 DEF Serve, ServerUnauth, NoToken, history
<1>9. CASE ServerListen
  <2>1. Head(toServer).query \in listened
    BY <1>3, <1>9, Kinds DEF Serve, ServerListen, Request, Types
  <2>2. ListenAnswer(Head(toServer).query, session # NoToken) \in Answers
    BY <2>1 DEF ListenAnswer, Answers
  <2>3. toClient' \in Seq(Answers)
    BY <1>4, <1>9, <2>2 DEF ServerListen
  <2>4. watched' \subseteq listened /\ UNCHANGED <<session, arrived>>
    BY <1>6, <1>9, <2>1 DEF ServerListen, history
  <2>5. QED
    BY <1>3, <1>5, <1>6, <1>9, <2>3, <2>4 DEF Serve
<1>10. CASE ServerUnlisten
  BY <1>3, <1>5, <1>6, <1>10 DEF Serve, ServerUnlisten, history
<1>11. CASE ServerPut
  <2>1. Head(toServer).index \in 1 .. putCounter
    BY <1>3, <1>11, Kinds DEF Serve, ServerPut, Request, Types
  <2>2. PutAnswer(Head(toServer).index) \in Answers
    BY <2>1 DEF PutAnswer, Answers
  <2>3. toClient' \in Seq(Answers) /\ arrived' \subseteq 1 .. putCounter
    BY <1>4, <1>6, <1>11, <2>1, <2>2 DEF ServerPut
  <2>4. UNCHANGED <<session, watched>>
    BY <1>11 DEF ServerPut, server
  <2>5. QED
    BY <1>3, <1>5, <1>6, <1>11, <2>3, <2>4 DEF Serve
<1>12. CASE ServerGet
  <2>1. Head(toServer).index \in 1 .. getCounter
    BY <1>3, <1>12, Kinds DEF Serve, ServerGet, Request, Types
  <2>2. GetAnswer(Head(toServer).index) \in Answers
    BY <2>1 DEF GetAnswer, Answers
  <2>3. toClient' \in Seq(Answers)
    BY <1>4, <1>12, <2>2 DEF ServerGet
  <2>4. UNCHANGED <<session, watched, arrived>>
    BY <1>12 DEF ServerGet, server, history
  <2>5. QED
    BY <1>3, <1>5, <1>6, <1>12, <2>3, <2>4 DEF Serve
<1>13. ASSUME NEW q \in watched, RevokeListen(q) PROVE Types'
  <2>1. ListenRevoked(q) \in Answers
    BY <1>6 DEF ListenRevoked, Answers
  <2>2. toClient' \in Seq(Answers) /\ watched' \subseteq listened
    BY <1>4, <1>6, <1>13, <2>1 DEF RevokeListen
  <2>3. UNCHANGED <<toServer, session, arrived>> /\ budget' \in [Events -> Nat]
    BY <1>6, <1>13, Spent DEF RevokeListen, history
  <2>4. QED
    BY <1>5, <1>6, <2>2, <2>3
<1>14. QED
  BY <1>7, <1>8, <1>9, <1>10, <1>11, <1>12, <1>13 DEF Serve, Revoking

LEMMA TypesNext ==
  ASSUME Types, PostTypes, [Next]_vars
  PROVE  Types'
<1>1. CASE Next
  BY <1>1, AttemptsKeepTypes, FetchesKeepTypes, AnswersKeepTypes, TokensKeepTypes, AskingKeepsTypes,
     ServingKeepsTypes DEF Next
<1>2. CASE UNCHANGED vars
  <2>1. Requests' = Requests /\ Answers' = Answers
    BY <1>2, Asked DEF vars, auth, asked
  <2>2. TokenTypes' /\ WorkTypes'
    BY <1>2 DEF vars, token, work, server, auth, asked, history, Types, TokenTypes, Fetches,
                WorkTypes
  <2>3. QueueTypes'
    BY <1>2, <2>1 DEF vars, network, Types, QueueTypes
  <2>4. QED
    BY <2>2, <2>3 DEF Types
<1>3. QED
  BY <1>1, <1>2

-----------------------------------------------------------------------------
(* What FIRAuth posts.                                                     *)

\* Who changes the blocks posted by FIRAuth, and how.
Posting == Answering \/ Failing \/ NewToken \/ SignOut

LEMMA WhoPosts ==
  ASSUME [Next]_vars, ~ Posting
  PROVE  /\ issued' = issued /\ cached' = cached
         /\ posts' = posts \/ (Told /\ posts # <<>> /\ posts' = Tail(posts))
<1>1. CASE Told
  BY <1>1 DEF Told, Fetched, FetchSucceeds, FetchFails, OnTokenChange, Posted
<1>2. CASE Resuming \/ Interrupting \/ RetryFires \/ OnReady \/ Answered
  BY <1>2 DEF Resuming, Resume, Interrupting, GoOffline, ServerKill, Interrupt, Drop, Signal,
              RetryFires, OnReady, Answered, OnAuthAnswer, OnAuthRevoked, OnListenAnswer,
              OnListenRevoked, OnPutAnswer, OnGetAnswer, auth
<1>3. CASE Asking \/ Timer \/ Serve \/ Revoking
  BY <1>3 DEF Asking, Put, Get, Listen, Unlisten, Timer, GetTimesOut, Serve, ServerAuth,
              ServerUnauth, ServerListen, ServerUnlisten, ServerPut, ServerGet, Revoking,
              RevokeListen, auth
<1>4. CASE FIRAuth
  BY <1>4 DEF FIRAuth, Expire, Posting
<1>5. CASE UNCHANGED vars
  BY <1>5 DEF vars, auth
<1>6. QED
  BY <1>1, <1>2, <1>3, <1>4, <1>5 DEF Next, Posting

LEMMA WhatIsPosted ==
  ASSUME TokenTypes, Posting
  PROVE  \/ \E t \in 0 .. issued' : /\ posts' = Append(posts, TokenPost(t)) /\ cached' = t
                                    /\ (NewToken /\ t = issued + 1) \/ (SignOut /\ t = NoToken)
         \/ /\ cached' = issued + 1 /\ issued' = issued + 1
            /\ \E f \in fetches : /\ f.forced /\ f.token = cached /\ cached \in expired
                                  /\ posts' = posts \o <<TokenPost(cached'), FetchPost(f, cached')>>
         \/ /\ cached' = cached
            /\ \E f \in fetches : \E t \in {cached} \cup ({f.token} \ {NoToken}) :
                 posts' = Append(posts, FetchPost(f, t))
         \/ /\ cached' = cached /\ Failing
            /\ \E f \in fetches : posts' = Append(posts, FailurePost(f))
<1>1. CASE Answering
  BY <1>1 DEF Answering, Refresh, AnswerFetch
<1>2. CASE Failing
  BY <1>2 DEF Failing, FailFetch
<1>3. CASE NewToken
  <2>1. issued \in Nat /\ issued' = issued + 1 /\ Change(issued + 1)
    BY <1>3 DEF NewToken, TokenTypes
  <2>2. issued + 1 \in 0 .. issued'
    BY <2>1
  <2>3. QED
    BY <1>3, <2>1, <2>2 DEF Change
<1>4. CASE SignOut
  <2>1. issued \in Nat /\ issued' = issued /\ Change(NoToken) /\ NoToken \in 0 .. issued
    BY <1>4 DEF SignOut, TokenTypes, NoToken
  <2>2. QED
    BY <1>4, <2>1 DEF Change
<1>5. QED
  BY <1>1, <1>2, <1>3, <1>4 DEF Posting

\* Attempts are counted and tokens issued; what may be posted only grows.
LEMMA PostsGrow ==
  ASSUME TokenTypes, [Next]_vars
  PROVE  /\ issued' \in Nat /\ 0 .. issued \subseteq 0 .. issued'
         /\ Fetches \subseteq Fetches' /\ Posts \subseteq Posts'
<1>1. issued' \in {issued, issued + 1}
  <2>1. Posting => issued' \in {issued, issued + 1}
    BY DEF Posting, Answering, Refresh, AnswerFetch, Failing, FailFetch, NewToken, SignOut
  <2>2. QED
    BY <2>1, WhoPosts
<1>2. attempt' \in {attempt, attempt + 1}
  <2>1. CASE Resuming \/ Interrupting \/ RetryFires \/ Told \/ OnReady
    BY <2>1 DEF Resuming, Resume, Interrupting, GoOffline, ServerKill, Interrupt, Drop, Signal,
                RetryFires, Told, Fetched, FetchSucceeds, FetchFails, OnTokenChange, OnReady, token
  <2>2. CASE Answered \/ Asking \/ Timer
    BY <2>2 DEF Answered, OnAuthAnswer, OnAuthRevoked, OnListenAnswer, OnListenRevoked,
                OnPutAnswer, OnGetAnswer, Asking, Put, Get, Listen, Unlisten, Timer, GetTimesOut,
                LoseToken, token
  <2>3. CASE Serve \/ Revoking
    BY <2>3 DEF Serve, ServerAuth, ServerUnauth, ServerListen, ServerUnlisten, ServerPut,
                ServerGet, Revoking, RevokeListen, token
  <2>4. CASE Answering \/ Failing \/ FIRAuth
    BY <2>4, AuthIsAside DEF FIRAuth, Expire, clients, token
  <2>5. CASE UNCHANGED vars
    BY <2>5 DEF vars, token
  <2>6. QED
    BY <2>1, <2>2, <2>3, <2>4, <2>5 DEF Next
<1>3. issued' \in Nat /\ 0 .. issued \subseteq 0 .. issued' /\ 1 .. attempt \subseteq 1 .. attempt'
  BY <1>1, <1>2 DEF TokenTypes
<1>4. Fetches \subseteq Fetches'
  BY <1>3 DEF Fetches
<1>5. Posts \subseteq Posts'
  BY <1>3, <1>4 DEF Posts, TokenPost, FetchPost, FailurePost
<1>6. QED
  BY <1>3, <1>4, <1>5

LEMMA PostTypesNext ==
  ASSUME TokenTypes, TokenTypes', PostTypes, [Next]_vars
  PROVE  PostTypes'
<1>1. posts \in Seq(Posts) /\ posts \in Seq(Posts')
  BY PostsGrow, SeqMonotonic DEF PostTypes
<1>2. CASE ~ Posting
  BY <1>1, <1>2, WhoPosts, Taken DEF PostTypes
<1>3. CASE Posting
  <2>1. /\ \A t \in 0 .. issued' : TokenPost(t) \in Posts'
        /\ \A f \in fetches, t \in 0 .. issued' : FetchPost(f, t) \in Posts'
        /\ \A f \in fetches : FailurePost(f) \in Posts'
    <3>1. \A f \in fetches : f \in Fetches'
      BY PostsGrow DEF TokenTypes
    <3>2. /\ \A t \in 0 .. issued' : TokenPost(t) \in Posts'
          /\ \A f \in Fetches', t \in 0 .. issued' : FetchPost(f, t) \in Posts'
          /\ \A f \in Fetches' : FailurePost(f) \in Posts'
      BY DEF Posts
    <3>3. QED
      BY <3>1, <3>2
  <2>2. \A p \in Posts' : Append(posts, p) \in Seq(Posts')
    BY <1>1, Appended
  <2>3. \A p, q \in Posts' : posts \o <<p, q>> \in Seq(Posts')
    <3>1. \A p, q \in Posts' : <<p, q>> \in Seq(Posts')
      OBVIOUS
    <3>2. QED
      BY <1>1, <3>1, ConcatProperties
  <2>4. cached \in 0 .. issued' /\ cached' \in 0 .. issued'
        /\ \A f \in fetches : f.token \in 0 .. issued'
    BY PostsGrow DEF TokenTypes, Fetches
  <2>5. QED
    BY <1>3, <2>1, <2>2, <2>3, <2>4, WhatIsPosted DEF PostTypes
<1>4. QED
  BY <1>2, <1>3

LEMMA TypesHold == Spec => [](Types /\ PostTypes)
<1>1. Init => Types /\ PostTypes
  BY TypesInit, EmptySeq DEF Init, PostTypes
<1>2. Types /\ PostTypes /\ [Next]_vars => (Types /\ PostTypes)'
  BY TypesNext, PostTypesNext DEF Types
<1>3. QED
  BY <1>1, <1>2, PTL DEF Spec

-----------------------------------------------------------------------------
(* The theorems.                                                           *)

\* At most one attempt is under way, and the fetch the connection waits for is its:
\* the assertions of tryScheduleReconnect and of its blocks cannot fail.
THEOREM OneAttemptAtATime == Spec => []OneAttempt
<1>1. IInv => OneAttempt
  BY DEF IInv
<1>2. QED
  BY <1>1, Invariance, PTL

\* An interrupted connection stays down, and only an interruption keeps it down:
\* interruptForReason, resumeForReason and the signals agree in every order.
THEOREM InterruptionsHold == Spec => []InterruptedIsDown
<1>1. IInv => InterruptedIsDown
  BY DEF IInv
<1>2. QED
  BY <1>1, Invariance, PTL

\* Every block that handles an answer finds its connection, and a closed one leaves
\* no request, answer or session of the server behind.
THEOREM ClosedIsSilent == Spec => []NothingOutlives
<1>1. IInv => NothingOutlives
  BY DEF IInv
<1>2. QED
  BY <1>1, Invariance, PTL
=============================================================================
