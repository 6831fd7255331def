----------------------- MODULE ConnectionQueueProofs -----------------------
(***************************************************************************)
(* Proofs about the requests and answers under way in Connection, for any  *)
(* queries, any numbers of puts and gets and any budget of events.         *)
(*                                                                         *)
(* The invariant says what may be on the way in which state: nothing       *)
(* before the first request, the token first, puts and gets only once it   *)
(* was accepted, the puts in the order of their indexes on the way there   *)
(* and then on the way back; and what is on the way about tokens makes up  *)
(* for the difference between the server's and the client's.               *)
(***************************************************************************)
EXTENDS ConnectionProofs

\* The message at a place is about the token that opens the connection.
Restores(q, n) == q[n].kind = "auth" /\ q[n].restore

\* What is said about tokens: by requests to the server, and by FIRAuth's posts.
TokenKinds == {"auth", "unauth", "token"}
TokenOf(m) == IF m.kind = "unauth" THEN NoToken ELSE m.token

\* The last that is said about a token in a queue is this one.
Speaks(q, t) ==
  \E n \in DOMAIN q : /\ q[n].kind \in TokenKinds /\ TokenOf(q[n]) = t
                      /\ \A m \in DOMAIN q : m > n => q[m].kind \notin TokenKinds

\* The message at a place makes the client forget its token.
Bad(q, n) == q[n].kind = "authRevoked" \/ (q[n].kind = "auth" /\ ~ q[n].ok)
HasBad(q) == \E n \in DOMAIN q : Bad(q, n)

-----------------------------------------------------------------------------
(* Turns: what may be on the way in which state.                           *)

\* Nothing is sent before the connection is ready.
Fresh ==
  state = "connecting" => toServer = <<>> /\ toClient = <<>> /\ session = NoToken /\ watched = {}

\* The token that opens the connection goes first, there and back.
TokenFirst ==
  /\ state = "authenticating" =>
       \/ /\ toClient = <<>> /\ toServer # <<>> /\ Restores(toServer, 1)
          /\ session = NoToken /\ watched = {}
       \/ toClient # <<>> /\ Restores(toClient, 1)
  /\ \A n \in DOMAIN toServer :
       Restores(toServer, n) => n = 1 /\ toClient = <<>> /\ state = "authenticating"
  /\ \A n \in DOMAIN toClient : Restores(toClient, n) => n = 1 /\ state = "authenticating"

\* Puts and gets wait for the token to be accepted.
WorkLast == ~ CanSend => ~ Has(toServer, {"put", "get"}) /\ ~ Has(toClient, {"put", "get"})

Turns == Fresh /\ TokenFirst /\ WorkLast

\* What a step does to the queues, for all actions: nothing,
Silent ==
  /\ UNCHANGED <<toServer, toClient, session, watched, unacked>>
  /\ state' = state \/ (~ Realtime /\ ~ IsConnected')
  /\ IsConnected' => authToken' = authToken
  /\ CanSend' => puts' = puts

\* or all that is under way is lost,
Closing ==
  /\ state' = "disconnected"
  /\ toServer' = <<>> /\ toClient' = <<>>
  /\ session' = NoToken /\ watched' = {} /\ unacked' = 0

\* or a request is sent,
Sending(r) ==
  /\ r \in Requests' /\ (r.kind = "auth" => ~ r.restore)
  /\ IsConnected /\ (r.kind \in {"put", "get"} => CanSend)
  /\ toServer' = Append(toServer, r)
  /\ UNCHANGED <<state, toClient, session, watched>>
  /\ unacked' = unacked + (IF r.kind = "listen" THEN 1 ELSE 0)
  /\ puts' = IF r.kind = "put" THEN puts \cup {putCounter + 1} ELSE puts
  /\ r.kind = "put" => r.index = putCounter + 1
  /\ r.kind = "listen" => r.query \in listens'
  /\ r.kind = "unlisten" => Spend("unlisten")
  /\ authToken' = IF r.kind \in TokenKinds THEN TokenOf(r) ELSE authToken

\* or the token that opens the connection,
Starting ==
  /\ state = "connecting" /\ state' = "authenticating"
  /\ authToken \in 1 .. issued /\ toServer' = <<Auth(authToken, TRUE)>>
  /\ UNCHANGED <<toClient, session, watched, unacked, puts, authToken>>

\* or everything,
Restoring ==
  /\ \/ state = "connecting" /\ authToken = NoToken /\ toClient' = toClient
     \/ /\ state = "authenticating" /\ toClient # <<>> /\ toClient' = Tail(toClient)
        /\ Head(toClient).kind = "auth" /\ Head(toClient).ok
  /\ state' = "connected"
  /\ RestoreState(toServer)
  /\ UNCHANGED <<session, watched, puts, authToken>>

\* or an answer is received,
Receiving ==
  /\ state = "connected" /\ state' = "connected"
  /\ toClient # <<>> /\ ~ Bad(toClient, 1)
  /\ toClient' = Tail(toClient)
  /\ UNCHANGED <<toServer, session, watched, authToken>>
  /\ unacked' = unacked - (IF Head(toClient).kind = "listen" THEN 1 ELSE 0)
  /\ puts' = IF Head(toClient).kind = "put" THEN puts \ {Head(toClient).index} ELSE puts
  /\ Head(toClient).kind = "listen" /\ unacked = 1 => putsToAck' = <<>>

\* or the server takes a request, and may answer it.
AnswerTo(r) ==
  CASE r.kind = "auth"   -> AuthAnswer(r.token \notin expired, r.restore)
    [] r.kind = "listen" -> ListenAnswer(r.query, session # NoToken)
    [] r.kind = "put"    -> PutAnswer(r.index)
    [] r.kind = "get"    -> GetAnswer(r.index)

Serving ==
  /\ toServer # <<>> /\ toServer' = Tail(toServer)
  /\ toClient' = IF Head(toServer).kind \in {"unauth", "unlisten"} THEN toClient
                 ELSE Append(toClient, AnswerTo(Head(toServer)))
  /\ session' = IF Head(toServer).kind \notin TokenKinds THEN session
                ELSE IF TokenOf(Head(toServer)) \in expired THEN NoToken
                ELSE TokenOf(Head(toServer))
  /\ Head(toServer).kind = "put" => Head(toServer).index \in arrived'
  /\ UNCHANGED <<state, unacked, puts, authToken>>

\* or tells the client that a token or a query is no longer accepted.
Telling(a) ==
  /\ a \in Answers /\ a.kind \in {"authRevoked", "listenRevoked"}
  /\ toClient' = Append(toClient, a)
  /\ IF a.kind = "authRevoked" THEN session \in 1 .. issued /\ session' = NoToken
                               ELSE watched # {} /\ session' = session /\ Spend("revoke")
  /\ UNCHANGED <<state, toServer, unacked, puts, authToken>>

LEMMA HeadKinds ==
  ASSUME IInv, Types, Turns, toClient # <<>>
  PROVE  /\ Head(toClient) = toClient[1] /\ 1 \in DOMAIN toClient
         /\ Head(toClient).kind = "auth" /\ Head(toClient).restore => state = "authenticating"
         /\ ~ (Head(toClient).kind = "auth" /\ Head(toClient).restore) => state = "connected"
<1>1. /\ Head(toClient) = toClient[1] /\ 1 \in DOMAIN toClient
  BY Taken DEF Types, QueueTypes
<1>2. state \in {"connecting", "authenticating", "connected"}
  BY UnderWayNeedsRealtime DEF Realtime
<1>3. QED
  BY <1>1, <1>2 DEF Turns, Fresh, TokenFirst, Restores

LEMMA ClosingShape ==
  ASSUME NEW rs, NEW f, Close(rs, f)
  PROVE  Closing
BY DEF Close, Closing

LEMMA AttemptsShape ==
  ASSUME IInv, Types, Turns, Resuming \/ Interrupting \/ RetryFires
  PROVE  Silent \/ Closing
<1>1. ASSUME NEW r, Interrupt(r) PROVE Silent \/ Closing
  BY <1>1, ClosingShape DEF Interrupt, Silent, IsConnected, CanSend, network, server
<1>2. CASE Drop
  BY <1>2, ClosingShape DEF Drop
<1>3. ASSUME NEW r \in reasons, Resume(r) PROVE Silent
  BY <1>3 DEF Resume, Silent, work, network, server
<1>4. CASE Signal
  BY <1>4 DEF Signal, Silent, work, network, server
<1>5. CASE RetryFires
  <2>1. ~ Realtime
    BY <1>5 DEF RetryFires, IInv, OneAttempt, Realtime
  <2>2. QED
    BY <1>5, <2>1 DEF RetryFires, Silent, IsConnected, CanSend, work, network, server
<1>6. QED
  BY <1>1, <1>2, <1>3, <1>4, <1>5 DEF Resuming, Interrupting, GoOffline, ServerKill

\* A token that changes is sent, or will be when a connection opens.
LEMMA ChangeShape ==
  ASSUME Types, PostTypes, OnTokenChange
  PROVE  Silent \/ \E r : Sending(r)
<1> DEFINE t == Head(posts).token
           r == IF t = NoToken THEN Unauth ELSE Auth(t, FALSE)
<1>1. /\ toServer' = TokenRequests(t) /\ authToken' = t
      /\ UNCHANGED <<state, toClient, session, watched, unacked, puts>>
      /\ UNCHANGED <<issued, listened, putCounter, getCounter>>
  BY DEF OnTokenChange, server, work, asked
<1>2. CASE ~ IsConnected
  BY <1>1, <1>2 DEF Silent, TokenRequests, IsConnected, CanSend
<1>3. CASE IsConnected
  <2>1. t \in 0 .. issued /\ issued \in Nat
    BY NextPost DEF OnTokenChange, Posted, Types, TokenTypes
  <2> HIDE DEF t
  <2>2. r \in Requests'
    BY <1>1, <2>1 DEF Requests, Unauth, Auth, NoToken
  <2>3. r.kind \in {"auth", "unauth"} /\ TokenOf(r) = t /\ (r.kind = "auth" => ~ r.restore)
    BY DEF Unauth, Auth, TokenOf, NoToken
  <2>4. toServer' = Append(toServer, r)
    BY <1>1, <1>3 DEF TokenRequests
  <2>5. unacked \in Int
    BY DEF Types, WorkTypes
  <2> HIDE DEF r
  <2>6. Sending(r)
    BY <1>1, <1>3, <2>2, <2>3, <2>4, <2>5 DEF Sending, TokenKinds
  <2>7. QED
    BY <2>6
<1>4. QED
  BY <1>2, <1>3

LEMMA FetchesShape ==
  ASSUME IInv, Types, PostTypes, Turns, Told \/ OnReady
  PROVE  Silent \/ Starting \/ Restoring \/ \E r : Sending(r)
<1>1. issued \in Nat
  BY DEF Types, TokenTypes
<1>2. CASE OnTokenChange
  BY <1>2, ChangeShape
<1>3. ASSUME NEW f \in fetches, FetchSucceeds(f) PROVE Silent
  BY <1>3 DEF FetchSucceeds, Awaited, Silent, Realtime, IsConnected, CanSend, work, network, server
<1>4. ASSUME NEW f \in fetches, FetchFails(f) PROVE Silent
  <2>1. f.attempt = attempt => ~ Realtime
    BY <1>4 DEF IInv, OneAttempt, Realtime
  <2>2. QED
    BY <1>4, <2>1 DEF FetchFails, Silent, IsConnected, CanSend, work, network, server
<1>5. CASE OnReady
  <2>1. state = "connecting" /\ toServer = <<>>
    BY <1>5 DEF OnReady, Turns, Fresh
  <2>2. UNCHANGED <<toClient, session, watched, puts, authToken>>
    BY <1>5 DEF OnReady, token, server
  <2>3. authToken = NoToken \/ authToken \in 1 .. issued
    BY <1>1 DEF Types, TokenTypes, NoToken
  <2>4. QED
    BY <1>5, <2>1, <2>2, <2>3 DEF OnReady, Starting, Restoring, NoToken
<1>6. QED
  BY <1>2, <1>3, <1>4, <1>5 DEF Told, Fetched

LEMMA AnswersShape ==
  ASSUME IInv, Types, Turns, Answered
  PROVE  Closing \/ Restoring \/ Receiving
<1>1. toClient # <<>> /\ unacked \in Int
  BY DEF Answered, OnAuthAnswer, OnAuthRevoked, OnListenAnswer, OnListenRevoked, OnPutAnswer,
         OnGetAnswer, Answer, Types, WorkTypes
<1>2. /\ Head(toClient) = toClient[1]
      /\ Head(toClient).kind = "auth" /\ Head(toClient).restore => state = "authenticating"
      /\ ~ (Head(toClient).kind = "auth" /\ Head(toClient).restore) => state = "connected"
  BY <1>1, HeadKinds
<1>3. CASE OnAuthAnswer /\ ~ Head(toClient).ok
  BY <1>3, ClosingShape DEF OnAuthAnswer, LoseToken
<1>4. CASE OnAuthAnswer /\ Head(toClient).ok /\ Head(toClient).restore
  BY <1>1, <1>2, <1>4 DEF OnAuthAnswer, Answer, Restoring, server
<1>5. CASE OnAuthAnswer /\ Head(toClient).ok /\ ~ Head(toClient).restore
  <2>1. ~ Bad(toClient, 1) /\ Head(toClient).kind = "auth"
    BY <1>2, <1>5 DEF OnAuthAnswer, Answer, Bad
  <2>2. QED
    BY <1>1, <1>2, <1>5, <2>1 DEF OnAuthAnswer, Receiving, server
<1>6. CASE OnAuthRevoked
  BY <1>6, ClosingShape DEF OnAuthRevoked, LoseToken
<1>7. CASE OnListenAnswer
  BY <1>1, <1>2, <1>7 DEF OnListenAnswer, Answer, Receiving, Bad, token, server
<1>8. CASE OnListenRevoked
  BY <1>1, <1>2, <1>8 DEF OnListenRevoked, Answer, Receiving, Bad, token, server
<1>9. CASE OnPutAnswer
  BY <1>1, <1>2, <1>9 DEF OnPutAnswer, Answer, Receiving, Bad, token, server
<1>10. CASE OnGetAnswer
  BY <1>1, <1>2, <1>10 DEF OnGetAnswer, Answer, Receiving, Bad, token, server
<1>11. QED
  BY <1>3, <1>4, <1>5, <1>6, <1>7, <1>8, <1>9, <1>10 DEF Answered

LEMMA TokensShape ==
  ASSUME Types, Answering \/ Failing \/ FIRAuth
  PROVE  Silent \/ \E a : Telling(a)
<1>1. CASE Answering \/ Failing \/ NewToken \/ SignOut
  BY <1>1, AuthIsAside DEF clients, Silent, token, work, network, server
<1>2. ASSUME NEW t \in 1 .. issued, Expire(t) PROVE Silent \/ Telling(AuthRevoked)
  <2>1. UNCHANGED <<state, toServer, watched, unacked, puts, authToken>>
    BY <1>2 DEF Expire, token, work
  <2>2. CASE session = t
    BY <1>2, <2>1, <2>2 DEF Expire, Telling, AuthRevoked, Answers
  <2>3. CASE session # t
    BY <1>2, <2>1, <2>3 DEF Expire, Silent
  <2>4. QED
    BY <2>2, <2>3
<1>3. QED
  BY <1>1, <1>2 DEF FIRAuth

LEMMA AskingShape ==
  ASSUME IInv, Types, Turns, Asking \/ Timer
  PROVE  Silent \/ \E r : Sending(r)
<1>1. UNCHANGED <<state, toClient, session, watched, authToken>> /\ unacked \in Int
  BY DEF Asking, Put, Get, Listen, Unlisten, Timer, GetTimesOut, token, network, server, Types,
         WorkTypes
<1>2. putCounter \in Nat /\ getCounter \in Nat
  BY ConnectionAssumption DEF Types, WorkTypes
<1>3. ASSUME NEW r \in Requests', r.kind \notin TokenKinds, IsConnected,
             r.kind \in {"put", "get"} => CanSend,
             toServer' = Append(toServer, r),
             unacked' = unacked + (IF r.kind = "listen" THEN 1 ELSE 0),
             puts' = IF r.kind = "put" THEN puts \cup {putCounter + 1} ELSE puts,
             r.kind = "put" => r.index = putCounter + 1,
             r.kind = "listen" => r.query \in listens',
             r.kind = "unlisten" => Spend("unlisten")
      PROVE  Sending(r)
  BY <1>1, <1>3 DEF Sending, TokenKinds
<1>4. CASE Put
  <2>1. putCounter' = putCounter + 1 /\ puts' = puts \cup {putCounter + 1} /\ unacked' = unacked
    BY <1>4 DEF Put
  <2>2. CASE ~ CanSend
    BY <1>1, <1>4, <2>1, <2>2 DEF Put, Silent, CanSend
  <2>3. CASE CanSend
    <3> DEFINE r == SendPut(putCounter + 1)
    <3>1. r \in Requests' /\ r.kind = "put" /\ r.index = putCounter + 1
      BY <1>2, <2>1 DEF Requests, SendPut
    <3>2. toServer' = Append(toServer, r)
      BY <1>4, <2>1, <2>3 DEF Put
    <3> HIDE DEF r
    <3>3. Sending(r)
      BY <1>1, <1>3, <2>1, <2>3, <3>1, <3>2 DEF CanSend, IsConnected, TokenKinds
    <3>4. QED
      BY <3>3
  <2>4. QED
    BY <2>2, <2>3
<1>5. CASE Get
  <2>1. getCounter' = getCounter + 1 /\ puts' = puts /\ unacked' = unacked
    BY <1>5 DEF Get
  <2>2. CASE ~ CanSend
    BY <1>1, <1>5, <2>1, <2>2 DEF Get, Silent
  <2>3. CASE CanSend
    <3> DEFINE r == SendGet(getCounter + 1)
    <3>1. r \in Requests' /\ r.kind = "get"
      BY <1>2, <2>1 DEF Requests, SendGet
    <3>2. toServer' = Append(toServer, r)
      BY <1>5, <2>1, <2>3 DEF Get
    <3> HIDE DEF r
    <3>3. Sending(r)
      BY <1>1, <1>3, <2>1, <2>3, <3>1, <3>2 DEF CanSend, IsConnected, TokenKinds
    <3>4. QED
      BY <3>3
  <2>4. QED
    BY <2>2, <2>3
<1>6. ASSUME NEW q \in Queries, Listen(q) PROVE Silent \/ \E r : Sending(r)
  <2>1. listened' = listened \cup {q} /\ puts' = puts
    BY <1>6 DEF Listen
  <2>2. CASE ~ IsConnected
    BY <1>1, <1>6, <2>1, <2>2 DEF Listen, Silent
  <2>3. CASE IsConnected
    <3> DEFINE r == SendListen(q)
    <3>1. r \in Requests' /\ r.kind = "listen" /\ r.query \in listens'
      BY <1>6, <2>1 DEF Requests, SendListen, Listen
    <3>2. toServer' = Append(toServer, r) /\ unacked' = unacked + 1
      BY <1>6, <2>3 DEF Listen
    <3> HIDE DEF r
    <3>3. Sending(r)
      BY <1>1, <1>3, <2>1, <2>3, <3>1, <3>2 DEF TokenKinds
    <3>4. QED
      BY <3>3
  <2>4. QED
    BY <2>2, <2>3
<1>7. ASSUME NEW q \in Queries, Unlisten(q) PROVE Silent \/ \E r : Sending(r)
  <2>1. listened' = listened /\ puts' = puts /\ unacked' = unacked /\ q \in listened
    BY <1>7 DEF Unlisten, asked, Types, WorkTypes
  <2>2. CASE ~ IsConnected
    BY <1>1, <1>7, <2>1, <2>2 DEF Unlisten, Silent
  <2>3. CASE IsConnected
    <3> DEFINE r == SendUnlisten(q)
    <3>1. r \in Requests' /\ r.kind = "unlisten" /\ Spend("unlisten")
      BY <1>7, <2>1 DEF Requests, SendUnlisten, Unlisten
    <3>2. toServer' = Append(toServer, r)
      BY <1>7, <2>3 DEF Unlisten
    <3> HIDE DEF r
    <3>3. Sending(r)
      BY <1>1, <1>3, <2>1, <2>3, <3>1, <3>2 DEF TokenKinds
    <3>4. QED
      BY <3>3
  <2>4. QED
    BY <2>2, <2>3
<1>8. ASSUME NEW i \in timedGets, GetTimesOut(i) PROVE Silent
  BY <1>8 DEF GetTimesOut, Silent, token, network, server
<1>9. QED
  BY <1>4, <1>5, <1>6, <1>7, <1>8 DEF Asking, Timer

LEMMA ServingShape ==
  ASSUME IInv, Types, Turns, Serve \/ Revoking
  PROVE  Serving \/ \E a : Telling(a)
<1>1. UNCHANGED <<state, unacked, puts, authToken>>
  BY DEF Serve, ServerAuth, ServerUnauth, ServerListen, ServerUnlisten, ServerPut, ServerGet,
         Revoking, RevokeListen, token, work
<1>2. 0 \notin expired
  BY DEF Types, TokenTypes
<1>3. CASE ServerAuth
  BY <1>1, <1>3 DEF ServerAuth, Request, Serving, AnswerTo, TokenKinds, TokenOf
<1>4. CASE ServerUnauth
  BY <1>1, <1>2, <1>4 DEF ServerUnauth, Request, Serving, TokenKinds, TokenOf, NoToken
<1>5. CASE ServerListen
  BY <1>1, <1>5 DEF ServerListen, Request, Serving, AnswerTo, TokenKinds
<1>6. CASE ServerUnlisten
  BY <1>1, <1>6 DEF ServerUnlisten, Request, Serving, TokenKinds
<1>7. CASE ServerPut
  BY <1>1, <1>7 DEF ServerPut, Request, Serving, AnswerTo, TokenKinds, server
<1>8. CASE ServerGet
  BY <1>1, <1>8 DEF ServerGet, Request, Serving, AnswerTo, TokenKinds, server
<1>9. ASSUME NEW q \in watched, RevokeListen(q) PROVE Telling(ListenRevoked(q))
  <2>1. ListenRevoked(q) \in Answers /\ ListenRevoked(q).kind = "listenRevoked"
    BY DEF ListenRevoked, Answers, Types, WorkTypes
  <2>2. /\ toClient' = Append(toClient, ListenRevoked(q)) /\ UNCHANGED <<toServer, session>>
        /\ Spend("revoke")
    BY <1>9 DEF RevokeListen
  <2>3. QED
    BY <1>1, <2>1, <2>2 DEF Telling
<1>10. QED
  BY <1>3, <1>4, <1>5, <1>6, <1>7, <1>8, <1>9 DEF Serve, Revoking

LEMMA Shapes ==
  ASSUME IInv, Types, PostTypes, Turns, [Next]_vars
  PROVE  Silent \/ Closing \/ (\E r : Sending(r)) \/ Starting \/ Restoring \/ Receiving
           \/ Serving \/ \E a : Telling(a)
<1>1. CASE UNCHANGED vars
  BY <1>1 DEF vars, token, work, network, server, Silent
<1>2. CASE Next
  BY <1>2, AttemptsShape, FetchesShape, AnswersShape, TokensShape, AskingShape, ServingShape DEF Next
<1>3. QED
  BY <1>1, <1>2

-----------------------------------------------------------------------------
(* The turns are kept.                                                     *)

LEMMA TurnsInit == Init => Turns
<1> SUFFICES ASSUME Init PROVE Turns
  OBVIOUS
<1>1. state = "disconnected" /\ toServer = <<>> /\ toClient = <<>>
  BY DEF Init
<1>2. QED
  BY <1>1, NoPlaces DEF Turns, Fresh, TokenFirst, WorkLast

\* Nothing under way.
LEMMA EmptyTurns ==
  ASSUME toServer' = <<>>, toClient' = <<>>, state' \notin {"connecting", "authenticating"}
  PROVE  Turns'
BY NoPlaces DEF Turns, Fresh, TokenFirst, WorkLast

\* Where no message may be about the token that opens the connection.
LEMMA ConnectedTurns ==
  ASSUME state' = "connected",
         \A n \in DOMAIN toServer' : ~ Restores(toServer', n),
         \A n \in DOMAIN toClient' : ~ Restores(toClient', n)
  PROVE  Turns'
BY DEF Turns, Fresh, TokenFirst, WorkLast, CanSend

LEMMA TurnsSending ==
  ASSUME IInv, Types, Turns, Grows, NEW r, Sending(r)
  PROVE  Turns'
<1>1. /\ toServer \in Seq(Requests') /\ r \in Requests' /\ IsConnected
      /\ toServer' = Append(toServer, r)
      /\ UNCHANGED <<state, toClient, session, watched>>
  BY Growing DEF Sending
<1>2. /\ Len(toServer) \in Nat /\ DOMAIN toServer = 1 .. Len(toServer)
      /\ DOMAIN toServer' = 1 .. Len(toServer) + 1 /\ toServer' # <<>>
      /\ \A n \in 1 .. Len(toServer) : toServer'[n] = toServer[n]
      /\ toServer'[Len(toServer) + 1] = r
  BY <1>1, Appended
<1>3. \A n \in DOMAIN toServer' : Restores(toServer', n) => n \in DOMAIN toServer /\ Restores(toServer, n)
  <2> SUFFICES ASSUME NEW n \in DOMAIN toServer', Restores(toServer', n)
               PROVE  n \in DOMAIN toServer /\ Restores(toServer, n)
    OBVIOUS
  <2>1. n # Len(toServer) + 1
    BY <1>2 DEF Sending, Restores
  <2>2. n \in 1 .. Len(toServer)
    BY <1>2, <2>1
  <2>3. QED
    BY <1>2, <2>2 DEF Restores
<1>4. toServer # <<>> => 1 \in DOMAIN toServer /\ toServer'[1] = toServer[1]
  <2> SUFFICES ASSUME toServer # <<>> PROVE 1 \in DOMAIN toServer /\ toServer'[1] = toServer[1]
    OBVIOUS
  <2>1. 1 \in 1 .. Len(toServer)
    BY <1>1, Taken
  <2>2. QED
    BY <1>2, <2>1
<1>5. Fresh'
  BY <1>1 DEF Fresh, IsConnected
<1>6. TokenFirst'
  BY <1>1, <1>2, <1>3, <1>4 DEF Turns, TokenFirst, Restores
<1>7. WorkLast'
  <2>1. Has(toServer', {"put", "get"}) <=> Has(toServer, {"put", "get"}) \/ r.kind \in {"put", "get"}
    BY <1>1, AppendedPlaces
  <2>2. QED
    BY <1>1, <2>1 DEF Turns, WorkLast, Sending, CanSend
<1>8. QED
  BY <1>5, <1>6, <1>7 DEF Turns

LEMMA TurnsStarting ==
  ASSUME IInv, Types, Turns, Starting
  PROVE  Turns'
<1> DEFINE r == Auth(authToken, TRUE)
<1>1. /\ toServer' = <<r>> /\ toClient' = <<>> /\ state' = "authenticating"
      /\ session' = NoToken /\ watched' = {}
  BY DEF Starting, Turns, Fresh
<1>2. r.kind = "auth" /\ r.restore
  BY DEF Auth
<1> HIDE DEF r
<1>3. /\ toServer' # <<>> /\ DOMAIN toServer' = {1} /\ toServer'[1] = r
  <2>1. <<r>> # <<>> /\ DOMAIN <<r>> = {1} /\ <<r>>[1] = r
    BY Single
  <2>2. QED
    BY <1>1, <2>1
<1>4. ~ Has(toServer', {"put", "get"})
  BY <1>2, <1>3 DEF Has
<1>5. QED
  BY <1>1, <1>2, <1>3, <1>4, NoPlaces DEF Turns, Fresh, TokenFirst, WorkLast, Restores

LEMMA RestoringFacts ==
  ASSUME IInv, Types, Turns, Restoring, UNCHANGED <<issued, listened, putCounter, getCounter>>
  PROVE  /\ \E sent \in Seq(Requests) :
              /\ toServer' = toServer \o sent
              /\ Count(sent, "listen") = Cardinality(listens) /\ Cardinality(listens) \in Nat
              /\ Indexes(sent) = puts /\ Rising(sent)
              /\ \A n \in DOMAIN sent : sent[n].kind \in {"listen", "put", "get"}
         /\ unacked' = unacked + Cardinality(listens)
         /\ \A n \in DOMAIN toServer : ~ Restores(toServer, n)
         /\ toClient' \in Seq(Answers)
         /\ \A n \in DOMAIN toClient' : ~ Restores(toClient', n)
<1>1. /\ toServer \in Seq(Requests) /\ toClient \in Seq(Answers)
      /\ IsFiniteSet(listens) /\ listens \subseteq listened
      /\ putCounter \in Nat /\ puts \subseteq 1 .. putCounter
      /\ getCounter \in Nat /\ gets \subseteq 1 .. getCounter
  <2>1. IsFiniteSet(listens)
    BY FS_Subset DEF Types, WorkTypes
  <2>2. putCounter \in Nat /\ getCounter \in Nat
    BY ConnectionAssumption DEF Types, WorkTypes
  <2>3. QED
    BY <2>1, <2>2 DEF Types, WorkTypes, QueueTypes
<1>2. RestoreState(toServer)
  BY DEF Restoring
<1>3. CASE state = "connecting"
  <2>1. toServer = <<>> /\ toClient' = <<>> /\ toClient = <<>>
    BY <1>3 DEF Turns, Fresh, Restoring
  <2>2. QED
    BY <1>1, <1>2, <2>1, Restored, NoPlaces DEF RestoreState
<1>4. CASE state = "authenticating" /\ toClient # <<>> /\ toClient' = Tail(toClient)
  <2>1. \A n \in DOMAIN toServer : ~ Restores(toServer, n)
    BY <1>4 DEF Turns, TokenFirst
  <2>2. /\ toClient' \in Seq(Answers) /\ Len(toClient) \in Nat \ {0}
        /\ DOMAIN toClient = 1 .. Len(toClient) /\ DOMAIN toClient' = 1 .. Len(toClient) - 1
        /\ \A n \in 1 .. Len(toClient) - 1 : toClient'[n] = toClient[n + 1]
    BY <1>1, <1>4, Taken
  <2>3. \A n \in DOMAIN toClient' : n + 1 \in DOMAIN toClient /\ n + 1 # 1
    BY <2>2
  <2>4. \A n \in DOMAIN toClient' : ~ Restores(toClient', n)
    BY <2>2, <2>3 DEF Turns, TokenFirst, Restores
  <2>5. QED
    BY <1>1, <1>2, <2>1, <2>2, <2>4, Restored DEF RestoreState
<1>5. QED
  BY <1>3, <1>4 DEF Restoring

LEMMA TurnsRestoring ==
  ASSUME IInv, Types, Turns, Restoring, UNCHANGED <<issued, listened, putCounter, getCounter>>
  PROVE  Turns'
<1>1. PICK sent \in Seq(Requests) :
        /\ toServer' = toServer \o sent
        /\ \A n \in DOMAIN sent : sent[n].kind \in {"listen", "put", "get"}
  BY RestoringFacts
<1>2. /\ \A n \in DOMAIN toServer : ~ Restores(toServer, n)
      /\ \A n \in DOMAIN toClient' : ~ Restores(toClient', n)
  BY RestoringFacts
<1>3. /\ DOMAIN toServer = 1 .. Len(toServer) /\ DOMAIN sent = 1 .. Len(sent)
      /\ \A n \in 1 .. Len(toServer) : toServer'[n] = toServer[n]
      /\ \A n \in 1 .. Len(sent) : toServer'[Len(toServer) + n] = sent[n]
      /\ \A n \in DOMAIN toServer' :
           n \in 1 .. Len(toServer)
             \/ (n - Len(toServer) \in 1 .. Len(sent) /\ Len(toServer) + (n - Len(toServer)) = n)
  BY <1>1, Joined DEF Types, QueueTypes
<1>4. ASSUME NEW n \in DOMAIN toServer' PROVE ~ Restores(toServer', n)
  <2>1. CASE n \in 1 .. Len(toServer)
    BY <1>2, <1>3, <2>1 DEF Restores
  <2>2. CASE n - Len(toServer) \in 1 .. Len(sent) /\ Len(toServer) + (n - Len(toServer)) = n
    <3>1. toServer'[n] = sent[n - Len(toServer)] /\ n - Len(toServer) \in DOMAIN sent
      BY <1>3, <2>2
    <3>2. QED
      BY <1>1, <3>1 DEF Restores
  <2>3. QED
    BY <1>3, <2>1, <2>2
<1>5. QED
  BY <1>2, <1>4, ConnectedTurns DEF Restoring

LEMMA TurnsReceiving ==
  ASSUME IInv, Types, Turns, Receiving
  PROVE  Turns'
<1>1. /\ state = "connected" /\ state' = "connected" /\ toServer' = toServer
      /\ toClient # <<>> /\ toClient' = Tail(toClient)
  BY DEF Receiving
<1>2. /\ \A n \in DOMAIN toServer : ~ Restores(toServer, n)
      /\ \A n \in DOMAIN toClient : ~ Restores(toClient, n)
  BY <1>1 DEF Turns, TokenFirst
<1>3. /\ Len(toClient) \in Nat \ {0}
      /\ DOMAIN toClient = 1 .. Len(toClient) /\ DOMAIN toClient' = 1 .. Len(toClient) - 1
      /\ \A n \in 1 .. Len(toClient) - 1 : toClient'[n] = toClient[n + 1]
  BY <1>1, Taken DEF Types, QueueTypes
<1>4. \A n \in DOMAIN toClient' : n + 1 \in DOMAIN toClient
  BY <1>3
<1>5. \A n \in DOMAIN toClient' : ~ Restores(toClient', n)
  BY <1>2, <1>3, <1>4 DEF Restores
<1>6. QED
  BY <1>1, <1>2, <1>5, ConnectedTurns

\* The queue to the client grows by an answer or a push.
LEMMA TurnsToClient ==
  ASSUME IInv, Types, Turns, NEW a \in Answers, toClient' = Append(toClient, a)
  PROVE  /\ toClient' # <<>>
         /\ toClient # <<>> => toClient'[1] = toClient[1]
         /\ toClient = <<>> => toClient'[1] = a /\ DOMAIN toClient' = {1}
         /\ \A n \in DOMAIN toClient' : Restores(toClient', n) =>
              (n \in DOMAIN toClient /\ Restores(toClient, n)) \/ (a.kind = "auth" /\ a.restore)
         /\ \A kinds : Has(toClient', kinds) <=> Has(toClient, kinds) \/ a.kind \in kinds
<1>1. /\ toClient \in Seq(Answers)
      /\ Len(toClient) \in Nat /\ DOMAIN toClient = 1 .. Len(toClient)
      /\ DOMAIN toClient' = 1 .. Len(toClient) + 1 /\ toClient' # <<>>
      /\ \A n \in 1 .. Len(toClient) : toClient'[n] = toClient[n]
      /\ toClient'[Len(toClient) + 1] = a
  BY Appended DEF Types, QueueTypes
<1>2. \A n \in 1 .. Len(toClient) + 1 : n \in 1 .. Len(toClient) \/ n = Len(toClient) + 1
  BY <1>1
<1>3. toClient # <<>> => 1 \in 1 .. Len(toClient)
  <2>1. toClient # <<>> => Len(toClient) \in Nat \ {0}
    BY <1>1, Taken
  <2>2. QED
    BY <2>1
<1>4. toClient = <<>> => Len(toClient) = 0
  BY NoPlaces
<1>5. toClient = <<>> => toClient'[1] = a /\ DOMAIN toClient' = {1}
  BY <1>1, <1>4
<1>6. \A n \in DOMAIN toClient' : Restores(toClient', n) =>
        (n \in DOMAIN toClient /\ Restores(toClient, n)) \/ (a.kind = "auth" /\ a.restore)
  BY <1>1, <1>2 DEF Restores
<1>7. \A kinds : Has(toClient', kinds) <=> Has(toClient, kinds) \/ a.kind \in kinds
  BY <1>1, AppendedPlaces
<1>8. QED
  BY <1>1, <1>3, <1>5, <1>6, <1>7

LEMMA TurnsTelling ==
  ASSUME IInv, Types, Turns, NEW a, Telling(a)
  PROVE  Turns'
<1>1. /\ a \in Answers /\ a.kind \in {"authRevoked", "listenRevoked"}
      /\ toClient' = Append(toClient, a) /\ UNCHANGED <<state, toServer>>
  BY DEF Telling
<1>2. session # NoToken \/ watched # {}
  BY DEF Telling, NoToken
<1>3. /\ state # "connecting"
      /\ state = "authenticating" => toClient # <<>> /\ Restores(toClient, 1)
      /\ \A n \in DOMAIN toServer : ~ Restores(toServer, n)
  BY <1>2 DEF Turns, Fresh, TokenFirst
<1>4. /\ toClient' # <<>> /\ (toClient # <<>> => toClient'[1] = toClient[1])
      /\ \A n \in DOMAIN toClient' : Restores(toClient', n) => n \in DOMAIN toClient /\ Restores(toClient, n)
      /\ Has(toClient', {"put", "get"}) <=> Has(toClient, {"put", "get"})
  BY <1>1, TurnsToClient
<1>5. QED
  BY <1>1, <1>3, <1>4 DEF Turns, Fresh, TokenFirst, WorkLast, Restores, CanSend

LEMMA AnswersAreAnswers ==
  ASSUME Types, NEW r \in Requests, r.kind \notin {"unauth", "unlisten"}
  PROVE  /\ AnswerTo(r) \in Answers /\ AnswerTo(r).kind = r.kind
         /\ r.kind = "auth" => /\ AnswerTo(r).restore = r.restore
                               /\ AnswerTo(r).ok = (r.token \notin expired)
         /\ r.kind = "put" => AnswerTo(r).index = r.index
         /\ r.kind = "listen" => AnswerTo(r).ok = (session # NoToken)
<1>1. r.kind \in {"auth", "listen", "put", "get"}
  BY DEF Requests
<1>2. CASE r.kind = "auth"
  BY <1>2, Kinds DEF AnswerTo, AuthAnswer, Answers, Types
<1>3. CASE r.kind = "listen"
  BY <1>3, Kinds DEF AnswerTo, ListenAnswer, Answers, Types
<1>4. CASE r.kind = "put"
  BY <1>4, Kinds DEF AnswerTo, PutAnswer, Answers, Types
<1>5. CASE r.kind = "get"
  BY <1>5, Kinds DEF AnswerTo, GetAnswer, Answers, Types
<1>6. QED
  BY <1>1, <1>2, <1>3, <1>4, <1>5

LEMMA TurnsServing ==
  ASSUME IInv, Types, Turns, Serving
  PROVE  Turns'
<1> DEFINE r == Head(toServer)
<1>1. /\ toServer # <<>> /\ toServer' = Tail(toServer) /\ state' = state
      /\ r \in Requests /\ r = toServer[1] /\ 1 \in DOMAIN toServer
      /\ Len(toServer) \in Nat \ {0}
      /\ DOMAIN toServer = 1 .. Len(toServer) /\ DOMAIN toServer' = 1 .. Len(toServer) - 1
      /\ \A n \in 1 .. Len(toServer) - 1 : toServer'[n] = toServer[n + 1]
  BY Taken DEF Serving, Types, QueueTypes
<1>2. \A n \in DOMAIN toServer' : n + 1 \in DOMAIN toServer /\ n + 1 # 1
  BY <1>1
<1>3. \A n \in DOMAIN toServer' : ~ Restores(toServer', n)
  BY <1>1, <1>2 DEF Turns, TokenFirst, Restores
<1>4. \A kinds : Has(toServer, kinds) <=> Has(toServer', kinds) \/ r.kind \in kinds
  BY <1>1, TakenPlaces DEF Types, QueueTypes
<1>5. state # "connecting"
  BY <1>1 DEF Turns, Fresh
<1>6. ~ CanSend => r.kind \notin {"put", "get"} /\ ~ Has(toServer', {"put", "get"})
  BY <1>4 DEF Turns, WorkLast
<1>7. CASE r.kind \in {"unauth", "unlisten"}
  <2>1. toClient' = toClient /\ ~ Restores(toServer, 1)
    BY <1>1, <1>7 DEF Serving, Restores
  <2>2. QED
    BY <1>1, <1>3, <1>5, <1>6, <2>1 DEF Turns, Fresh, TokenFirst, WorkLast, Restores, CanSend
<1>8. CASE r.kind \notin {"unauth", "unlisten"}
  <2> DEFINE a == AnswerTo(r)
  <2>1. /\ a \in Answers /\ a.kind = r.kind /\ (a.kind = "auth" => a.restore = r.restore)
        /\ toClient' = Append(toClient, a)
    BY <1>1, <1>8, AnswersAreAnswers DEF Serving
  <2> HIDE DEF a
  <2>2. /\ toClient' # <<>>
        /\ toClient # <<>> => toClient'[1] = toClient[1]
        /\ toClient = <<>> => toClient'[1] = a /\ DOMAIN toClient' = {1}
        /\ \A n \in DOMAIN toClient' : Restores(toClient', n) =>
             (n \in DOMAIN toClient /\ Restores(toClient, n)) \/ (a.kind = "auth" /\ a.restore)
        /\ Has(toClient', {"put", "get"}) <=> Has(toClient, {"put", "get"}) \/ a.kind \in {"put", "get"}
    BY <2>1, TurnsToClient
  <2>3. Restores(toServer, 1) <=> a.kind = "auth" /\ a.restore
    BY <1>1, <2>1 DEF Restores
  <2>4. WorkLast' /\ Fresh'
    BY <1>1, <1>5, <1>6, <2>1, <2>2 DEF Turns, WorkLast, Fresh, CanSend
  <2>5. CASE Restores(toServer, 1)
    <3>1. toClient = <<>> /\ state = "authenticating"
      BY <1>1, <2>5 DEF Turns, TokenFirst
    <3>2. TokenFirst'
      BY <1>1, <1>3, <2>2, <2>3, <2>5, <3>1 DEF TokenFirst, Restores
    <3>3. QED
      BY <2>4, <3>2 DEF Turns
  <2>6. CASE ~ Restores(toServer, 1)
    <3>1. state = "authenticating" => toClient # <<>> /\ Restores(toClient, 1)
      BY <2>6 DEF Turns, TokenFirst
    <3>2. TokenFirst'
      BY <1>1, <1>3, <2>2, <2>3, <2>6, <3>1 DEF Turns, TokenFirst, Restores
    <3>3. QED
      BY <2>4, <3>2 DEF Turns
  <2>7. QED
    BY <2>5, <2>6
<1>9. QED
  BY <1>7, <1>8

\* How far a step may change what has been asked for.
LEMMA StepsGrow ==
  ASSUME Types, [Next]_vars
  PROVE  /\ Grows
         /\ Restoring => UNCHANGED <<issued, listened, putCounter, getCounter>>
<1>1. issued \in Nat /\ putCounter \in Nat /\ getCounter \in Nat
  BY ConnectionAssumption DEF Types, TokenTypes, WorkTypes
<1>2. ASSUME UNCHANGED <<issued, listened, putCounter, getCounter>> PROVE Grows
  BY <1>1, <1>2 DEF Grows
<1>3. CASE UNCHANGED vars
  BY <1>2, <1>3 DEF vars, auth, asked
<1>4. CASE Resuming \/ Interrupting \/ RetryFires \/ Told \/ OnReady \/ Answered
  <2>1. UNCHANGED <<issued, listened, putCounter, getCounter>>
    BY <1>4 DEF Resuming, Resume, Interrupting, GoOffline, ServerKill, Interrupt, Drop, Signal,
                RetryFires, Told, Fetched, FetchSucceeds, FetchFails, OnTokenChange, OnReady,
                Answered, OnAuthAnswer, OnAuthRevoked, OnListenAnswer, OnListenRevoked,
                OnPutAnswer, OnGetAnswer, auth, asked
  <2>2. QED
    BY <1>2, <2>1
<1>5. CASE Serve \/ Revoking \/ Timer
  <2>1. UNCHANGED <<issued, listened, putCounter, getCounter>>
    BY <1>5 DEF Serve, ServerAuth, ServerUnauth, ServerListen, ServerUnlisten, ServerPut, ServerGet,
                Revoking, RevokeListen, Timer, GetTimesOut, auth, asked
  <2>2. QED
    BY <1>2, <2>1
<1>6. CASE Answering \/ Failing \/ FIRAuth
  <2>1. UNCHANGED <<state, listened, putCounter, getCounter>>
    BY <1>6, AuthIsAside DEF FIRAuth, Expire, clients, asked
  <2>2. issued' \in {issued, issued + 1}
    BY <1>6 DEF Answering, Refresh, AnswerFetch, Failing, FailFetch, FIRAuth, NewToken, SignOut,
                Expire
  <2>3. Grows
    BY <1>1, <2>1, <2>2 DEF Grows
  <2>4. ~ Restoring
    <3>1. CASE state = "connecting"
      BY <2>1, <3>1 DEF Restoring
    <3>2. CASE state # "connecting"
      BY <2>1, <3>2 DEF Restoring
    <3>3. QED
      BY <3>1, <3>2
  <2>5. QED
    BY <2>1, <2>3, <2>4
<1>7. CASE Asking
  <2>1. Grows
    BY <1>1, <1>7 DEF Asking, Put, Get, Listen, Unlisten, Grows, auth, asked
  <2>2. ~ Restoring
    BY <1>7 DEF Asking, Put, Get, Listen, Unlisten, Restoring
  <2>3. QED
    BY <2>1, <2>2
<1>8. QED
  BY <1>3, <1>4, <1>5, <1>6, <1>7 DEF Next

LEMMA TurnsNext ==
  ASSUME IInv, Types, PostTypes, Turns, [Next]_vars
  PROVE  Turns'
<1>1. CASE Silent
  <2>1. CASE state' = state
    BY <1>1, <2>1 DEF Silent, Turns, Fresh, TokenFirst, WorkLast, Restores, CanSend
  <2>2. CASE ~ Realtime /\ ~ IsConnected'
    <3>1. toServer' = <<>> /\ toClient' = <<>> /\ session' = NoToken /\ watched' = {}
      BY <1>1, <2>2 DEF Silent, IInv, NothingOutlives
    <3>2. state' # "authenticating"
      BY <2>2 DEF IsConnected
    <3>3. QED
      BY <3>1, <3>2, NoPlaces DEF Turns, Fresh, TokenFirst, WorkLast
  <2>3. QED
    BY <1>1, <2>1, <2>2 DEF Silent
<1>2. CASE Closing
  BY <1>2, EmptyTurns DEF Closing
<1>3. QED
  BY <1>1, <1>2, Shapes, StepsGrow, TurnsSending, TurnsStarting, TurnsRestoring, TurnsReceiving,
     TurnsServing, TurnsTelling

-----------------------------------------------------------------------------
(* The count of unanswered listens, and the puts.                          *)

\* The puts under way, on the way back before those on the way there, are exactly
\* the outstanding ones once they can be sent.
PutsInOrder ==
  /\ Rising(toClient) /\ Rising(toServer)
  /\ \A i \in Indexes(toClient), j \in Indexes(toServer) : i < j
  /\ CanSend => puts = Indexes(toClient) \cup Indexes(toServer)

LEMMA SingleAuth ==
  ASSUME NEW r, r.kind = "auth"
  PROVE  /\ Count(<<r>>, "listen") = 0 /\ Indexes(<<r>>) = {} /\ Rising(<<r>>)
<1>1. DOMAIN <<r>> = {1} /\ <<r>>[1] = r
  BY Single
<1>2. At(<<r>>, "listen") = {} /\ ~ Has(<<r>>, {"put"})
  BY <1>1 DEF At, Has
<1>3. QED
  BY <1>2, NoPuts, FS_EmptySet DEF Count

LEMMA CountInit == Init => CountIsExact /\ PutsInOrder
<1> SUFFICES ASSUME Init PROVE CountIsExact /\ PutsInOrder
  OBVIOUS
<1>1. toServer = <<>> /\ toClient = <<>> /\ unacked = 0 /\ ~ CanSend
  BY DEF Init, CanSend
<1>2. Count(<<>>, "listen") = 0 /\ Indexes(<<>>) = {} /\ Rising(<<>>)
  BY NoPlaces
<1>3. QED
  BY <1>1, <1>2 DEF CountIsExact, Count, PutsInOrder

LEMMA QueueFacts ==
  ASSUME Types
  PROVE  /\ toServer \in Seq(Requests) /\ toClient \in Seq(Answers) /\ unacked \in Int
         /\ Count(toServer, "listen") \in Nat /\ Count(toClient, "listen") \in Nat
         /\ Indexes(toServer) \subseteq 1 .. putCounter /\ Indexes(toClient) \subseteq 1 .. putCounter
         /\ putCounter \in Nat
<1>1. toServer \in Seq(Requests) /\ toClient \in Seq(Answers) /\ unacked \in Int
  BY DEF Types, WorkTypes, QueueTypes
<1>2. Count(toServer, "listen") \in Nat /\ Count(toClient, "listen") \in Nat
  BY <1>1, Places
<1>3. \A n \in At(toServer, "put") : toServer[n].index \in 1 .. putCounter
  <2>1. \A n \in DOMAIN toServer : toServer[n] \in Requests
    BY <1>1, Places
  <2>2. QED
    BY <2>1, Kinds DEF At, Types
<1>4. \A n \in At(toClient, "put") : toClient[n].index \in 1 .. putCounter
  <2>1. \A n \in DOMAIN toClient : toClient[n] \in Answers
    BY <1>1, Places
  <2>2. QED
    BY <2>1, Kinds DEF At, Types
<1>5. Indexes(toServer) \subseteq 1 .. putCounter /\ Indexes(toClient) \subseteq 1 .. putCounter
  BY <1>3, <1>4 DEF Indexes
<1>6. putCounter \in Nat
  BY ConnectionAssumption DEF Types, WorkTypes
<1>7. QED
  BY <1>1, <1>2, <1>5, <1>6

LEMMA CountSending ==
  ASSUME Types, CountIsExact, PutsInOrder, Grows, NEW r, Sending(r)
  PROVE  CountIsExact' /\ PutsInOrder'
<1>1. /\ toServer \in Seq(Requests') /\ r \in Requests' /\ IsConnected
      /\ toServer' = Append(toServer, r) /\ toClient' = toClient /\ state' = state
  BY Growing DEF Sending
<1>2. /\ Count(toServer', "listen") = Count(toServer, "listen") + (IF r.kind = "listen" THEN 1 ELSE 0)
      /\ Indexes(toServer') = Indexes(toServer) \cup (IF r.kind = "put" THEN {r.index} ELSE {})
      /\ Rising(toServer) /\ (r.kind = "put" => \A i \in Indexes(toServer) : i < r.index)
           => Rising(toServer')
  BY <1>1, AppendedPlaces
<1>3. CountIsExact'
  <2>1. unacked' = unacked + (IF r.kind = "listen" THEN 1 ELSE 0)
    BY DEF Sending
  <2>2. unacked = Count(toServer, "listen") + Count(toClient, "listen")
    BY DEF CountIsExact, Count
  <2>3. unacked' = Count(toServer', "listen") + Count(toClient', "listen")
    BY <1>1, <1>2, <2>1, <2>2, QueueFacts
  <2>4. QED
    BY <2>3 DEF CountIsExact, Count
<1>4. PutsInOrder'
  <2>1. CASE r.kind = "put"
    <3>1. r.index = putCounter + 1 /\ puts' = puts \cup {r.index} /\ CanSend
      BY <2>1 DEF Sending
    <3>2. \A i \in Indexes(toServer) \cup Indexes(toClient) : i < r.index
      BY <3>1, QueueFacts
    <3>3. Rising(toServer') /\ Indexes(toServer') = Indexes(toServer) \cup {r.index}
      BY <1>2, <2>1, <3>2 DEF PutsInOrder
    <3>4. QED
      BY <1>1, <3>1, <3>2, <3>3 DEF PutsInOrder
  <2>2. CASE r.kind # "put"
    BY <1>1, <1>2, <2>2 DEF PutsInOrder, Sending, CanSend
  <2>3. QED
    BY <2>1, <2>2
<1>5. QED
  BY <1>3, <1>4

LEMMA CountStarting ==
  ASSUME Types, Turns, CountIsExact, PutsInOrder, Starting
  PROVE  CountIsExact' /\ PutsInOrder'
<1> DEFINE r == Auth(authToken, TRUE)
<1>1. /\ toServer = <<>> /\ toClient = <<>> /\ toServer' = <<r>> /\ toClient' = <<>>
      /\ unacked' = unacked /\ ~ CanSend'
  BY DEF Starting, Turns, Fresh, CanSend
<1>2. r.kind = "auth"
  BY DEF Auth
<1> HIDE DEF r
<1>3. /\ Count(toServer', "listen") = 0 /\ Indexes(toServer') = {} /\ Rising(toServer')
      /\ Count(<<>>, "listen") = 0 /\ Indexes(<<>>) = {} /\ Rising(<<>>)
  BY <1>1, <1>2, SingleAuth, NoPlaces
<1>4. QED
  BY <1>1, <1>3 DEF CountIsExact, Count, PutsInOrder

LEMMA CountRestoring ==
  ASSUME IInv, Types, Turns, CountIsExact, PutsInOrder, Restoring,
         UNCHANGED <<issued, listened, putCounter, getCounter>>
  PROVE  CountIsExact' /\ PutsInOrder'
<1>1. PICK sent \in Seq(Requests) :
        /\ toServer' = toServer \o sent
        /\ Count(sent, "listen") = Cardinality(listens) /\ Cardinality(listens) \in Nat
        /\ Indexes(sent) = puts /\ Rising(sent)
  BY RestoringFacts
<1>2. unacked' = unacked + Cardinality(listens)
  BY RestoringFacts
<1>3. ~ CanSend /\ CanSend' /\ puts' = puts
  BY DEF Restoring, CanSend
<1>4. ~ Has(toServer, {"put"}) /\ ~ Has(toClient, {"put"})
  BY <1>3 DEF Turns, WorkLast, Has
<1>5. Indexes(toServer) = {} /\ Rising(toServer) /\ Indexes(toClient) = {}
  BY <1>4, NoPuts
<1>6. /\ Count(toServer', "listen") = Count(toServer, "listen") + Count(sent, "listen")
      /\ Indexes(toServer') = Indexes(toServer) \cup Indexes(sent)
      /\ Rising(toServer) /\ Rising(sent)
           /\ (\A i \in Indexes(toServer), j \in Indexes(sent) : i < j) => Rising(toServer')
  BY <1>1, JoinedPlaces, QueueFacts
<1>7. Count(toClient', "listen") = Count(toClient, "listen") /\ Indexes(toClient') = {} /\ Rising(toClient')
  <2>1. CASE toClient' = toClient
    BY <1>5, <2>1 DEF PutsInOrder
  <2>2. CASE toClient # <<>> /\ toClient' = Tail(toClient) /\ Head(toClient).kind = "auth"
    <3>1. /\ Count(toClient, "listen") = Count(toClient', "listen") + 0
          /\ Has(toClient, {"put"}) <=> Has(toClient', {"put"}) \/ Head(toClient).kind \in {"put"}
          /\ toClient' \in Seq(Answers)
      BY <2>2, TakenPlaces, Taken, QueueFacts
    <3>2. Indexes(toClient') = {} /\ Rising(toClient')
      BY <1>4, <3>1, NoPuts
    <3>3. Count(toClient', "listen") \in Nat
      BY <3>1, Places
    <3>4. QED
      BY <3>1, <3>2, <3>3
  <2>3. QED
    BY <2>1, <2>2 DEF Restoring
<1>8. CountIsExact'
  <2>1. unacked = Count(toServer, "listen") + Count(toClient, "listen")
    BY DEF CountIsExact, Count
  <2>2. unacked' = Count(toServer', "listen") + Count(toClient', "listen")
    BY <1>1, <1>2, <1>6, <1>7, <2>1, QueueFacts
  <2>3. QED
    BY <2>2 DEF CountIsExact, Count
<1>9. PutsInOrder'
  BY <1>1, <1>3, <1>5, <1>6, <1>7 DEF PutsInOrder
<1>10. QED
  BY <1>8, <1>9

LEMMA CountReceiving ==
  ASSUME Types, CountIsExact, PutsInOrder, Receiving
  PROVE  CountIsExact' /\ PutsInOrder'
<1> DEFINE a == Head(toClient)
<1>1. /\ toClient # <<>> /\ toClient' = Tail(toClient) /\ toServer' = toServer
      /\ CanSend /\ CanSend'
      /\ unacked' = unacked - (IF a.kind = "listen" THEN 1 ELSE 0)
      /\ puts' = IF a.kind = "put" THEN puts \ {a.index} ELSE puts
  BY DEF Receiving, CanSend
<1>2. /\ Count(toClient, "listen") = Count(toClient', "listen") + (IF a.kind = "listen" THEN 1 ELSE 0)
      /\ Indexes(toClient) = Indexes(toClient') \cup (IF a.kind = "put" THEN {a.index} ELSE {})
      /\ Rising(toClient) => Rising(toClient')
      /\ Rising(toClient) /\ a.kind = "put" => \A i \in Indexes(toClient') : a.index < i
  BY <1>1, TakenPlaces, QueueFacts
<1> HIDE DEF a
<1>3. CountIsExact'
  <2>1. unacked = Count(toServer, "listen") + Count(toClient, "listen")
    BY DEF CountIsExact, Count
  <2>2. toClient' \in Seq(Answers)
    BY <1>1, Taken, QueueFacts
  <2>3. Count(toClient', "listen") \in Nat
    BY <2>2, Places
  <2>4. unacked' = Count(toServer', "listen") + Count(toClient', "listen")
    BY <1>1, <1>2, <2>1, <2>3, QueueFacts
  <2>5. QED
    BY <2>4 DEF CountIsExact, Count
<1>4. PutsInOrder'
  <2>1. CASE a.kind = "put"
    <3>1. Indexes(toClient) = Indexes(toClient') \cup {a.index} /\ puts' = puts \ {a.index}
      BY <1>1, <1>2, <2>1
    <3>2. a.index \in 1 .. putCounter
      BY <3>1, QueueFacts
    <3>3. \A i \in Indexes(toClient') \cup Indexes(toServer) : a.index < i
      BY <1>2, <2>1, <3>1 DEF PutsInOrder
    <3>4. a.index \notin Indexes(toClient') /\ a.index \notin Indexes(toServer)
      BY <3>2, <3>3
    <3>5. puts' = Indexes(toClient') \cup Indexes(toServer')
      BY <1>1, <3>1, <3>4 DEF PutsInOrder
    <3>6. QED
      BY <1>1, <1>2, <3>1, <3>5 DEF PutsInOrder
  <2>2. CASE a.kind # "put"
    BY <1>1, <1>2, <2>2 DEF PutsInOrder
  <2>3. QED
    BY <2>1, <2>2
<1>5. QED
  BY <1>3, <1>4

LEMMA CountServing ==
  ASSUME Types, CountIsExact, PutsInOrder, Serving
  PROVE  CountIsExact' /\ PutsInOrder'
<1> DEFINE r == Head(toServer)
           a == AnswerTo(r)
<1>1. /\ toServer # <<>> /\ toServer' = Tail(toServer) /\ r \in Requests
      /\ UNCHANGED <<state, unacked, puts>>
      /\ toClient' = IF r.kind \in {"unauth", "unlisten"} THEN toClient ELSE Append(toClient, a)
  BY Taken DEF Serving, Types, QueueTypes
<1>2. /\ Count(toServer, "listen") = Count(toServer', "listen") + (IF r.kind = "listen" THEN 1 ELSE 0)
      /\ Indexes(toServer) = Indexes(toServer') \cup (IF r.kind = "put" THEN {r.index} ELSE {})
      /\ Rising(toServer) => Rising(toServer')
      /\ Rising(toServer) /\ r.kind = "put" => \A i \in Indexes(toServer') : r.index < i
  BY <1>1, TakenPlaces, QueueFacts
<1>3. /\ Count(toClient', "listen") = Count(toClient, "listen") + (IF r.kind = "listen" THEN 1 ELSE 0)
      /\ Indexes(toClient') = Indexes(toClient) \cup (IF r.kind = "put" THEN {r.index} ELSE {})
      /\ Rising(toClient) /\ (r.kind = "put" => \A i \in Indexes(toClient) : i < r.index)
           => Rising(toClient')
  <2>1. CASE r.kind \in {"unauth", "unlisten"}
    BY <1>1, <2>1, QueueFacts
  <2>2. CASE r.kind \notin {"unauth", "unlisten"}
    <3>1. a \in Answers /\ a.kind = r.kind /\ (r.kind = "put" => a.index = r.index)
      BY <1>1, <2>2, AnswersAreAnswers
    <3>2. toClient' = Append(toClient, a)
      BY <1>1, <2>2
    <3> HIDE DEF a
    <3>3. /\ Count(toClient', "listen") = Count(toClient, "listen") + (IF a.kind = "listen" THEN 1 ELSE 0)
          /\ Indexes(toClient') = Indexes(toClient) \cup (IF a.kind = "put" THEN {a.index} ELSE {})
          /\ Rising(toClient) /\ (a.kind = "put" => \A i \in Indexes(toClient) : i < a.index)
               => Rising(toClient')
      BY <3>1, <3>2, AppendedPlaces, QueueFacts
    <3>4. CASE r.kind = "put"
      BY <3>1, <3>3, <3>4
    <3>5. CASE r.kind # "put"
      BY <3>1, <3>3, <3>5
    <3>6. QED
      BY <3>4, <3>5
  <2>3. QED
    BY <2>1, <2>2
<1> HIDE DEF r, a
<1>4. CountIsExact'
  <2>1. unacked = Count(toServer, "listen") + Count(toClient, "listen")
    BY DEF CountIsExact, Count
  <2>2. toServer' \in Seq(Requests)
    BY <1>1, Taken, QueueFacts
  <2>3. Count(toServer', "listen") \in Nat
    BY <2>2, Places
  <2>4. unacked' = Count(toServer', "listen") + Count(toClient', "listen")
    BY <1>1, <1>2, <1>3, <2>1, <2>3, QueueFacts
  <2>5. QED
    BY <2>4 DEF CountIsExact, Count
<1>5. PutsInOrder'
  <2>1. CASE r.kind = "put"
    <3>1. /\ Indexes(toServer) = Indexes(toServer') \cup {r.index}
          /\ Indexes(toClient') = Indexes(toClient) \cup {r.index}
      BY <1>2, <1>3, <2>1
    <3>2. \A i \in Indexes(toClient) : i < r.index
      BY <3>1 DEF PutsInOrder
    <3>3. Rising(toServer') /\ Rising(toClient') /\ \A j \in Indexes(toServer') : r.index < j
      BY <1>2, <1>3, <2>1, <3>2 DEF PutsInOrder
    <3>4. \A i \in Indexes(toClient'), j \in Indexes(toServer') : i < j
      BY <3>1, <3>3 DEF PutsInOrder
    <3>5. QED
      BY <1>1, <3>1, <3>3, <3>4 DEF PutsInOrder, CanSend
  <2>2. CASE r.kind # "put"
    BY <1>1, <1>2, <1>3, <2>2 DEF PutsInOrder, CanSend
  <2>3. QED
    BY <2>1, <2>2
<1>6. QED
  BY <1>4, <1>5

LEMMA CountTelling ==
  ASSUME Types, CountIsExact, PutsInOrder, NEW a, Telling(a)
  PROVE  CountIsExact' /\ PutsInOrder'
<1>1. /\ a \in Answers /\ a.kind \notin {"put", "listen"} /\ toClient' = Append(toClient, a)
      /\ UNCHANGED <<state, toServer, unacked, puts>>
  BY DEF Telling
<1>2. /\ Count(toClient', "listen") = Count(toClient, "listen")
      /\ Indexes(toClient') = Indexes(toClient)
      /\ Rising(toClient) => Rising(toClient')
  <2>1. /\ Count(toClient', "listen") = Count(toClient, "listen") + (IF a.kind = "listen" THEN 1 ELSE 0)
        /\ Indexes(toClient') = Indexes(toClient) \cup (IF a.kind = "put" THEN {a.index} ELSE {})
        /\ Rising(toClient) /\ (a.kind = "put" => \A i \in Indexes(toClient) : i < a.index)
             => Rising(toClient')
    BY <1>1, AppendedPlaces, QueueFacts
  <2>2. QED
    BY <1>1, <2>1, QueueFacts
<1>3. QED
  BY <1>1, <1>2 DEF CountIsExact, Count, PutsInOrder, CanSend

LEMMA CountNext ==
  ASSUME IInv, Types, PostTypes, Turns, CountIsExact, PutsInOrder, [Next]_vars
  PROVE  CountIsExact' /\ PutsInOrder'
<1>1. CASE Silent
  <2>1. CanSend' => CanSend
    BY <1>1 DEF Silent, CanSend, IsConnected
  <2>2. QED
    BY <1>1, <2>1 DEF Silent, CountIsExact, PutsInOrder
<1>2. CASE Closing
  BY <1>2, NoPlaces DEF Closing, CountIsExact, Count, PutsInOrder, CanSend
<1>3. QED
  BY <1>1, <1>2, Shapes, StepsGrow, CountSending, CountStarting, CountRestoring, CountReceiving,
     CountServing, CountTelling

-----------------------------------------------------------------------------
(* The token the server knows the connection by.                           *)

\* The last request about a token asks for the client's; once it has arrived, the
\* server's token is the client's, or the client is about to hear that it is not.
SessionFollows ==
  IsConnected =>
    \/ Speaks(toServer, authToken)
    \/ /\ ~ Has(toServer, TokenKinds)
       /\ session = authToken \/ (session = NoToken /\ HasBad(toClient))

\* The last that FIRAuth posted about its token is the token it has; once that has
\* reached the client, the token of an open connection is that one, unless a fetch
\* was overtaken.
TokenIsCurrent ==
  \/ Speaks(posts, cached)
  \/ /\ ~ Has(posts, TokenKinds)
     /\ Realtime => overtaken \/ authToken = cached

SessionKnown == SessionFollows /\ TokenIsCurrent

LEMMA SpeaksHas ==
  ASSUME NEW q, NEW t, Speaks(q, t)
  PROVE  Has(q, TokenKinds)
BY DEF Speaks, Has

\* A token is asked for at the end of a queue, or something else is.
LEMMA SpeaksAppended ==
  ASSUME NEW S, NEW q \in Seq(S), NEW e \in S
  PROVE  /\ e.kind \in TokenKinds => Speaks(Append(q, e), TokenOf(e))
         /\ \A t : e.kind \notin TokenKinds /\ Speaks(q, t) => Speaks(Append(q, e), t)
         /\ HasBad(q) \/ e.kind = "authRevoked" \/ (e.kind = "auth" /\ ~ e.ok) => HasBad(Append(q, e))
<1> DEFINE new == Append(q, e)
<1>1. /\ Len(q) \in Nat /\ DOMAIN q = 1 .. Len(q) /\ DOMAIN new = 1 .. Len(q) + 1
      /\ \A n \in 1 .. Len(q) : new[n] = q[n]
      /\ new[Len(q) + 1] = e
  BY Appended
<1> HIDE DEF new
<1>2. \A n \in DOMAIN new : n \in 1 .. Len(q) \/ n = Len(q) + 1
  BY <1>1
<1>3. Len(q) + 1 \in DOMAIN new /\ 1 .. Len(q) \subseteq DOMAIN new
  BY <1>1
<1>4. ASSUME e.kind \in TokenKinds PROVE Speaks(new, TokenOf(e))
  <2>1. \A m \in DOMAIN new : ~ m > Len(q) + 1
    BY <1>1
  <2>2. QED
    BY <1>1, <1>3, <1>4, <2>1 DEF Speaks
<1>5. ASSUME NEW t, e.kind \notin TokenKinds, Speaks(q, t) PROVE Speaks(new, t)
  <2>1. PICK n \in DOMAIN q : /\ q[n].kind \in TokenKinds /\ TokenOf(q[n]) = t
                              /\ \A m \in DOMAIN q : m > n => q[m].kind \notin TokenKinds
    BY <1>5 DEF Speaks
  <2>2. n \in DOMAIN new /\ new[n] = q[n]
    BY <1>1, <1>3
  <2>3. \A m \in DOMAIN new : m > n => new[m].kind \notin TokenKinds
    BY <1>1, <1>2, <1>5, <2>1
  <2>4. QED
    BY <2>1, <2>2, <2>3 DEF Speaks
<1>6. ASSUME HasBad(q) PROVE HasBad(new)
  BY <1>1, <1>3, <1>6 DEF HasBad, Bad
<1>7. ASSUME e.kind = "authRevoked" \/ (e.kind = "auth" /\ ~ e.ok) PROVE HasBad(new)
  BY <1>1, <1>3, <1>7 DEF HasBad, Bad
<1>8. QED
  BY <1>4, <1>5, <1>6, <1>7 DEF new

LEMMA SpeaksTaken ==
  ASSUME NEW S, NEW q \in Seq(S), q # <<>>, NEW t, Speaks(q, t)
  PROVE  \/ Speaks(Tail(q), t)
         \/ ~ Has(Tail(q), TokenKinds) /\ Head(q).kind \in TokenKinds /\ TokenOf(Head(q)) = t
<1> DEFINE new == Tail(q)
<1>1. /\ Head(q) = q[1] /\ Len(q) \in Nat \ {0}
      /\ DOMAIN q = 1 .. Len(q) /\ DOMAIN new = 1 .. Len(q) - 1
      /\ \A n \in 1 .. Len(q) - 1 : new[n] = q[n + 1]
  BY Taken
<1> HIDE DEF new
<1>2. PICK n \in DOMAIN q : /\ q[n].kind \in TokenKinds /\ TokenOf(q[n]) = t
                            /\ \A m \in DOMAIN q : m > n => q[m].kind \notin TokenKinds
  BY DEF Speaks
<1>3. CASE n = 1
  <2>1. \A m \in DOMAIN new : m + 1 \in DOMAIN q /\ m + 1 > 1
    BY <1>1
  <2>2. ~ Has(new, TokenKinds)
    BY <1>1, <1>2, <1>3, <2>1 DEF Has
  <2>3. QED
    BY <1>1, <1>2, <1>3, <2>2 DEF new
<1>4. CASE n # 1
  <2>1. n - 1 \in DOMAIN new /\ new[n - 1] = q[n]
    BY <1>1, <1>4
  <2>2. \A m \in DOMAIN new : m > n - 1 => m + 1 \in DOMAIN q /\ m + 1 > n
    BY <1>1
  <2>3. \A m \in DOMAIN new : m > n - 1 => new[m].kind \notin TokenKinds
    BY <1>1, <1>2, <2>2
  <2>4. Speaks(new, t)
    BY <1>2, <2>1, <2>3 DEF Speaks
  <2>5. QED
    BY <2>4 DEF new
<1>5. QED
  BY <1>3, <1>4

LEMMA BadTaken ==
  ASSUME NEW S, NEW q \in Seq(S), q # <<>>, HasBad(q), ~ Bad(q, 1)
  PROVE  HasBad(Tail(q))
<1> DEFINE new == Tail(q)
<1>1. /\ Len(q) \in Nat \ {0}
      /\ DOMAIN q = 1 .. Len(q) /\ DOMAIN new = 1 .. Len(q) - 1
      /\ \A n \in 1 .. Len(q) - 1 : new[n] = q[n + 1]
  BY Taken
<1> HIDE DEF new
<1>2. PICK n \in DOMAIN q : Bad(q, n)
  BY DEF HasBad
<1>3. n - 1 \in DOMAIN new /\ new[n - 1] = q[n]
  BY <1>1, <1>2
<1>4. HasBad(new)
  BY <1>2, <1>3 DEF HasBad, Bad
<1>5. QED
  BY <1>4 DEF new

LEMMA SpeaksJoined ==
  ASSUME NEW S, NEW q \in Seq(S), NEW r \in Seq(S), NEW t, Speaks(q, t), ~ Has(r, TokenKinds)
  PROVE  Speaks(q \o r, t)
<1> DEFINE new == q \o r
<1>1. /\ DOMAIN q = 1 .. Len(q) /\ DOMAIN r = 1 .. Len(r) /\ DOMAIN new = 1 .. Len(q) + Len(r)
      /\ Len(q) \in Nat /\ Len(r) \in Nat
      /\ \A n \in 1 .. Len(q) : new[n] = q[n]
      /\ \A n \in 1 .. Len(r) : new[Len(q) + n] = r[n]
      /\ \A n \in DOMAIN new :
           n \in 1 .. Len(q) \/ (n - Len(q) \in 1 .. Len(r) /\ Len(q) + (n - Len(q)) = n)
  BY Joined
<1> HIDE DEF new
<1>2. PICK n \in DOMAIN q : /\ q[n].kind \in TokenKinds /\ TokenOf(q[n]) = t
                            /\ \A m \in DOMAIN q : m > n => q[m].kind \notin TokenKinds
  BY DEF Speaks
<1>3. n \in DOMAIN new /\ new[n] = q[n]
  BY <1>1
<1>4. ASSUME NEW m \in DOMAIN new, m > n PROVE new[m].kind \notin TokenKinds
  <2>1. CASE m \in 1 .. Len(q)
    BY <1>1, <1>2, <1>4, <2>1
  <2>2. CASE m - Len(q) \in 1 .. Len(r) /\ Len(q) + (m - Len(q)) = m
    <3>1. new[m] = r[m - Len(q)] /\ m - Len(q) \in DOMAIN r
      BY <1>1, <2>2
    <3>2. QED
      BY <3>1 DEF Has
  <2>3. QED
    BY <1>1, <2>1, <2>2
<1>5. Speaks(new, t)
  BY <1>2, <1>3, <1>4 DEF Speaks
<1>6. QED
  BY <1>5 DEF new

LEMMA SessionRestoring ==
  ASSUME IInv, Types, Turns, SessionFollows, Restoring,
         UNCHANGED <<issued, listened, putCounter, getCounter>>
  PROVE  SessionFollows'
<1>1. PICK sent \in Seq(Requests) :
        /\ toServer' = toServer \o sent
        /\ \A n \in DOMAIN sent : sent[n].kind \in {"listen", "put", "get"}
  BY RestoringFacts
<1>2. ~ Has(sent, TokenKinds)
  BY <1>1 DEF Has, TokenKinds
<1>3. /\ Has(toServer', TokenKinds) <=> Has(toServer, TokenKinds)
      /\ \A t : Speaks(toServer, t) => Speaks(toServer', t)
  BY <1>1, <1>2, JoinedPlaces, SpeaksJoined, QueueFacts
<1>4. session' = session /\ authToken' = authToken
  BY DEF Restoring
<1>5. CASE state = "connecting" /\ authToken = NoToken
  <2>1. toServer = <<>> /\ session = authToken
    BY <1>5 DEF Turns, Fresh
  <2>2. ~ Has(toServer', TokenKinds)
    BY <1>3, <2>1, NoPlaces
  <2>3. QED
    BY <1>4, <2>1, <2>2 DEF SessionFollows
<1>6. CASE /\ state = "authenticating" /\ toClient # <<>> /\ toClient' = Tail(toClient)
           /\ Head(toClient).kind = "auth" /\ Head(toClient).ok
  <2>1. ~ Bad(toClient, 1)
    BY <1>6, HeadKinds DEF Bad
  <2>2. HasBad(toClient) => HasBad(toClient')
    BY <1>6, <2>1, BadTaken, QueueFacts
  <2>3. QED
    BY <1>3, <1>4, <1>6, <2>2 DEF SessionFollows, IsConnected
<1>7. QED
  BY <1>5, <1>6 DEF Restoring

LEMMA SessionServing ==
  ASSUME IInv, Types, Turns, SessionFollows, Serving
  PROVE  SessionFollows'
<1> DEFINE r == Head(toServer)
           a == AnswerTo(r)
<1>1. /\ toServer # <<>> /\ toServer' = Tail(toServer) /\ r \in Requests
      /\ toServer \in Seq(Requests) /\ toClient \in Seq(Answers)
      /\ UNCHANGED <<state, authToken>>
  BY Taken, QueueFacts DEF Serving
<1>2. Has(toServer, TokenKinds) <=> Has(toServer', TokenKinds) \/ r.kind \in TokenKinds
  BY <1>1, TakenPlaces
<1>3. HasBad(toClient) => HasBad(toClient')
  <2>1. CASE r.kind \in {"unauth", "unlisten"}
    BY <2>1 DEF Serving
  <2>2. CASE r.kind \notin {"unauth", "unlisten"}
    <3>1. a \in Answers /\ toClient' = Append(toClient, a)
      BY <1>1, <2>2, AnswersAreAnswers DEF Serving
    <3>2. QED
      BY <1>1, <3>1, SpeaksAppended
  <2>3. QED
    BY <2>1, <2>2
<1>4. CASE r.kind \notin TokenKinds
  <2>1. session' = session
    BY <1>4 DEF Serving
  <2>2. Speaks(toServer, authToken) => Speaks(toServer', authToken)
    BY <1>1, <1>4, SpeaksTaken
  <2>3. QED
    BY <1>1, <1>2, <1>3, <1>4, <2>1, <2>2 DEF SessionFollows, IsConnected
<1>5. CASE r.kind \in TokenKinds
  <2>1. Has(toServer, TokenKinds)
    BY <1>2, <1>5
  <2>2. ~ IsConnected \/ Speaks(toServer, authToken)
    BY <2>1 DEF SessionFollows
  <2>3. CASE ~ IsConnected
    BY <1>1, <2>3 DEF SessionFollows, IsConnected
  <2>4. CASE Speaks(toServer', authToken)
    BY <1>1, <2>4 DEF SessionFollows
  <2>5. CASE ~ Has(toServer', TokenKinds) /\ TokenOf(r) = authToken
    <3>1. session' = IF authToken \in expired THEN NoToken ELSE authToken
      BY <1>5, <2>5 DEF Serving
    <3>2. authToken \in expired => HasBad(toClient')
      <4> SUFFICES ASSUME authToken \in expired PROVE HasBad(toClient')
        OBVIOUS
      <4>1. r.kind = "auth" /\ r.token = authToken
        BY <1>1, <1>5, <2>5 DEF Requests, Types, TokenTypes, TokenKinds, TokenOf, NoToken
      <4>2. a \in Answers /\ a.kind = "auth" /\ ~ a.ok /\ toClient' = Append(toClient, a)
        BY <1>1, <4>1, AnswersAreAnswers DEF Serving
      <4> HIDE DEF a
      <4>3. QED
        BY <1>1, <4>2, SpeaksAppended
    <3>3. QED
      BY <1>1, <2>5, <3>1, <3>2 DEF SessionFollows
  <2>6. QED
    BY <1>1, <2>2, <2>3, <2>4, <2>5, SpeaksTaken
<1>6. QED
  BY <1>4, <1>5

LEMMA SessionFollowsNext ==
  ASSUME IInv, Types, PostTypes, Turns, SessionFollows, [Next]_vars
  PROVE  SessionFollows'
<1>1. CASE Silent
  BY <1>1 DEF Silent, SessionFollows, IsConnected, Realtime
<1>2. CASE Closing
  BY <1>2 DEF Closing, SessionFollows, IsConnected
<1>3. ASSUME NEW r, Sending(r) PROVE SessionFollows'
  <2>1. /\ toServer \in Seq(Requests') /\ r \in Requests' /\ toServer' = Append(toServer, r)
        /\ UNCHANGED <<state, toClient, session>> /\ IsConnected
    BY <1>3, StepsGrow, Growing DEF Sending
  <2>2. CASE r.kind \in TokenKinds
    <3>1. authToken' = TokenOf(r)
      BY <1>3, <2>2 DEF Sending
    <3>2. Speaks(toServer', TokenOf(r))
      BY <2>1, <2>2, SpeaksAppended
    <3>3. QED
      BY <3>1, <3>2 DEF SessionFollows
  <2>3. CASE r.kind \notin TokenKinds
    <3>1. authToken' = authToken
      BY <1>3, <2>3 DEF Sending
    <3>2. /\ Has(toServer', TokenKinds) <=> Has(toServer, TokenKinds)
          /\ Speaks(toServer, authToken) => Speaks(toServer', authToken)
      BY <2>1, <2>3, AppendedPlaces, SpeaksAppended
    <3>3. QED
      BY <2>1, <3>1, <3>2 DEF SessionFollows
  <2>4. QED
    BY <2>2, <2>3
<1>4. CASE Starting
  <2> DEFINE r == Auth(authToken, TRUE)
  <2>1. r.kind \in TokenKinds /\ TokenOf(r) = authToken
    BY DEF Auth, TokenKinds, TokenOf
  <2>2. toServer' = <<r>> /\ authToken' = authToken
    BY <1>4 DEF Starting
  <2> HIDE DEF r
  <2>3. DOMAIN <<r>> = {1} /\ <<r>>[1] = r /\ \A m \in {1} : ~ m > 1
    BY Single
  <2>4. Speaks(<<r>>, authToken)
    BY <2>1, <2>3 DEF Speaks
  <2>5. QED
    BY <2>2, <2>4 DEF SessionFollows
<1>5. CASE Receiving
  <2>1. /\ toClient # <<>> /\ ~ Bad(toClient, 1) /\ toClient' = Tail(toClient)
        /\ UNCHANGED <<state, toServer, session, authToken>>
    BY <1>5 DEF Receiving
  <2>2. HasBad(toClient) => HasBad(toClient')
    BY <2>1, BadTaken, QueueFacts
  <2>3. QED
    BY <2>1, <2>2 DEF SessionFollows, IsConnected
<1>6. ASSUME NEW a, Telling(a) PROVE SessionFollows'
  <2>1. /\ a \in Answers /\ toClient \in Seq(Answers) /\ toClient' = Append(toClient, a)
        /\ UNCHANGED <<state, toServer, authToken>>
        /\ session' = session \/ (session' = NoToken /\ a.kind = "authRevoked")
    BY <1>6, QueueFacts DEF Telling
  <2>2. HasBad(toClient) \/ a.kind = "authRevoked" => HasBad(toClient')
    BY <2>1, SpeaksAppended
  <2>3. QED
    BY <2>1, <2>2 DEF SessionFollows, IsConnected
<1>7. QED
  BY <1>1, <1>2, <1>3, <1>4, <1>5, <1>6, Shapes, StepsGrow, SessionRestoring, SessionServing

\* A post is about FIRAuth's token, or it is about a fetch.
LEMMA PostedKinds ==
  ASSUME NEW t, NEW f
  PROVE  /\ TokenPost(t).kind \in TokenKinds /\ TokenOf(TokenPost(t)) = t
         /\ FetchPost(f, t).kind \notin TokenKinds
         /\ FailurePost(f).kind \notin TokenKinds
BY DEF TokenPost, FetchPost, FailurePost, TokenKinds, TokenOf

\* FIRAuth posts every change of its token, the last change last.
LEMMA PostingIsCurrent ==
  ASSUME Types, PostTypes, TokenIsCurrent, Posting
  PROVE  TokenIsCurrent'
<1>1. UNCHANGED <<state, authToken, overtaken>>
  BY AuthIsAside DEF Posting, clients, token, history
<1>2. ASSUME NEW p PROVE posts \in Seq(Posts \cup {p})
  BY SeqMonotonic DEF PostTypes
<1>3. ASSUME NEW p, p.kind \notin TokenKinds, posts' = Append(posts, p), cached' = cached
      PROVE  TokenIsCurrent'
  <2> DEFINE S == Posts \cup {p}
  <2>1. posts \in Seq(S) /\ p \in S
    BY <1>2
  <2> HIDE DEF S
  <2>2. /\ Speaks(posts, cached) => Speaks(posts', cached)
        /\ Has(posts', TokenKinds) <=> Has(posts, TokenKinds)
    BY <1>3, <2>1, SpeaksAppended, AppendedPlaces
  <2>3. QED
    BY <1>1, <1>3, <2>2 DEF TokenIsCurrent, Realtime
<1>4. ASSUME posts' = Append(posts, TokenPost(cached')) PROVE TokenIsCurrent'
  <2> DEFINE p == TokenPost(cached')
             S == Posts \cup {p}
  <2>1. p.kind \in TokenKinds /\ TokenOf(p) = cached'
    BY PostedKinds
  <2> HIDE DEF p
  <2>2. posts \in Seq(S) /\ p \in S
    BY <1>2
  <2> HIDE DEF S
  <2>3. Speaks(Append(posts, p), cached')
    BY <2>1, <2>2, SpeaksAppended
  <2>4. QED
    BY <1>4, <2>3 DEF TokenIsCurrent, p
<1>5. ASSUME NEW f \in fetches,
             posts' = posts \o <<TokenPost(cached'), FetchPost(f, cached')>>
      PROVE  TokenIsCurrent'
  <2> DEFINE p == TokenPost(cached')
             r == FetchPost(f, cached')
             S == Posts \cup {p, r}
             new == Append(posts, p)
  <2>1. posts \in Seq(S) /\ p \in S /\ r \in S
    BY SeqMonotonic DEF PostTypes
  <2>2. p.kind \in TokenKinds /\ TokenOf(p) = cached' /\ r.kind \notin TokenKinds
    BY PostedKinds
  <2> HIDE DEF p, r, S
  <2>3. posts' = Append(new, r)
    BY <1>5, <2>1 DEF p, r
  <2>4. new \in Seq(S) /\ Speaks(new, cached')
    BY <2>1, <2>2, Appended, SpeaksAppended
  <2>5. Speaks(posts', cached')
    BY <2>1, <2>2, <2>3, <2>4, SpeaksAppended
  <2>6. QED
    BY <2>5 DEF TokenIsCurrent
<1>6. QED
  BY <1>3, <1>4, <1>5, WhatIsPosted, PostedKinds DEF Types

\* The client takes the posts in their order.
LEMMA ToldIsCurrent ==
  ASSUME Types, PostTypes, TokenIsCurrent, Told
  PROVE  TokenIsCurrent'
<1>1. /\ posts # <<>> /\ posts' = Tail(posts) /\ cached' = cached /\ posts \in Seq(Posts)
  BY DEF Told, Fetched, FetchSucceeds, FetchFails, OnTokenChange, Posted, PostTypes
<1>2. Has(posts, TokenKinds) <=> Has(posts', TokenKinds) \/ Head(posts).kind \in TokenKinds
  BY <1>1, TakenPlaces
<1>3. CASE Speaks(posts', cached)
  BY <1>1, <1>3 DEF TokenIsCurrent
<1>4. CASE OnTokenChange /\ ~ Speaks(posts', cached)
  <2>1. Head(posts).kind = "token" /\ authToken' = Head(posts).token
    BY <1>4 DEF OnTokenChange, Posted
  <2>2. Head(posts).kind \in TokenKinds /\ TokenOf(Head(posts)) = Head(posts).token
    BY <2>1 DEF TokenKinds, TokenOf
  <2>3. Speaks(posts, cached)
    BY <1>2, <2>2 DEF TokenIsCurrent
  <2>4. ~ Has(posts', TokenKinds) /\ authToken' = cached
    BY <1>1, <1>4, <2>1, <2>2, <2>3, SpeaksTaken
  <2>5. QED
    BY <1>1, <2>4 DEF TokenIsCurrent
<1>5. CASE Fetched /\ ~ Speaks(posts', cached)
  <2>1. Head(posts).kind \notin TokenKinds
    BY <1>5 DEF Fetched, FetchSucceeds, FetchFails, Posted, TokenKinds
  <2>2. ~ Has(posts', TokenKinds) /\ (Realtime => overtaken \/ authToken = cached)
    BY <1>1, <1>2, <1>5, <2>1, SpeaksTaken DEF TokenIsCurrent
  <2>3. ASSUME NEW f \in fetches, FetchSucceeds(f)
        PROVE  Realtime' => overtaken' \/ authToken' = cached
    BY <2>2, <2>3 DEF FetchSucceeds, Realtime
  <2>4. ASSUME NEW f \in fetches, FetchFails(f)
        PROVE  Realtime' => overtaken' \/ authToken' = cached
    BY <2>2, <2>4 DEF FetchFails, Realtime, history
  <2>5. QED
    BY <1>1, <1>5, <2>2, <2>3, <2>4 DEF TokenIsCurrent, Fetched
<1>6. QED
  BY <1>3, <1>4, <1>5 DEF Told

\* The token of an open connection is the user's, or a post says otherwise, or a
\* fetch was overtaken.
LEMMA TokenIsCurrentNext ==
  ASSUME IInv, Types, PostTypes, TokenIsCurrent, [Next]_vars
  PROVE  TokenIsCurrent'
<1>1. CASE Posting
  BY <1>1, PostingIsCurrent
<1>2. CASE Told
  BY <1>2, ToldIsCurrent
<1>3. CASE ~ Posting /\ ~ Told
  <2>1. UNCHANGED <<posts, cached>>
    BY <1>3, WhoPosts
  <2>2. Realtime' => Realtime /\ UNCHANGED <<authToken, overtaken>>
    <3>1. CASE UNCHANGED vars
      BY <3>1 DEF vars, token, history, Realtime
    <3>2. CASE Resuming \/ Interrupting \/ RetryFires
      BY <3>2 DEF Resuming, Resume, Interrupting, GoOffline, ServerKill, Interrupt, Drop, Signal,
                  RetryFires, Close, Realtime, history
    <3>3. CASE OnReady
      BY <3>3 DEF OnReady, Realtime, token, history
    <3>4. CASE Answered
      <4>1. Realtime
        BY <3>4, UnderWayNeedsRealtime
           DEF Answered, OnAuthAnswer, OnAuthRevoked, OnListenAnswer, OnListenRevoked, OnPutAnswer,
               OnGetAnswer, Answer
      <4>2. overtaken' = overtaken
        BY <3>4 DEF Answered, OnAuthAnswer, OnAuthRevoked, OnListenAnswer, OnListenRevoked,
                    OnPutAnswer, OnGetAnswer, history
      <4>3. authToken' = authToken \/ ~ Realtime'
        BY <3>4 DEF Answered, OnAuthAnswer, OnAuthRevoked, LoseToken, Close, OnListenAnswer,
                    OnListenRevoked, OnPutAnswer, OnGetAnswer, token, Realtime
      <4>4. QED
        BY <4>1, <4>2, <4>3
    <3>5. ASSUME NEW t, Expire(t) PROVE Realtime' => Realtime /\ UNCHANGED <<authToken, overtaken>>
      BY <3>5 DEF Expire, Realtime, token, history
    <3>6. CASE Asking \/ Timer
      BY <3>6 DEF Asking, Put, Get, Listen, Unlisten, Timer, GetTimesOut, Realtime, token, history
    <3>7. CASE Serve \/ Revoking
      BY <3>7 DEF Serve, ServerAuth, ServerUnauth, ServerListen, ServerUnlisten, ServerPut,
                  ServerGet, Revoking, RevokeListen, Realtime, token, history
    <3>8. QED
      BY <1>3, <3>1, <3>2, <3>3, <3>4, <3>5, <3>6, <3>7 DEF Next, Posting, FIRAuth
  <2>3. QED
    BY <2>1, <2>2 DEF TokenIsCurrent
<1>4. QED
  BY <1>1, <1>2, <1>3

-----------------------------------------------------------------------------
(* The invariant is inductive.                                             *)

QInv ==
  IInv /\ Types /\ PostTypes /\ Turns /\ CountIsExact /\ PutsInOrder /\ SessionKnown

LEMMA QInvInit == Init => QInv
<1> SUFFICES ASSUME Init PROVE QInv
  OBVIOUS
<1>1. SessionKnown
  BY NoPlaces DEF Init, SessionKnown, SessionFollows, TokenIsCurrent, IsConnected, Realtime
<1>2. PostTypes
  BY EmptySeq DEF Init, PostTypes
<1>3. QED
  BY <1>1, <1>2, IInvInit, TypesInit, TurnsInit, CountInit DEF QInv

LEMMA QInvNext == QInv /\ [Next]_vars => QInv'
<1> SUFFICES ASSUME QInv, [Next]_vars PROVE QInv'
  OBVIOUS
<1>1. Types' /\ PostTypes'
  BY TypesNext, PostTypesNext DEF QInv, Types
<1>2. QED
  BY <1>1, IInvNext, TurnsNext, CountNext, SessionFollowsNext, TokenIsCurrentNext
     DEF QInv, SessionKnown

THEOREM QueueInvariance == Spec => []QInv
<1>1. QED
  BY QInvInit, QInvNext, PTL DEF Spec

-----------------------------------------------------------------------------
(* The theorems.                                                           *)

\* Every variable keeps its type: indexes stay among those asked for, tokens among
\* those issued, and the unsigned count of unanswered listens is never negative.
THEOREM TypeCorrect == Spec => []TypeOK
<1>1. QInv => TypeOK
  <2> SUFFICES ASSUME QInv PROVE TypeOK
    OBVIOUS
  <2>1. Types /\ unacked = Count(toServer, "listen") + Count(toClient, "listen")
    BY DEF QInv, CountIsExact, Count
  <2>2. unacked \in Nat
    BY <2>1, QueueFacts
  <2>3. QED
    BY <2>1, <2>2 DEF QInv, Types, TokenTypes, PostTypes, WorkTypes, TypeOK
<1>2. QED
  BY <1>1, QueueInvariance, PTL

\* The count of unanswered listens is exact: over listens sent before the token was
\* accepted and sent again with the restored state, refused ones, lost connections
\* and interruptions it never wraps, and completions never wait in vain.
THEOREM CountStaysExact == Spec => []CountIsExact
<1>1. QInv => CountIsExact
  BY DEF QInv
<1>2. QED
  BY <1>1, QueueInvariance, PTL

\* Messages of both directions together.
LEMMA BothWays ==
  ASSUME Types
  PROVE  LET q == toClient \o toServer
         IN  /\ Indexes(q) = Indexes(toClient) \cup Indexes(toServer)
             /\ Rising(toClient) /\ Rising(toServer)
                  /\ (\A i \in Indexes(toClient), j \in Indexes(toServer) : i < j) => Rising(q)
             /\ \A kinds : Has(q, kinds) <=> Has(toClient, kinds) \/ Has(toServer, kinds)
<1> DEFINE S == Requests \cup Answers
<1>1. toClient \in Seq(S) /\ toServer \in Seq(S)
  BY SeqMonotonic, QueueFacts
<1> HIDE DEF S
<1>2. QED
  BY <1>1, JoinedPlaces

\* While writes can be sent, exactly the outstanding puts are under way, once each
\* and in the order of their calls, over any number of restored connections.
THEOREM PutsStayUnderWay == Spec => []PutsAreUnderWay
<1>1. QInv => PutsAreUnderWay
  <2> SUFFICES ASSUME QInv PROVE PutsAreUnderWay
    OBVIOUS
  <2>1. LET q == toClient \o toServer
        IN  Indexes(q) = Indexes(toClient) \cup Indexes(toServer) /\ Rising(q)
    BY BothWays DEF QInv, PutsInOrder
  <2>2. QED
    BY <2>1 DEF QInv, PutsInOrder, PutsAreUnderWay, Indexes, Rising
<1>2. QED
  BY <1>1, QueueInvariance, PTL

\* When nothing about tokens is under way, the server knows the connection under the
\* client's token, and that is the user's unless an overtaken fetch brought it.
THEOREM SessionStaysUsers == Spec => []SessionIsUsers
<1>1. QInv => SessionIsUsers
  <2> SUFFICES ASSUME QInv, CanSend, TokensSettled
               PROVE  session = authToken /\ (overtaken \/ authToken = cached)
    BY DEF SessionIsUsers
  <2> DEFINE q == toClient \o toServer
  <2>1. ~ Has(q, {"auth", "unauth", "authRevoked"}) /\ ~ Has(posts, {"token"})
    BY DEF TokensSettled, Has, At
  <2>2. /\ ~ Has(toClient, {"auth", "unauth", "authRevoked"})
        /\ ~ Has(toServer, {"auth", "unauth", "authRevoked"})
    BY <2>1, BothWays DEF QInv
  <2>3. ~ HasBad(toClient) /\ ~ Has(toServer, TokenKinds) /\ ~ Has(posts, TokenKinds)
    <3>1. \A n \in DOMAIN toServer : toServer[n].kind # "token"
      BY QueueFacts DEF QInv, Requests
    <3>2. \A n \in DOMAIN posts : posts[n].kind \notin {"auth", "unauth"}
      BY ElementOfSeq, PostKinds DEF QInv, PostTypes
    <3>3. QED
      BY <2>1, <2>2, <3>1, <3>2 DEF HasBad, Bad, Has, TokenKinds
  <2>4. ~ Speaks(toServer, authToken) /\ ~ Speaks(posts, cached)
    BY <2>3, SpeaksHas
  <2>5. IsConnected /\ Realtime
    BY DEF CanSend, IsConnected, Realtime
  <2>6. QED
    BY <2>3, <2>4, <2>5 DEF QInv, SessionKnown, SessionFollows, TokenIsCurrent
<1>2. QED
  BY <1>1, QueueInvariance, PTL
=============================================================================
