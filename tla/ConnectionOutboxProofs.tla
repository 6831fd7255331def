----------------------- MODULE ConnectionOutboxProofs -----------------------
(***************************************************************************)
(* Proofs about Connection while one user stays signed in and no listen is *)
(* removed on purpose: no listen is ever lost, and the connection          *)
(* implements, step by step, the queue of puts the screens rely on.        *)
(*                                                                         *)
(* Two invariants are needed.  Whoever is not known to the server will be  *)
(* told to refresh the token before anything is refused.  And the puts     *)
(* that completed, those answered, those outstanding and those that        *)
(* reached the server are intervals of indexes, where an answered put      *)
(* waits only for a listen whose answer is still to come.                  *)
(***************************************************************************)
EXTENDS ConnectionQueueProofs

\* Somebody is signed in from the start, and nobody signs out, removes a listen or
\* changes the rules of the database: the assumption on the constants.
StaysSignedIn ==
  0 \notin StartTokens /\ \A event \in {"signOut", "unlisten", "revoke"} : Budget[event] = 0

-----------------------------------------------------------------------------
(* The user stays signed in.                                               *)

NothingLeft == \A event \in {"signOut", "unlisten", "revoke"} : budget[event] = 0

TokenKept ==
  /\ cached # NoToken
  /\ Realtime => authToken # NoToken
  /\ \A f \in fetches : f.token # NoToken
  /\ \A n \in DOMAIN posts : posts[n].kind \in {"token", "fetch"} => posts[n].token # NoToken

NothingRemoved == ~ Has(toServer, {"unauth", "unlisten"}) /\ ~ Has(toClient, {"listenRevoked"})

\* A connection the server does not know is told so, if its token is not under way.
Warned ==
  IsConnected /\ session = NoToken =>
    HasBad(toClient) \/ (toClient = <<>> /\ state = "authenticating")

\* It is told before any listen is refused.
WarnedFirst ==
  \A n \in At(toClient, "listen") : ~ toClient[n].ok => \E m \in 1 .. n - 1 : Bad(toClient, m)

SignedIn == NothingLeft /\ TokenKept /\ NothingRemoved /\ Warned /\ WarnedFirst

LEMMA NoneSpent ==
  ASSUME NothingLeft
  PROVE  ~ Spend("signOut") /\ ~ Spend("unlisten") /\ ~ Spend("revoke")
BY DEF NothingLeft, Spend

LEMMA NothingLeftNext ==
  ASSUME Types, NothingLeft, [Next]_vars
  PROVE  NothingLeft'
<1>1. budget \in [Events -> Nat]
  BY DEF Types, WorkTypes
<1>2. ASSUME NEW event, Spend(event) PROVE NothingLeft'
  BY <1>1, <1>2 DEF Spend, NothingLeft
<1>3. ASSUME budget' = budget PROVE NothingLeft'
  BY <1>3 DEF NothingLeft
<1>4. CASE Told \/ Answering \/ RetryFires \/ OnReady \/ Answered \/ Serve \/ Timer \/ Resuming
  <2>1. budget' = budget
    BY <1>4 DEF Told, Fetched, FetchSucceeds, FetchFails, OnTokenChange, Answering, Refresh,
                AnswerFetch, RetryFires, OnReady, Answered, OnAuthAnswer, OnAuthRevoked, OnListenAnswer, OnListenRevoked, OnPutAnswer, OnGetAnswer, Serve,
                ServerAuth, ServerUnauth, ServerListen, ServerUnlisten, ServerPut, ServerGet, Timer,
                GetTimesOut, Resuming, Resume
  <2>2. QED
    BY <1>3, <2>1
<1>5. CASE Interrupting \/ Failing \/ FIRAuth \/ Revoking
  BY <1>2, <1>5 DEF Interrupting, GoOffline, ServerKill, Drop, Signal, Failing, FailFetch,
                    FIRAuth, NewToken, SignOut, Expire, Revoking, RevokeListen
<1>6. CASE Asking
  BY <1>2, <1>3, <1>6 DEF Asking, Put, Get, Listen, Unlisten
<1>7. CASE UNCHANGED vars
  BY <1>3, <1>7 DEF vars
<1>8. QED
  BY <1>4, <1>5, <1>6, <1>7 DEF Next

\* What FIRAuth posts while somebody is signed in carries a token.
LEMMA PostingKeepsToken ==
  ASSUME Types, PostTypes, NothingLeft, TokenKept, Posting
  PROVE  TokenKept'
<1> DEFINE carries(p) == p.kind \in {"token", "fetch"} => p.token # NoToken
<1>1. UNCHANGED <<state, authToken, fetches>> /\ issued + 1 # NoToken /\ ~ SignOut
  BY AuthIsAside, NoneSpent DEF Posting, clients, token, Types, TokenTypes, NoToken, SignOut
<1>2. ASSUME cached' # NoToken, \A n \in DOMAIN posts' : carries(posts'[n]) PROVE TokenKept'
  BY <1>1, <1>2 DEF TokenKept, Realtime
<1>3. ASSUME NEW p, carries(p), cached' # NoToken, posts' = Append(posts, p) PROVE TokenKept'
  <2>1. posts \in Seq(Posts \cup {p})
    BY SeqMonotonic DEF PostTypes
  <2>2. \A n \in DOMAIN posts' : posts'[n] = p \/ (n \in DOMAIN posts /\ posts'[n] = posts[n])
    BY <1>3, <2>1, Appended
  <2>3. QED
    BY <1>2, <1>3, <2>2 DEF TokenKept
<1>4. ASSUME NEW p, carries(p), NEW r, carries(r), cached' # NoToken, posts' = posts \o <<p, r>>
      PROVE  TokenKept'
  <2>1. posts \in Seq(Posts \cup {p, r}) /\ <<p, r>> \in Seq(Posts \cup {p, r})
    BY SeqMonotonic DEF PostTypes
  <2>2. \A n \in DOMAIN posts' :
          posts'[n] \in {p, r} \/ (n \in DOMAIN posts /\ posts'[n] = posts[n])
    BY <1>4, <2>1
  <2>3. QED
    BY <1>2, <1>4, <2>2 DEF TokenKept
<1>5. /\ cached # NoToken /\ \A f \in fetches : f.token # NoToken
      /\ \A t : carries(TokenPost(t)) <=> t # NoToken
      /\ \A f, t : carries(FetchPost(f, t)) <=> t # NoToken
      /\ \A f : carries(FailurePost(f))
  BY DEF TokenKept, TokenPost, FetchPost, FailurePost
<1> HIDE DEF carries
<1>6. QED
  BY <1>1, <1>3, <1>4, <1>5, WhatIsPosted DEF Types

\* The client takes a token from a post.
LEMMA ToldKeepsToken ==
  ASSUME Types, PostTypes, TokenKept, Told
  PROVE  TokenKept'
<1>1. /\ posts # <<>> /\ posts' = Tail(posts) /\ cached' = cached /\ posts \in Seq(Posts)
      /\ fetches' \subseteq fetches
  BY DEF Told, Fetched, FetchSucceeds, FetchFails, OnTokenChange, Posted, PostTypes
<1>2. /\ Head(posts) = posts[1] /\ 1 \in DOMAIN posts
      /\ \A n \in DOMAIN posts' : n + 1 \in DOMAIN posts /\ posts'[n] = posts[n + 1]
  BY <1>1, Taken
<1>3. Posted("token") \/ Posted("fetch") => Head(posts).token # NoToken
  BY <1>2 DEF Posted, TokenKept
<1>4. Realtime' => authToken' # NoToken
  <2>1. ASSUME NEW f \in fetches, FetchSucceeds(f) PROVE Realtime' => authToken' # NoToken
    <3>1. CASE Awaited(f)
      BY <1>3, <2>1, <3>1 DEF FetchSucceeds
    <3>2. CASE ~ Awaited(f)
      BY <2>1, <3>2 DEF FetchSucceeds, TokenKept, Realtime
    <3>3. QED
      BY <3>1, <3>2
  <2>2. ASSUME NEW f \in fetches, FetchFails(f) PROVE Realtime' => authToken' # NoToken
    BY <2>2 DEF FetchFails, TokenKept, Realtime
  <2>3. CASE OnTokenChange
    BY <1>3, <2>3 DEF OnTokenChange
  <2>4. QED
    BY <2>1, <2>2, <2>3 DEF Told, Fetched
<1>5. \A n \in DOMAIN posts' : posts'[n].kind \in {"token", "fetch"} => posts'[n].token # NoToken
  BY <1>2 DEF TokenKept
<1>6. QED
  BY <1>1, <1>4, <1>5 DEF TokenKept

LEMMA TokenKeptNext ==
  ASSUME IInv, Types, PostTypes, NothingLeft, TokenKept, [Next]_vars
  PROVE  TokenKept'
<1>1. CASE Posting
  BY <1>1, PostingKeepsToken
<1>2. CASE Told
  BY <1>2, ToldKeepsToken
<1>3. CASE ~ Posting /\ ~ Told
  <2>1. UNCHANGED <<posts, cached>>
    BY <1>3, WhoPosts
  <2>2. ASSUME Realtime' => Realtime /\ authToken' = authToken,
               \A f \in fetches' : f \in fetches \/ f.token = cached
        PROVE  TokenKept'
    BY <2>1, <2>2 DEF TokenKept
  <2>3. CASE Resuming \/ Interrupting
    <3>1. authToken' = authToken /\ fetches' = fetches /\ (Realtime' => Realtime)
      BY <2>3 DEF Resuming, Resume, Interrupting, GoOffline, ServerKill, Interrupt, Drop, Signal,
                  Close, Realtime
    <3>2. QED
      BY <2>2, <3>1
  <2>4. CASE RetryFires
    <3>1. ~ Realtime' /\ \A f \in fetches' : f \in fetches \/ f.token = cached
      BY <2>4 DEF RetryFires, Realtime
    <3>2. QED
      BY <2>2, <3>1
  <2>5. CASE OnReady
    BY <2>2, <2>5 DEF OnReady, Realtime, token
  <2>6. CASE OnAuthAnswer \/ OnAuthRevoked
    <3>1. fetches' = fetches /\ (Realtime' => Realtime /\ authToken' = authToken)
      <4>1. CASE LoseToken
        BY <2>6, <4>1 DEF OnAuthAnswer, OnAuthRevoked, LoseToken, Close, Realtime
      <4>2. CASE ~ LoseToken
        BY <2>6, <4>2, UnderWayNeedsRealtime DEF OnAuthAnswer, OnAuthRevoked, Answer, token
      <4>3. QED
        BY <4>1, <4>2
    <3>2. QED
      BY <2>2, <3>1
  <2>7. CASE OnListenAnswer \/ OnListenRevoked \/ OnPutAnswer \/ OnGetAnswer \/ Asking \/ Timer
               \/ Serve \/ Revoking \/ UNCHANGED vars
    <3>1. UNCHANGED <<state, authToken, fetches>>
      BY <2>7 DEF OnListenAnswer, OnListenRevoked, OnPutAnswer, OnGetAnswer, Asking, Put, Get,
                  Listen, Unlisten, Timer, GetTimesOut, Serve, ServerAuth, ServerUnauth,
                  ServerListen, ServerUnlisten, ServerPut, ServerGet, Revoking, RevokeListen, vars,
                  token
    <3>2. QED
      BY <2>2, <3>1 DEF Realtime
  <2>8. ASSUME NEW t \in 1 .. issued, Expire(t) PROVE TokenKept'
    BY <2>2, <2>8 DEF Expire, Realtime, token
  <2>9. QED
    BY <1>3, <2>3, <2>4, <2>5, <2>6, <2>7, <2>8 DEF Next, Answered, Posting, FIRAuth
<1>4. QED
  BY <1>1, <1>2, <1>3

-----------------------------------------------------------------------------
(* Nothing is refused without a warning.                                   *)

\* A request that is sent asks for the user's token, or removes nothing.
LEMMA SentSignedIn ==
  ASSUME IInv, Types, NothingLeft, TokenKept', NEW r, Sending(r)
  PROVE  r.kind \notin {"unauth", "unlisten"}
<1>1. r.kind # "unlisten"
  BY NoneSpent DEF Sending
<1>2. Realtime'
  BY DEF Sending, IsConnected, Realtime
<1>3. r.kind # "unauth"
  BY <1>2 DEF Sending, TokenKept, TokenKinds, TokenOf
<1>4. QED
  BY <1>1, <1>3

LEMMA NothingRemovedNext ==
  ASSUME IInv, Types, PostTypes, Turns, NothingLeft, TokenKept', NothingRemoved, [Next]_vars
  PROVE  NothingRemoved'
<1>1. Grows /\ (Restoring => UNCHANGED <<issued, listened, putCounter, getCounter>>)
  BY StepsGrow
<1>2. toServer \in Seq(Requests) /\ toClient \in Seq(Answers)
  BY QueueFacts
<1>3. ASSUME toServer # <<>> PROVE ~ Has(Tail(toServer), {"unauth", "unlisten"})
  BY <1>2, <1>3, TakenPlaces DEF NothingRemoved
<1>4. ASSUME toClient # <<>> PROVE ~ Has(Tail(toClient), {"listenRevoked"})
  BY <1>2, <1>4, TakenPlaces DEF NothingRemoved
<1>5. CASE Silent
  BY <1>5 DEF Silent, NothingRemoved
<1>6. CASE Closing
  BY <1>6, NoPlaces DEF Closing, NothingRemoved
<1>7. ASSUME NEW r, Sending(r) PROVE NothingRemoved'
  <2>1. /\ r \in Requests' /\ toServer' = Append(toServer, r) /\ toServer \in Seq(Requests')
        /\ toClient' = toClient
    BY <1>1, <1>7, Growing DEF Sending
  <2>2. r.kind \notin {"unauth", "unlisten"}
    BY <1>7, SentSignedIn
  <2>3. ~ Has(toServer', {"unauth", "unlisten"})
    BY <2>1, <2>2, AppendedPlaces DEF NothingRemoved
  <2>4. QED
    BY <2>1, <2>3 DEF NothingRemoved
<1>8. CASE Starting
  <2>1. toServer' = <<Auth(authToken, TRUE)>> /\ toClient' = toClient
    BY <1>8 DEF Starting
  <2> DEFINE r == Auth(authToken, TRUE)
  <2> HIDE DEF r
  <2>2. \A n \in DOMAIN <<r>> : <<r>>[n] = r
    <3>1. DOMAIN <<r>> = {1} /\ <<r>>[1] = r
      BY Single
    <3>2. QED
      BY <3>1
  <2>3. r.kind = "auth"
    BY DEF r, Auth
  <2>4. toServer' = <<r>>
    BY <2>1 DEF r
  <2>5. QED
    BY <2>1, <2>2, <2>3, <2>4 DEF NothingRemoved, Has
<1>9. CASE Restoring
  <2>1. PICK sent \in Seq(Requests) :
          /\ toServer' = toServer \o sent
          /\ \A n \in DOMAIN sent : sent[n].kind \in {"listen", "put", "get"}
    BY <1>1, <1>9, RestoringFacts
  <2>2. ~ Has(sent, {"unauth", "unlisten"})
    BY <2>1 DEF Has
  <2>3. ~ Has(toServer', {"unauth", "unlisten"})
    BY <1>2, <2>1, <2>2, JoinedPlaces DEF NothingRemoved
  <2>4. toClient' = toClient \/ (toClient # <<>> /\ toClient' = Tail(toClient))
    BY <1>9 DEF Restoring
  <2>5. QED
    BY <1>4, <2>3, <2>4 DEF NothingRemoved
<1>10. CASE Receiving
  BY <1>4, <1>10 DEF Receiving, NothingRemoved
<1>11. CASE Serving
  <2>1. toServer # <<>> /\ toServer' = Tail(toServer)
    BY <1>11 DEF Serving
  <2> DEFINE r == Head(toServer)
  <2>2. r \in Requests /\ r.kind \notin {"unauth", "unlisten"}
    BY <1>2, <2>1, Requested, TakenPlaces DEF NothingRemoved
  <2>3. toClient' = Append(toClient, AnswerTo(r)) /\ AnswerTo(r) \in Answers
        /\ AnswerTo(r).kind = r.kind
    BY <1>11, <2>2, AnswersAreAnswers DEF Serving
  <2>4. r.kind # "listenRevoked"
    BY <2>2 DEF Requests
  <2>5. ~ Has(toClient', {"listenRevoked"})
    BY <1>2, <2>3, <2>4, AppendedPlaces DEF NothingRemoved
  <2>6. QED
    BY <1>3, <2>1, <2>5 DEF NothingRemoved
<1>12. ASSUME NEW a, Telling(a) PROVE NothingRemoved'
  <2>1. /\ a \in Answers /\ a.kind # "listenRevoked"
        /\ toServer' = toServer /\ toClient' = Append(toClient, a)
    BY <1>12, NoneSpent DEF Telling
  <2>2. ~ Has(toClient', {"listenRevoked"})
    BY <1>2, <2>1, AppendedPlaces DEF NothingRemoved
  <2>3. QED
    BY <2>1, <2>2 DEF NothingRemoved
<1>13. QED
  BY <1>5, <1>6, <1>7, <1>8, <1>9, <1>10, <1>11, <1>12, Shapes

\* What the server answers: a token it refuses is a warning, and it refuses listens
\* only once it warned.
LEMMA ServedSignedIn ==
  ASSUME IInv, Types, Turns, NothingRemoved, Warned, Serving
  PROVE  LET r == Head(toServer)
         IN  /\ r \in Requests /\ r.kind \notin {"unauth", "unlisten"} /\ IsConnected
             /\ toClient' = Append(toClient, AnswerTo(r)) /\ AnswerTo(r) \in Answers
             /\ AnswerTo(r).kind = r.kind
             /\ r.kind = "auth" => AnswerTo(r).ok \/ HasBad(toClient')
             /\ r.kind = "auth" /\ session' = NoToken => HasBad(toClient')
             /\ r.kind # "auth" /\ session' = NoToken => HasBad(toClient) /\ HasBad(toClient')
             /\ r.kind = "listen" /\ ~ AnswerTo(r).ok => HasBad(toClient)
<1> DEFINE r == Head(toServer)
<1>1. toServer # <<>> /\ toServer \in Seq(Requests) /\ toClient \in Seq(Answers)
  BY QueueFacts DEF Serving
<1>2. r \in Requests /\ r = toServer[1] /\ r.kind \notin {"unauth", "unlisten"}
  BY <1>1, Requested, TakenPlaces DEF NothingRemoved
<1>3. IsConnected
  BY <1>1, UnderWayNeedsRealtime DEF Realtime, IsConnected, Turns, Fresh
<1>4. /\ toClient' = Append(toClient, AnswerTo(r)) /\ AnswerTo(r) \in Answers
      /\ AnswerTo(r).kind = r.kind
      /\ r.kind = "auth" => AnswerTo(r).ok = (r.token \notin expired)
      /\ r.kind = "listen" => AnswerTo(r).ok = (session # NoToken)
  BY <1>2, AnswersAreAnswers DEF Serving
<1>5. r.kind = "auth" => r.token \in 1 .. issued
  BY <1>2, Kinds DEF Types
<1>6. r.kind = "auth" /\ ~ AnswerTo(r).ok => HasBad(toClient')
  BY <1>1, <1>4, SpeaksAppended
<1>7. r.kind = "auth" /\ session' = NoToken => ~ AnswerTo(r).ok
  <2>1. SUFFICES ASSUME r.kind = "auth", session' = NoToken PROVE r.token \in expired
    BY <1>4
  <2>2. session' = IF r.token \in expired THEN NoToken ELSE r.token
    BY <2>1 DEF Serving, TokenKinds, TokenOf
  <2>3. r.token # NoToken
    BY <1>5, <2>1 DEF NoToken, Types, TokenTypes
  <2>4. QED
    BY <2>1, <2>2, <2>3
<1>8. r.kind # "auth" => session' = session
  <2>1. r.kind \notin {"token", "unauth"}
    BY <1>2 DEF Requests
  <2>2. QED
    BY <2>1 DEF Serving, TokenKinds
<1>9. r.kind # "auth" /\ session = NoToken => HasBad(toClient)
  <2>1. ASSUME toClient = <<>>, state = "authenticating" PROVE r.kind = "auth"
    BY <1>2, <2>1 DEF Turns, TokenFirst, Restores
  <2>2. QED
    BY <1>3, <2>1 DEF Warned
<1>10. HasBad(toClient) => HasBad(toClient')
  BY <1>1, <1>4, SpeaksAppended
<1>11. AnswerTo(r).ok \in BOOLEAN \/ r.kind \notin {"auth", "listen"}
  BY <1>4
<1>12. QED
  BY <1>2, <1>3, <1>4, <1>6, <1>7, <1>8, <1>9, <1>10

LEMMA WarnedNext ==
  ASSUME IInv, Types, PostTypes, Turns, NothingLeft, TokenKept, NothingRemoved, Warned, [Next]_vars
  PROVE  Warned'
<1>1. toServer \in Seq(Requests) /\ toClient \in Seq(Answers)
  BY QueueFacts
<1>2. ASSUME state = "authenticating" \/ state = "connected", toClient # <<>>, ~ Bad(toClient, 1),
             session = NoToken
      PROVE  HasBad(Tail(toClient))
  BY <1>1, <1>2, BadTaken DEF Warned, IsConnected
<1>3. CASE Silent
  BY <1>3 DEF Silent, Warned, IsConnected
<1>4. CASE Closing
  BY <1>4 DEF Closing, Warned, IsConnected
<1>5. ASSUME NEW r, Sending(r) PROVE Warned'
  BY <1>5 DEF Sending, Warned, IsConnected
<1>6. CASE Starting
  BY <1>6 DEF Starting, Turns, Fresh, Warned
<1>7. CASE Restoring
  <2>1. state # "connecting" \/ authToken # NoToken
    BY DEF TokenKept, Realtime
  <2>2. /\ state = "authenticating" /\ toClient # <<>> /\ toClient' = Tail(toClient)
        /\ ~ Bad(toClient, 1) /\ session' = session
    BY <1>7, <2>1, HeadKinds DEF Restoring, Bad
  <2>3. QED
    BY <1>2, <2>2 DEF Warned
<1>8. CASE Receiving
  BY <1>2, <1>8 DEF Receiving, Warned
<1>9. CASE Serving
  BY <1>9, ServedSignedIn DEF Warned
<1>10. ASSUME NEW a, Telling(a) PROVE Warned'
  <2>1. a.kind = "authRevoked" /\ toClient' = Append(toClient, a) /\ a \in Answers
    BY <1>10, NoneSpent DEF Telling
  <2>2. HasBad(toClient')
    BY <1>1, <2>1, SpeaksAppended
  <2>3. QED
    BY <2>2 DEF Warned
<1>11. QED
  BY <1>3, <1>4, <1>5, <1>6, <1>7, <1>8, <1>9, <1>10, Shapes

\* A message at the end of the answers, a listen only refused after a warning.
LEMMA WarnedAppended ==
  ASSUME Types, WarnedFirst, NEW a \in Answers, toClient' = Append(toClient, a),
         a.kind = "listen" /\ ~ a.ok => HasBad(toClient)
  PROVE  WarnedFirst'
<1>1. /\ Len(toClient) \in Nat /\ DOMAIN toClient = 1 .. Len(toClient)
      /\ DOMAIN toClient' = 1 .. Len(toClient) + 1
      /\ \A n \in 1 .. Len(toClient) : toClient'[n] = toClient[n]
      /\ toClient'[Len(toClient) + 1] = a
  BY Appended, QueueFacts
<1>2. SUFFICES ASSUME NEW n \in At(toClient, "listen")', ~ toClient'[n].ok
               PROVE  \E m \in 1 .. n - 1 : Bad(toClient', m)
  BY DEF WarnedFirst
<1>3. CASE n \in 1 .. Len(toClient)
  <2>1. n \in At(toClient, "listen") /\ ~ toClient[n].ok
    BY <1>1, <1>2, <1>3 DEF At
  <2>2. PICK m \in 1 .. n - 1 : Bad(toClient, m)
    BY <2>1 DEF WarnedFirst
  <2>3. m \in 1 .. Len(toClient)
    BY <1>1, <1>3
  <2>4. QED
    BY <1>1, <2>2, <2>3 DEF Bad
<1>4. CASE n = Len(toClient) + 1
  <2>1. PICK m \in 1 .. Len(toClient) : Bad(toClient, m)
    BY <1>1, <1>2, <1>4 DEF HasBad, At
  <2>2. m \in 1 .. n - 1 /\ Bad(toClient', m)
    BY <1>1, <1>4, <2>1 DEF Bad
  <2>3. QED
    BY <2>2
<1>5. QED
  BY <1>1, <1>2, <1>3, <1>4 DEF At

\* The first answer is taken, and it is no warning.
LEMMA WarnedTaken ==
  ASSUME Types, WarnedFirst, toClient # <<>>, ~ Bad(toClient, 1), toClient' = Tail(toClient)
  PROVE  WarnedFirst'
<1>1. /\ Len(toClient) \in Nat \ {0} /\ DOMAIN toClient = 1 .. Len(toClient)
      /\ DOMAIN toClient' = 1 .. Len(toClient) - 1
      /\ \A n \in 1 .. Len(toClient) - 1 : toClient'[n] = toClient[n + 1]
  BY Taken, QueueFacts
<1>2. SUFFICES ASSUME NEW n \in At(toClient, "listen")', ~ toClient'[n].ok
               PROVE  \E m \in 1 .. n - 1 : Bad(toClient', m)
  BY DEF WarnedFirst
<1>3. n \in 1 .. Len(toClient) - 1 /\ n + 1 \in 1 .. Len(toClient)
  BY <1>1 DEF At
<1>4. n + 1 \in At(toClient, "listen") /\ ~ toClient[n + 1].ok
  BY <1>1, <1>2, <1>3 DEF At
<1>5. PICK m \in 1 .. (n + 1) - 1 : Bad(toClient, m)
  BY <1>4 DEF WarnedFirst
<1>6. m # 1
  BY <1>5
<1>7. m - 1 \in 1 .. n - 1 /\ m - 1 \in 1 .. Len(toClient) - 1 /\ (m - 1) + 1 = m
  BY <1>1, <1>3, <1>5, <1>6
<1>8. Bad(toClient', m - 1)
  BY <1>1, <1>5, <1>7 DEF Bad
<1>9. QED
  BY <1>7, <1>8

LEMMA WarnedFirstNext ==
  ASSUME IInv, Types, PostTypes, Turns, NothingRemoved, Warned, WarnedFirst, [Next]_vars
  PROVE  WarnedFirst'
<1>1. ASSUME UNCHANGED toClient PROVE WarnedFirst'
  BY <1>1 DEF WarnedFirst, At, Bad
<1>2. CASE Silent \/ Starting \/ \E r : Sending(r)
  BY <1>1, <1>2 DEF Silent, Starting, Sending
<1>3. CASE Closing
  BY <1>3, NoPlaces DEF Closing, WarnedFirst, At
<1>4. CASE Restoring
  <2>1. CASE toClient' = toClient
    BY <1>1, <2>1
  <2>2. CASE toClient' # toClient
    BY <1>4, <2>2, WarnedTaken, HeadKinds DEF Restoring, Bad
  <2>3. QED
    BY <2>1, <2>2
<1>5. CASE Receiving
  BY <1>5, WarnedTaken DEF Receiving
<1>6. CASE Serving
  BY <1>6, ServedSignedIn, WarnedAppended
<1>7. ASSUME NEW a, Telling(a) PROVE WarnedFirst'
  BY <1>7, WarnedAppended DEF Telling
<1>8. QED
  BY <1>2, <1>3, <1>4, <1>5, <1>6, <1>7, Shapes

LEMMA SignedInInit == StaysSignedIn /\ Init => SignedIn
<1> SUFFICES ASSUME StaysSignedIn, Init PROVE SignedIn
  OBVIOUS
<1>1. budget = Budget /\ toServer = <<>> /\ toClient = <<>> /\ fetches = {} /\ state = "disconnected"
      /\ cached \in StartTokens /\ posts = <<>>
  BY DEF Init
<1>2. NothingLeft /\ TokenKept
  BY <1>1, NoPlaces DEF StaysSignedIn, NothingLeft, TokenKept, NoToken, Realtime
<1>3. NothingRemoved /\ Warned /\ WarnedFirst
  BY <1>1, NoPlaces DEF NothingRemoved, Warned, WarnedFirst, IsConnected, At
<1>4. QED
  BY <1>2, <1>3 DEF SignedIn

LEMMA SignedInNext == QInv /\ SignedIn /\ [Next]_vars => SignedIn'
BY NothingLeftNext, TokenKeptNext, NothingRemovedNext, WarnedNext, WarnedFirstNext DEF QInv, SignedIn

LEMMA ListensStayNext ==
  ASSUME QInv, SignedIn, [Next]_vars
  PROVE  listens \subseteq listens'
<1>1. ~ Spend("unlisten")
  BY NoneSpent DEF SignedIn
<1>2. toClient \in Seq(Answers)
  BY QueueFacts DEF QInv
<1>3. CASE OnListenAnswer
  <2>1. toClient # <<>> /\ Head(toClient).kind = "listen"
    BY <1>3 DEF OnListenAnswer, Answer
  <2>2. 1 \in At(toClient, "listen") /\ Head(toClient) = toClient[1]
    BY <1>2, <2>1, Taken DEF At
  <2>3. Head(toClient).ok
    BY <2>2 DEF SignedIn, WarnedFirst
  <2>4. QED
    BY <1>3, <2>3 DEF OnListenAnswer
<1>4. ~ OnListenRevoked
  <2>1. ASSUME OnListenRevoked PROVE FALSE
    <3>1. toClient # <<>> /\ Head(toClient).kind = "listenRevoked"
      BY <2>1 DEF OnListenRevoked, Answer
    <3>2. Has(toClient, {"listenRevoked"})
      BY <1>2, <3>1, TakenPlaces
    <3>3. QED
      BY <3>2 DEF SignedIn, NothingRemoved
  <2>2. QED
    BY <2>1
<1>5. CASE Asking
  BY <1>1, <1>5 DEF Asking, Put, Get, Listen, Unlisten
<1>6. CASE Resuming \/ Interrupting \/ RetryFires \/ Told \/ OnReady \/ Answering \/ Failing
             \/ FIRAuth \/ Timer \/ Serve \/ Revoking \/ UNCHANGED vars
  <2>1. listens' = listens
    BY <1>6, AuthIsAside DEF Resuming, Resume, Interrupting, GoOffline, ServerKill, Interrupt, Drop,
         Signal, RetryFires, Told, Fetched, FetchSucceeds, FetchFails, OnTokenChange, OnReady,
         clients, FIRAuth, Expire, Timer, GetTimesOut, Serve, ServerAuth, ServerUnauth,
         ServerListen, ServerUnlisten, ServerPut, ServerGet, Revoking, RevokeListen, vars, work
  <2>2. QED
    BY <2>1
<1>7. CASE OnAuthAnswer \/ OnAuthRevoked \/ OnPutAnswer \/ OnGetAnswer
  BY <1>7 DEF OnAuthAnswer, OnAuthRevoked, OnPutAnswer, OnGetAnswer, work
<1>8. QED
  BY <1>3, <1>4, <1>5, <1>6, <1>7 DEF Next, Answered

-----------------------------------------------------------------------------
(* Puts in the order of their indexes.                                     *)

Done     == Len(completed)
Waiting  == Len(putsToAck)
Finished == Done + Waiting

\* The puts that completed, those that wait to complete and those outstanding follow
\* each other.
Intervals ==
  /\ \A n \in 1 .. Done : completed[n] = n
  /\ \A n \in 1 .. Waiting : putsToAck[n] = Done + n
  /\ Finished <= putCounter
  /\ puts = Finished + 1 .. putCounter

\* Puts reach the server in their order; those that are answered have reached it.
ArrivedInOrder ==
  /\ \A i \in arrived : 1 .. i \subseteq arrived
  /\ 1 .. Finished \subseteq arrived
  /\ Indexes(toClient) \subseteq arrived

\* A put that is answered waits for a listen whose answer is to come, and which is
\* sent again if the connection breaks.
WaitsForListens ==
  /\ unacked > 0 => listens # {}
  /\ putsToAck # <<>> => listens # {}
  /\ putsToAck # <<>> /\ CanSend => unacked > 0

InOrder == Intervals /\ ArrivedInOrder /\ WaitsForListens

LEMMA Lengths ==
  ASSUME Types
  PROVE  /\ Done \in Nat /\ Waiting \in Nat /\ Finished \in Nat /\ putCounter \in Nat
         /\ DOMAIN completed = 1 .. Done /\ DOMAIN putsToAck = 1 .. Waiting
         /\ putsToAck # <<>> <=> Waiting > 0
BY LenProperties, EmptySeq, QueueFacts DEF Types, WorkTypes, Done, Waiting, Finished

\* The actions about puts; no other completes, numbers or delivers one.
LEMMA Books ==
  ASSUME Types, [Next]_vars
  PROVE  \/ Put \/ OnPutAnswer \/ OnListenAnswer \/ ServerPut
         \/ UNCHANGED <<putCounter, puts, putsToAck, completed, arrived>>
<1>1. CASE Resuming \/ Interrupting \/ RetryFires \/ UNCHANGED vars
  BY <1>1 DEF Resuming, Resume, Interrupting, GoOffline, ServerKill, Interrupt, Drop, Signal,
              RetryFires, vars, work, asked, history
<1>2. CASE Told \/ OnReady
  BY <1>2 DEF Told, Fetched, FetchSucceeds, FetchFails, OnTokenChange, OnReady, work, asked, history
<1>3. CASE Answering \/ Failing \/ FIRAuth \/ Timer \/ Revoking
  BY <1>3, AuthIsAside DEF clients, FIRAuth, Expire, Timer, GetTimesOut, Revoking, RevokeListen,
                           work, asked, history
<1>4. CASE OnAuthAnswer
  BY <1>4 DEF OnAuthAnswer, asked
<1>5. CASE OnAuthRevoked \/ OnListenRevoked \/ OnGetAnswer
  BY <1>5 DEF OnAuthRevoked, OnListenRevoked, OnGetAnswer, work, asked, history
<1>6. CASE Asking /\ ~ Put
  <2>1. CASE Get
    BY <2>1 DEF Get, history
  <2>2. ASSUME NEW q \in Queries, Listen(q) \/ Unlisten(q)
        PROVE  UNCHANGED <<putCounter, puts, putsToAck, completed, arrived>>
    BY <2>2 DEF Listen, Unlisten, history, asked
  <2>3. QED
    BY <1>6, <2>1, <2>2 DEF Asking
<1>7. CASE Serve /\ ~ ServerPut
  BY <1>7 DEF Serve, ServerAuth, ServerUnauth, ServerListen, ServerUnlisten, ServerGet, work, asked,
              history
<1>8. QED
  BY <1>1, <1>2, <1>3, <1>4, <1>5, <1>6, <1>7 DEF Next, Answered

LEMMA PutKeepsOrder ==
  ASSUME QInv, InOrder, Put
  PROVE  InOrder'
<1>1. /\ putCounter' = putCounter + 1 /\ puts' = puts \cup {putCounter + 1}
      /\ UNCHANGED <<state, unacked, listens, putsToAck, toClient, completed, arrived>>
  BY DEF Put, history
<1>2. Types
  BY DEF QInv
<1>3. Finished' = Finished /\ Done' = Done /\ Waiting' = Waiting
  BY <1>1 DEF Done, Waiting, Finished
<1>4. Intervals'
  <2>1. Finished \in Nat /\ putCounter \in Nat
    BY <1>2, Lengths
  <2>2. puts' = Finished + 1 .. putCounter + 1
    BY <1>1, <2>1 DEF InOrder, Intervals
  <2>3. QED
    BY <1>1, <1>3, <2>1, <2>2 DEF InOrder, Intervals
<1>5. ArrivedInOrder'
  BY <1>1, <1>3 DEF InOrder, ArrivedInOrder
<1>6. WaitsForListens'
  BY <1>1 DEF InOrder, WaitsForListens, CanSend
<1>7. QED
  BY <1>4, <1>5, <1>6 DEF InOrder

\* The put answered next is the first one outstanding, and the server has seen it.
LEMMA AnsweredNext ==
  ASSUME QInv, InOrder, OnPutAnswer
  PROVE  /\ CanSend /\ Head(toClient).index = Finished + 1
         /\ Finished + 1 \in arrived /\ Finished + 1 \in 1 .. putCounter
         /\ Indexes(Tail(toClient)) \subseteq Indexes(toClient)
<1> DEFINE i == Head(toClient).index
<1>1. Types /\ toClient # <<>> /\ Head(toClient).kind = "put"
  BY DEF OnPutAnswer, Answer, QInv
<1>2. toClient \in Seq(Answers)
  BY <1>1, QueueFacts
<1>3. CanSend
  BY <1>1, HeadKinds DEF QInv, CanSend
<1>4. /\ i \in Indexes(toClient) /\ Indexes(Tail(toClient)) \subseteq Indexes(toClient)
      /\ \A j \in Indexes(toClient) : j = i \/ i < j
  BY <1>1, <1>2, TakenPlaces DEF QInv, PutsInOrder
<1>5. \A j \in puts : j = i \/ i < j
  BY <1>3, <1>4 DEF QInv, PutsInOrder
<1>6. i \in puts
  BY <1>3, <1>4 DEF QInv, PutsInOrder
<1>7. Finished \in Nat /\ putCounter \in Nat
  BY <1>1, Lengths
<1>8. puts = Finished + 1 .. putCounter
  BY DEF InOrder, Intervals
<1>9. i = Finished + 1 /\ i \in 1 .. putCounter
  BY <1>5, <1>6, <1>7, <1>8
<1>10. QED
  BY <1>3, <1>4, <1>9 DEF InOrder, ArrivedInOrder

LEMMA PutAnswerKeepsOrder ==
  ASSUME QInv, InOrder, OnPutAnswer
  PROVE  InOrder'
<1> DEFINE i == Finished + 1
<1>1. /\ CanSend /\ Head(toClient).index = i /\ i \in arrived /\ i \in 1 .. putCounter
      /\ Indexes(Tail(toClient)) \subseteq Indexes(toClient)
  BY AnsweredNext
<1>2. /\ puts' = puts \ {i} /\ toClient' = Tail(toClient)
      /\ IF unacked = 0 THEN completed' = Append(completed, i) /\ putsToAck' = putsToAck
                        ELSE putsToAck' = Append(putsToAck, i) /\ completed' = completed
      /\ UNCHANGED <<state, unacked, listens, arrived, putCounter>>
  BY <1>1 DEF OnPutAnswer, asked
<1>3. Types
  BY DEF QInv
<1>4. /\ Done \in Nat /\ Waiting \in Nat /\ Finished = Done + Waiting /\ putCounter \in Nat
      /\ completed \in Seq(1 .. putCounter) /\ putsToAck \in Seq(1 .. putCounter)
      /\ putsToAck # <<>> <=> Waiting > 0
  BY <1>3, Lengths DEF Types, WorkTypes, Finished
<1>5. puts' = i + 1 .. putCounter
  <2>1. puts = i .. putCounter /\ i \in Nat
    BY <1>4 DEF InOrder, Intervals
  <2> HIDE DEF i
  <2>2. QED
    BY <1>2, <1>4, <2>1
<1>6. \A n \in Nat : 1 .. n + 1 = (1 .. n) \cup {n + 1}
  OBVIOUS
<1>7. 1 .. i \subseteq arrived
  BY <1>1 DEF InOrder, ArrivedInOrder
<1>8. CASE unacked = 0
  <2>1. Waiting = 0 /\ putsToAck' = putsToAck
    BY <1>1, <1>2, <1>4, <1>8 DEF InOrder, WaitsForListens
  <2>2. /\ Len(completed') = Done + 1 /\ completed'[Done + 1] = i
        /\ \A n \in 1 .. Done : completed'[n] = completed[n]
    <3> HIDE DEF i
    <3>1. completed' = Append(completed, i)
      BY <1>2, <1>8
    <3>2. QED
      BY <1>1, <1>4, <3>1, AppendProperties, Appended DEF Done
  <2>3. Done' = Done + 1 /\ Waiting' = 0 /\ Finished' = i /\ i = Done + 1
    BY <1>4, <2>1, <2>2 DEF Done, Waiting, Finished
  <2>4. \A n \in 1 .. Done' : completed'[n] = n
    BY <1>4, <1>6, <2>2, <2>3 DEF InOrder, Intervals
  <2>5. Intervals'
    BY <1>1, <1>2, <1>5, <2>3, <2>4 DEF Intervals
  <2>6. ArrivedInOrder'
    BY <1>1, <1>2, <1>7, <2>3 DEF InOrder, ArrivedInOrder
  <2>7. WaitsForListens'
    BY <1>2, <2>1 DEF InOrder, WaitsForListens, CanSend
  <2>8. QED
    BY <2>5, <2>6, <2>7 DEF InOrder
<1>9. CASE unacked # 0
  <2>1. unacked > 0
    <3>1. unacked \in Nat
      BY <1>3, QueueFacts DEF QInv, CountIsExact, Count
    <3>2. QED
      BY <1>9, <3>1
  <2>2. /\ Len(putsToAck') = Waiting + 1 /\ putsToAck'[Waiting + 1] = i
        /\ \A n \in 1 .. Waiting : putsToAck'[n] = putsToAck[n]
    <3> HIDE DEF i
    <3>1. putsToAck' = Append(putsToAck, i)
      BY <1>2, <1>9
    <3>2. QED
      BY <1>1, <1>4, <3>1, AppendProperties, Appended DEF Waiting
  <2>3. Done' = Done /\ Waiting' = Waiting + 1 /\ Finished' = i /\ i = Done + (Waiting + 1)
    BY <1>2, <1>4, <1>9, <2>2 DEF Done, Waiting, Finished
  <2>4. \A n \in 1 .. Waiting' : putsToAck'[n] = Done + n
    BY <1>4, <1>6, <2>2, <2>3 DEF InOrder, Intervals
  <2>5. Intervals'
    BY <1>1, <1>2, <1>5, <1>9, <2>3, <2>4 DEF InOrder, Intervals
  <2>6. ArrivedInOrder'
    BY <1>1, <1>2, <1>7, <2>3 DEF InOrder, ArrivedInOrder
  <2>7. WaitsForListens'
    BY <1>2, <2>1 DEF InOrder, WaitsForListens, CanSend
  <2>8. QED
    BY <2>5, <2>6, <2>7 DEF InOrder
<1>10. QED
  BY <1>8, <1>9

LEMMA ListenAnswerKeepsOrder ==
  ASSUME QInv, SignedIn, InOrder, OnListenAnswer
  PROVE  /\ InOrder'
         /\ unacked = 1 => Done' = Finished /\ Waiting' = 0
         /\ unacked # 1 => completed' = completed
<1>1. Types /\ toClient # <<>> /\ Head(toClient).kind = "listen"
  BY DEF OnListenAnswer, Answer, QInv
<1>2. /\ toClient' = Tail(toClient) /\ unacked' = unacked - 1
      /\ IF unacked = 1 THEN completed' = completed \o putsToAck /\ putsToAck' = <<>>
                        ELSE completed' = completed /\ putsToAck' = putsToAck
      /\ UNCHANGED <<state, arrived, puts, putCounter>>
  BY DEF OnListenAnswer, asked
<1>3. listens \subseteq listens'
  BY ListensStayNext DEF Next, Answered
<1>4. /\ Done \in Nat /\ Waiting \in Nat /\ Finished = Done + Waiting /\ putCounter \in Nat
      /\ completed \in Seq(1 .. putCounter) /\ putsToAck \in Seq(1 .. putCounter)
  BY <1>1, Lengths DEF Types, WorkTypes, Finished
<1>5. unacked \in Nat \ {0} /\ Indexes(Tail(toClient)) \subseteq Indexes(toClient)
  <2>1. toClient \in Seq(Answers) /\ toServer \in Seq(Requests)
    BY <1>1, QueueFacts
  <2>2. /\ Count(toClient, "listen") = Count(Tail(toClient), "listen") + 1
        /\ Indexes(Tail(toClient)) \subseteq Indexes(toClient)
    BY <1>1, <2>1, TakenPlaces
  <2>3. Count(Tail(toClient), "listen") \in Nat /\ Count(toServer, "listen") \in Nat
    BY <1>1, <2>1, Taken, Places
  <2>4. QED
    BY <2>2, <2>3 DEF QInv, CountIsExact, Count
<1>6. CASE unacked = 1
  <2>1. putsToAck' = <<>> /\ unacked' = 0
    BY <1>2, <1>6
  <2>2. /\ Len(completed') = Done + Waiting
        /\ \A n \in 1 .. Done : completed'[n] = completed[n]
        /\ \A n \in 1 .. Waiting : completed'[Done + n] = putsToAck[n]
    BY <1>2, <1>4, <1>6, Joined, ConcatProperties DEF Done, Waiting
  <2>3. Done' = Finished /\ Waiting' = 0 /\ Finished' = Finished
    BY <1>4, <2>1, <2>2, NoPlaces DEF Done, Waiting, Finished
  <2>4. \A n \in 1 .. Finished : completed'[n] = n
    <3>1. SUFFICES ASSUME NEW n \in 1 .. Finished PROVE completed'[n] = n
      OBVIOUS
    <3>2. n \in 1 .. Done \/ (n - Done \in 1 .. Waiting /\ Done + (n - Done) = n)
      BY <1>4
    <3>3. QED
      BY <2>2, <3>2 DEF InOrder, Intervals
  <2>5. Intervals'
    BY <1>2, <2>3, <2>4 DEF InOrder, Intervals
  <2>6. ArrivedInOrder'
    BY <1>2, <1>5, <2>3 DEF InOrder, ArrivedInOrder
  <2>7. WaitsForListens'
    BY <2>1 DEF WaitsForListens
  <2>8. QED
    BY <1>6, <2>3, <2>5, <2>6, <2>7 DEF InOrder
<1>7. CASE unacked # 1
  <2>1. completed' = completed /\ putsToAck' = putsToAck
    BY <1>2, <1>7
  <2>2. Done' = Done /\ Waiting' = Waiting /\ Finished' = Finished
    BY <2>1 DEF Done, Waiting, Finished
  <2>3. Intervals'
    BY <1>2, <2>1, <2>2 DEF InOrder, Intervals
  <2>4. ArrivedInOrder'
    BY <1>2, <1>5, <2>2 DEF InOrder, ArrivedInOrder
  <2>5. unacked > 0 /\ unacked' > 0
    BY <1>2, <1>5, <1>7
  <2>6. WaitsForListens'
    BY <1>2, <1>3, <2>1, <2>5 DEF InOrder, WaitsForListens
  <2>7. QED
    BY <1>7, <2>1, <2>3, <2>4, <2>6 DEF InOrder
<1>8. QED
  BY <1>6, <1>7

\* A put arrives again, or it is the next one.
LEMMA ArrivesNext ==
  ASSUME QInv, InOrder, ServerPut
  PROVE  LET i == Head(toServer).index
         IN  /\ arrived' = arrived \cup {i} /\ i \in 1 .. putCounter
             /\ \A j \in 1 .. i - 1 : j \in arrived
             /\ Indexes(toClient') = Indexes(toClient) \cup {i}
<1> DEFINE i == Head(toServer).index
<1>1. /\ Types /\ toServer # <<>> /\ Head(toServer).kind = "put"
      /\ arrived' = arrived \cup {i} /\ toClient' = Append(toClient, PutAnswer(i))
  BY DEF ServerPut, Request, QInv
<1>2. toServer \in Seq(Requests) /\ toClient \in Seq(Answers) /\ Head(toServer) \in Requests
  BY <1>1, QueueFacts, Requested
<1>3. i \in 1 .. putCounter
  BY <1>1, <1>2, Kinds DEF Types
<1>4. CanSend
  <2>1. Has(toServer, {"put", "get"})
    BY <1>1, <1>2, TakenPlaces
  <2>2. QED
    BY <2>1 DEF QInv, Turns, WorkLast
<1>5. \A j \in Indexes(toServer) : j = i \/ i < j
  BY <1>1, <1>2, TakenPlaces DEF QInv, PutsInOrder
<1>6. ASSUME NEW j \in 1 .. i - 1 PROVE j \in arrived
  <2>1. /\ Finished \in Nat /\ putCounter \in Nat /\ j \in Nat /\ j < i /\ i \in Nat
        /\ j <= putCounter /\ j >= 1
    BY <1>1, <1>3, <1>6, Lengths
  <2>2. CASE j \in 1 .. Finished
    BY <2>2 DEF InOrder, ArrivedInOrder
  <2>3. CASE j \notin 1 .. Finished
    <3>1. j \in Finished + 1 .. putCounter
      BY <2>1, <2>3
    <3>2. j \in puts
      BY <3>1 DEF InOrder, Intervals
    <3>3. j \notin Indexes(toServer)
      BY <1>5, <2>1
    <3>4. j \in Indexes(toClient)
      BY <1>4, <3>2, <3>3 DEF QInv, PutsInOrder
    <3>5. QED
      BY <3>4 DEF InOrder, ArrivedInOrder
  <2>4. QED
    BY <2>2, <2>3
<1>7. Indexes(toClient') = Indexes(toClient) \cup {i}
  <2>1. PutAnswer(i) \in Answers /\ PutAnswer(i).kind = "put" /\ PutAnswer(i).index = i
    BY <1>3 DEF PutAnswer, Answers
  <2>2. QED
    BY <1>1, <1>2, <2>1, AppendedPlaces
<1>8. QED
  BY <1>1, <1>3, <1>6, <1>7

LEMMA ServerPutKeepsOrder ==
  ASSUME QInv, InOrder, ServerPut
  PROVE  InOrder'
<1> DEFINE i == Head(toServer).index
<1>1. /\ arrived' = arrived \cup {i} /\ i \in 1 .. putCounter
      /\ \A j \in 1 .. i - 1 : j \in arrived
      /\ Indexes(toClient') = Indexes(toClient) \cup {i}
  BY ArrivesNext
<1>2. UNCHANGED <<state, unacked, listens, puts, putsToAck, completed, putCounter>>
  BY DEF ServerPut, work, asked
<1>3. Finished' = Finished /\ Done' = Done /\ Waiting' = Waiting
  BY <1>2 DEF Done, Waiting, Finished
<1>4. Intervals'
  BY <1>2, <1>3 DEF InOrder, Intervals
<1>5. ArrivedInOrder'
  <2>1. i \in Nat /\ 1 .. i = (1 .. i - 1) \cup {i}
    BY <1>1, Lengths DEF QInv
  <2>2. 1 .. i \subseteq arrived'
    BY <1>1, <2>1
  <2> HIDE DEF i
  <2>3. QED
    BY <1>1, <1>3, <2>2 DEF InOrder, ArrivedInOrder
<1>6. WaitsForListens'
  BY <1>2 DEF InOrder, WaitsForListens, CanSend
<1>7. QED
  BY <1>4, <1>5, <1>6 DEF InOrder

\* Listens are sent again, and all of them are counted.
LEMMA RestoringWaits ==
  ASSUME QInv, WaitsForListens, Restoring, putsToAck' = putsToAck, listens \subseteq listens',
         UNCHANGED <<issued, listened, putCounter, getCounter>>
  PROVE  WaitsForListens'
<1>1. /\ unacked' = unacked + Cardinality(listens) /\ Cardinality(listens) \in Nat
      /\ unacked \in Nat /\ IsFiniteSet(listens)
  <2>1. Types /\ unacked' = unacked + Cardinality(listens) /\ Cardinality(listens) \in Nat
    BY RestoringFacts DEF QInv
  <2>2. unacked \in Nat
    BY <2>1, QueueFacts DEF QInv, CountIsExact, Count
  <2>3. IsFiniteSet(listens)
    BY <2>1, FS_Subset DEF Types, WorkTypes
  <2>4. QED
    BY <2>1, <2>2, <2>3
<1>2. listens = {} <=> Cardinality(listens) = 0
  BY <1>1, FS_EmptySet
<1>3. QED
  BY <1>1, <1>2 DEF WaitsForListens

\* A step that numbers, completes and delivers no put.
LEMMA OthersKeepOrder ==
  ASSUME QInv, SignedIn, InOrder, [Next]_vars,
         UNCHANGED <<putCounter, puts, putsToAck, completed, arrived>>
  PROVE  InOrder'
<1>1. Finished' = Finished /\ Done' = Done /\ Waiting' = Waiting
  BY DEF Done, Waiting, Finished
<1>2. Intervals'
  BY <1>1 DEF InOrder, Intervals
<1>3. /\ listens \subseteq listens' /\ Grows
      /\ Restoring => UNCHANGED <<issued, listened, putCounter, getCounter>>
  BY ListensStayNext, StepsGrow DEF QInv
<1>4. /\ Types /\ unacked \in Nat /\ toClient \in Seq(Answers) /\ toServer \in Seq(Requests)
  BY QueueFacts DEF QInv, CountIsExact, Count
<1>5. /\ Intervals' /\ (Indexes(toClient') \subseteq arrived => ArrivedInOrder')
  BY <1>1, <1>2 DEF InOrder, ArrivedInOrder
<1>6. Indexes(toClient) \subseteq arrived /\ WaitsForListens
  BY DEF InOrder, ArrivedInOrder
<1>7. ASSUME toClient # <<>> PROVE Indexes(Tail(toClient)) \subseteq arrived
  BY <1>4, <1>6, <1>7, TakenPlaces
<1>8. CASE Silent
  <2>1. toClient' = toClient /\ unacked' = unacked /\ (CanSend' => CanSend)
    BY <1>8 DEF Silent, CanSend, IsConnected
  <2>2. WaitsForListens'
    BY <1>3, <1>6, <2>1 DEF WaitsForListens
  <2>3. QED
    BY <1>5, <1>6, <2>1, <2>2 DEF InOrder
<1>9. CASE Closing
  <2>1. toClient' = <<>> /\ unacked' = 0 /\ ~ CanSend'
    BY <1>9 DEF Closing, CanSend
  <2>2. WaitsForListens' /\ Indexes(toClient') = {}
    BY <1>3, <1>6, <2>1, NoPlaces DEF WaitsForListens
  <2>3. QED
    BY <1>5, <2>2 DEF InOrder
<1>10. ASSUME NEW r, Sending(r) PROVE InOrder'
  <2>1. /\ toClient' = toClient /\ state' = state
        /\ unacked' = unacked + (IF r.kind = "listen" THEN 1 ELSE 0)
        /\ r.kind = "listen" => listens' # {}
    BY <1>10 DEF Sending
  <2>2. WaitsForListens'
    BY <1>3, <1>4, <1>6, <2>1 DEF WaitsForListens, CanSend
  <2>3. QED
    BY <1>5, <1>6, <2>1, <2>2 DEF InOrder
<1>11. CASE Starting
  <2>1. toClient' = toClient /\ unacked' = unacked /\ ~ CanSend'
    BY <1>11 DEF Starting, CanSend
  <2>2. WaitsForListens'
    BY <1>3, <1>6, <2>1 DEF WaitsForListens
  <2>3. QED
    BY <1>5, <1>6, <2>1, <2>2 DEF InOrder
<1>12. CASE Restoring
  <2>1. toClient' = toClient \/ (toClient # <<>> /\ toClient' = Tail(toClient))
    BY <1>12 DEF Restoring
  <2>2. WaitsForListens'
    BY <1>3, <1>6, <1>12, RestoringWaits
  <2>3. QED
    BY <1>5, <1>6, <1>7, <2>1, <2>2 DEF InOrder
<1>13. CASE Receiving
  <2>1. /\ toClient # <<>> /\ toClient' = Tail(toClient) /\ CanSend
        /\ unacked' = unacked - (IF Head(toClient).kind = "listen" THEN 1 ELSE 0)
        /\ Head(toClient).kind = "listen" /\ unacked = 1 => putsToAck = <<>>
    BY <1>13 DEF Receiving, CanSend
  <2>2. WaitsForListens'
    BY <1>3, <1>4, <1>6, <2>1 DEF WaitsForListens
  <2>3. QED
    BY <1>5, <1>7, <2>1, <2>2 DEF InOrder
<1>14. CASE Serving
  <2>1. /\ Head(toServer).kind = "put" => Head(toServer).index \in arrived
        /\ UNCHANGED <<state, unacked>>
    BY <1>14 DEF Serving
  <2> DEFINE r == Head(toServer)
  <2>2. /\ r.kind = "put" => AnswerTo(r).index = r.index
        /\ AnswerTo(r).kind = r.kind /\ AnswerTo(r) \in Answers
        /\ toClient' = Append(toClient, AnswerTo(r))
    BY <1>4, <1>14, ServedSignedIn, AnswersAreAnswers DEF QInv, SignedIn
  <2>3. Indexes(toClient') \subseteq arrived
    BY <1>4, <1>6, <2>1, <2>2, AppendedPlaces
  <2>4. WaitsForListens'
    BY <1>3, <1>6, <2>1 DEF WaitsForListens, CanSend
  <2>5. QED
    BY <1>5, <2>3, <2>4 DEF InOrder
<1>15. ASSUME NEW a, Telling(a) PROVE InOrder'
  <2>1. /\ a \in Answers /\ a.kind # "put" /\ toClient' = Append(toClient, a)
        /\ UNCHANGED <<state, unacked>>
    BY <1>15 DEF Telling
  <2>2. Indexes(toClient') \subseteq arrived
    BY <1>4, <1>6, <2>1, AppendedPlaces
  <2>3. WaitsForListens'
    BY <1>3, <1>6, <2>1 DEF WaitsForListens, CanSend
  <2>4. QED
    BY <1>5, <2>2, <2>3 DEF InOrder
<1>16. QED
  BY <1>8, <1>9, <1>10, <1>11, <1>12, <1>13, <1>14, <1>15, Shapes DEF QInv

LEMMA InOrderNext == QInv /\ SignedIn /\ InOrder /\ [Next]_vars => InOrder'
<1> SUFFICES ASSUME QInv, SignedIn, InOrder, [Next]_vars PROVE InOrder'
  OBVIOUS
<1>1. Types
  BY DEF QInv
<1>2. QED
  BY <1>1, Books, PutKeepsOrder, PutAnswerKeepsOrder, ListenAnswerKeepsOrder, ServerPutKeepsOrder,
     OthersKeepOrder

LEMMA InOrderInit == Init => InOrder
<1> SUFFICES ASSUME Init PROVE InOrder
  OBVIOUS
<1>1. /\ completed = <<>> /\ putsToAck = <<>> /\ puts = {} /\ putCounter = 0 /\ arrived = {}
      /\ toClient = <<>> /\ unacked = 0
  BY DEF Init
<1>2. Done = 0 /\ Waiting = 0 /\ Finished = 0
  BY <1>1, NoPlaces DEF Done, Waiting, Finished
<1>3. QED
  BY <1>1, <1>2, NoPlaces DEF InOrder, Intervals, ArrivedInOrder, WaitsForListens

-----------------------------------------------------------------------------
(* The theorems.                                                           *)

OInv == QInv /\ SignedIn /\ InOrder

\* The whole invariant, while somebody stays signed in.
THEOREM OutboxInvariance == StaysSignedIn => (Spec => []OInv)
<1> SUFFICES ASSUME StaysSignedIn PROVE Spec => []OInv
  OBVIOUS
<1>1. Init => OInv
  BY QInvInit, SignedInInit, InOrderInit DEF OInv
<1>2. OInv /\ [Next]_vars => OInv'
  BY QInvNext, SignedInNext, InOrderNext DEF OInv
<1>3. QED
  BY <1>1, <1>2, PTL DEF Spec

\* No refused or expired token, no lost connection and no listen sent before the token
\* was accepted ever costs a listen.
THEOREM ListensAreKept == StaysSignedIn => (Spec => ListensStay)
<1> SUFFICES ASSUME StaysSignedIn PROVE Spec => ListensStay
  OBVIOUS
<1>1. OInv /\ [Next]_vars => [listens \subseteq listens']_vars
  BY ListensStayNext DEF OInv
<1>2. Spec => []OInv
  BY OutboxInvariance
<1>3. QED
  BY <1>1, <1>2, PTL DEF Spec, ListensStay

-----------------------------------------------------------------------------
(* The queue of puts, step by step.                                        *)

LEMMA CountedUp ==
  ASSUME NEW S, NEW s \in Seq(S), \A n \in 1 .. Len(s) : s[n] = n
  PROVE  s = Outbox!UpTo(Len(s))
<1>1. DOMAIN s = 1 .. Len(s) /\ s = [n \in DOMAIN s |-> s[n]]
  BY LenProperties
<1>2. QED
  BY <1>1 DEF Outbox!UpTo

LEMMA OutboxStep ==
  ASSUME OInv, OInv', [Next]_vars
  PROVE  [Outbox!Next]_(Outbox!vars)
<1>1. /\ Types /\ Intervals /\ Intervals' /\ QInv /\ InOrder /\ SignedIn /\ ArrivedInOrder'
      /\ Types'
  BY DEF OInv, QInv, InOrder
<1>2. /\ Done \in Nat /\ Finished \in Nat /\ Waiting \in Nat /\ Finished = Done + Waiting
      /\ putCounter \in Nat /\ Len(completed) = Done
  BY <1>1, Lengths DEF Finished, Done
<1>3. completed = Outbox!UpTo(Done) /\ completed' = Outbox!UpTo(Done')
  <2>1. completed \in Seq(1 .. putCounter) /\ completed' \in Seq(1 .. putCounter')
    BY <1>1 DEF Types, WorkTypes
  <2>2. /\ \A n \in 1 .. Len(completed) : completed[n] = n
        /\ \A n \in 1 .. Len(completed') : completed'[n] = n
    BY <1>1 DEF Intervals, Done
  <2>3. QED
    BY <2>1, <2>2, CountedUp DEF Done
<1>4. CASE Put
  BY <1>4 DEF Put, history, Outbox!Next, Outbox!Issue
<1>5. CASE OnPutAnswer
  <2>1. Finished + 1 \in arrived
    BY <1>1, <1>5, AnsweredNext
  <2>2. UNCHANGED <<putCounter, arrived>>
    BY <1>5 DEF OnPutAnswer, asked
  <2>3. CASE unacked = 0
    <3>1. Waiting = 0 /\ Done' = Done + 1
      <4>1. CanSend /\ Head(toClient).index = Finished + 1 /\ Finished + 1 \in 1 .. putCounter
        BY <1>1, <1>5, AnsweredNext
      <4>2. Waiting = 0
        BY <1>1, <2>3, <4>1, Lengths DEF InOrder, WaitsForListens
      <4>3. completed' = Append(completed, Finished + 1) /\ completed \in Seq(1 .. putCounter)
        BY <1>1, <1>5, <2>3, <4>1 DEF OnPutAnswer, Types, WorkTypes
      <4>4. QED
        BY <4>1, <4>2, <4>3, AppendProperties DEF Done
    <3>2. Done + 1 \in arrived /\ Done + 1 > Len(completed) /\ completed' = Outbox!UpTo(Done + 1)
      BY <1>2, <1>3, <2>1, <3>1
    <3>3. QED
      BY <2>2, <3>2 DEF Outbox!Next, Outbox!Complete
  <2>4. CASE unacked # 0
    <3>1. completed' = completed
      BY <1>5, <2>4 DEF OnPutAnswer
    <3>2. QED
      BY <2>2, <3>1 DEF Outbox!vars
  <2>5. QED
    BY <2>3, <2>4
<1>6. CASE OnListenAnswer
  <2>1. UNCHANGED <<putCounter, arrived>>
    BY <1>6 DEF OnListenAnswer, asked
  <2>2. unacked = 1 => Done' = Finished
    BY <1>1, <1>6, ListenAnswerKeepsOrder
  <2>3. unacked # 1 => completed' = completed
    BY <1>1, <1>6, ListenAnswerKeepsOrder
  <2>4. CASE unacked = 1 /\ Waiting # 0
    <3>1. Finished \in arrived /\ Finished > Len(completed) /\ completed' = Outbox!UpTo(Finished)
      BY <1>1, <1>2, <1>3, <2>2, <2>4 DEF InOrder, ArrivedInOrder
    <3>2. QED
      BY <2>1, <3>1 DEF Outbox!Next, Outbox!Complete
  <2>5. CASE unacked = 1 /\ Waiting = 0
    <3>1. completed' = completed
      BY <1>2, <1>3, <2>2, <2>5
    <3>2. QED
      BY <2>1, <3>1 DEF Outbox!vars
  <2>6. QED
    BY <2>1, <2>3, <2>4, <2>5 DEF Outbox!vars
<1>7. CASE ServerPut
  <2> DEFINE i == Head(toServer).index
  <2>1. /\ arrived' = arrived \cup {i} /\ i \in 1 .. putCounter
        /\ \A j \in 1 .. i - 1 : j \in arrived
    BY <1>1, <1>7, ArrivesNext
  <2>2. UNCHANGED <<putCounter, completed>>
    BY <1>7 DEF ServerPut, asked
  <2> HIDE DEF i
  <2>3. CASE i \in arrived
    <3>1. arrived' = arrived
      BY <2>1, <2>3
    <3>2. QED
      BY <2>2, <3>1 DEF Outbox!vars
  <2>4. CASE i \notin arrived
    <3>1. \A j \in arrived : j \in 1 .. putCounter /\ 1 .. j \subseteq arrived
      BY <1>1 DEF Types, WorkTypes, InOrder, ArrivedInOrder
    <3>2. \A j \in arrived : j \in 1 .. i - 1
      <4>1. SUFFICES ASSUME NEW j \in arrived, j >= i PROVE FALSE
        BY <1>2, <2>1, <3>1
      <4>2. i \in 1 .. j
        BY <1>2, <2>1, <3>1, <4>1
      <4>3. QED
        BY <2>4, <3>1, <4>2
    <3>3. arrived = 1 .. i - 1
      BY <2>1, <3>2
    <3>4. QED
      BY <2>1, <2>2, <2>4, <3>3 DEF Outbox!Next, Outbox!Arrive
  <2>5. QED
    BY <2>3, <2>4
<1>8. CASE UNCHANGED <<putCounter, puts, putsToAck, completed, arrived>>
  BY <1>8 DEF Outbox!vars
<1>9. QED
  BY <1>1, <1>4, <1>5, <1>6, <1>7, <1>8, Books

\* Every step of the connection is a step of the queue of puts, or none: puts reach the
\* server in the order of their calls, whatever is sent again, and complete once and in
\* that order, whichever completions wait for the listens.
THEOREM ConnectionIsOutbox == StaysSignedIn => (Spec => Outbox!SafeSpec)
<1> SUFFICES ASSUME StaysSignedIn PROVE Spec => Outbox!SafeSpec
  OBVIOUS
<1>1. Init => Outbox!Init
  BY DEF Init, Outbox!Init
<1>2. OInv /\ OInv' /\ [Next]_vars => [Outbox!Next]_(Outbox!vars)
  BY OutboxStep
<1>3. Spec => []OInv
  BY OutboxInvariance
<1>4. QED
  BY <1>1, <1>2, <1>3, PTL DEF Spec, Outbox!SafeSpec
=============================================================================
