----------------------------- MODULE Connection -----------------------------
(***************************************************************************)
(* The connection of the Firebase client to the database server:           *)
(* FPersistentConnection, with the socket below it (FConnection) and the   *)
(* schedule of its attempts (FIRRetryHelper).                              *)
(*                                                                         *)
(* Every action but FIRAuth's and the server's is one block on the         *)
(* client's serial queue.  A connection is opened with a token fetched     *)
(* from FIRAuth; the fetch may be overtaken by an interruption, by another *)
(* attempt or by a change of the user.  What FIRAuth answers and what it   *)
(* posts about its token reaches the queue in the order in which it came   *)
(* about, later than that (posts): both go over the main queue, and are    *)
(* dispatched from there.  Listens, puts and gets are kept until they are  *)
(* answered, and sent (again) when a connection is restored.               *)
(*                                                                         *)
(* Abstractions.  Delays are left out: a scheduled attempt runs at some    *)
(* time.  A request number stands for a place in the FIFO: the callbacks   *)
(* of a connection are those of the requests and answers under way, for    *)
(* both are dropped as it closes.  Queries never come back: a query        *)
(* listened to again is another outstanding query.  Transactions, merges   *)
(* and onDisconnect operations, which this app does not use, are left out. *)
(***************************************************************************)
EXTENDS Integers, Sequences, FiniteSets

CONSTANTS
  Queries,      \* queries somebody may listen to
  MaxPuts,      \* bound of the model: puts in all
  MaxGets,      \* bound: gets in all
  StartTokens,  \* tokens at the start: 0 for nobody signed in, 1 for a user
  Events,       \* names of what may happen a bounded number of times
  Budget        \* bound: how often each event may happen

ASSUME ConnectionAssumption ==
  /\ {MaxPuts, MaxGets} \subseteq Nat
  /\ StartTokens \subseteq {0, 1}
  /\ Events = {"drop", "signal", "error", "interrupt", "expire", "signOut", "newToken",
               "unlisten", "revoke"}
  /\ Budget \in [Events -> Nat]

VARIABLES
  state,          \* connectionState
  reasons,        \* interruptReasons
  retry,          \* the scheduled attempt: "none", "plain" or "forced" (token refresh)
  force,          \* forceTokenRefreshes
  attempt,        \* currentFetchTokenAttempt
  fetches,        \* token fetches under way
  authToken,      \* the token the connection is opened with, or NoToken
  listens,        \* the queries listened to
  unacked,        \* unackedListensCount
  puts,           \* the indexes of outstandingPuts
  putsToAck,      \* answered puts whose completion waits for the listens
  gets,           \* the indexes of outstandingGets
  sentGets,       \* those with the flag sent
  timedGets,      \* gets with a timer running
  toServer,       \* requests under way
  toClient,       \* answers and pushes under way
  session,        \* the server's side: the token the connection is authenticated with
  watched,        \* the server's side: the queries it serves
  cached,         \* FIRAuth: the token of the current user, or NoToken
  issued,         \* FIRAuth: tokens issued so far
  posts,          \* FIRAuth: answers and changes on their way to the client's queue
  expired,        \* tokens the server no longer accepts
  putCounter, getCounter, listened,   \* puts, gets and queries asked for so far
  arrived,        \* history: puts the server has seen
  completed,      \* history: puts in the order of their completions
  answered,       \* history: gets that completed
  overtaken,      \* history: did a fetch bring an outdated token?
  unrefreshed,    \* history: a token was refused or revoked and not refreshed since
  budget          \* what may still happen

token    == <<force, attempt, fetches, authToken>>
work     == <<listens, puts, putsToAck, gets, sentGets, timedGets>>
network  == <<toServer, toClient>>
server   == <<session, watched>>
auth     == <<cached, issued, expired, posts>>
asked    == <<putCounter, getCounter, listened>>
history  == <<arrived, completed, answered, overtaken, unrefreshed>>
vars == <<state, reasons, retry, token, unacked, work, network, server, auth, asked,
          history, budget>>

-----------------------------------------------------------------------------
NoToken == 0

Auth(t, restore) == [kind |-> "auth", token |-> t, restore |-> restore]
Unauth           == [kind |-> "unauth"]
SendListen(q)    == [kind |-> "listen", query |-> q]
SendUnlisten(q)  == [kind |-> "unlisten", query |-> q]
SendPut(i)       == [kind |-> "put", index |-> i]
SendGet(i)       == [kind |-> "get", index |-> i]

AuthAnswer(ok, restore) == [kind |-> "auth", ok |-> ok, restore |-> restore]
ListenAnswer(q, ok)     == [kind |-> "listen", query |-> q, ok |-> ok]
PutAnswer(i)            == [kind |-> "put", index |-> i]
GetAnswer(i)            == [kind |-> "get", index |-> i]
AuthRevoked             == [kind |-> "authRevoked"]
ListenRevoked(q)        == [kind |-> "listenRevoked", query |-> q]

TokenPost(t)    == [kind |-> "token", token |-> t]
FetchPost(f, t) == [kind |-> "fetch", fetch |-> f, token |-> t]
FailurePost(f)  == [kind |-> "failure", fetch |-> f]

Spend(event) ==
  budget[event] > 0 /\ budget' = [budget EXCEPT ![event] = @ - 1]

\* There is a realtime connection; it is connected; it can send writes and reads.
Realtime == state \in {"connecting", "authenticating", "connected"}
IsConnected == state \in {"authenticating", "connected"}
CanSend == state = "connected"

\* The listens are sent in any order: they are the keys of a dictionary.
Orders(S) == {s \in [1 .. Cardinality(S) -> S] : \A q \in S : \E n \in DOMAIN s : s[n] = q}

\* Puts and gets are sent in the order of their indexes.
Sorted(S) == {s \in Orders(S) : \A m, n \in DOMAIN s : m < n => s[m] < s[n]}

-----------------------------------------------------------------------------
(* Attempts to connect.                                                    *)

\* tryScheduleReconnect, given the interruptions and the flag: the flag goes into
\* the scheduled attempt, which replaces the one scheduled before.
Schedule(rs, f) ==
  IF rs = {}
    THEN retry' = (IF f THEN "forced" ELSE "plain") /\ force' = FALSE
    ELSE retry' = retry /\ force' = f

\* Mutant of Close: the count of unanswered listens survives.
CloseKeepingCount(rs, f) ==
  /\ state' = "disconnected"
  /\ toServer' = <<>> /\ toClient' = <<>>
  /\ session' = NoToken /\ watched' = {}
  /\ unacked' = unacked
  /\ Schedule(rs, f)

\* onDisconnect: whatever is under way is lost, its callbacks are dropped.
Close(rs, f) ==
  /\ state' = "disconnected"
  /\ toServer' = <<>> /\ toClient' = <<>>
  /\ session' = NoToken /\ watched' = {}
  /\ unacked' = 0
  /\ Schedule(rs, f)

\* resumeForReason, by open, by goOnline: without interruptions, connect.
Resume(r) ==
  /\ r \in reasons
  /\ r # "serverKill"
  /\ reasons' = reasons \ {r}
  /\ IF state = "disconnected" THEN Schedule(reasons', force) ELSE UNCHANGED <<retry, force>>
  /\ UNCHANGED <<state, attempt, fetches, authToken, unacked, work, network, server, auth,
                 asked, history, budget>>

\* Mutant of Interrupt: the attempt that is scheduled stays.
InterruptKeepingRetry(r) ==
  /\ reasons' = reasons \cup {r}
  /\ IF Realtime THEN Close(reasons', force)
                 ELSE /\ state' = "disconnected"
                      /\ UNCHANGED <<retry, force, unacked, network, server>>
  /\ UNCHANGED <<attempt, fetches, authToken, work, auth, asked, history>>

\* interruptForReason: the connection closes, or the scheduled attempt is cancelled.
Interrupt(r) ==
  /\ reasons' = reasons \cup {r}
  /\ IF Realtime THEN Close(reasons', force)
                 ELSE /\ state' = "disconnected"
                      /\ retry' = "none"
                      /\ UNCHANGED <<force, unacked, network, server>>
  /\ UNCHANGED <<attempt, fetches, authToken, work, auth, asked, history>>

\* FRepo.interrupt (goOffline, dispose).
GoOffline == Spend("interrupt") /\ Interrupt("repoInterrupt")

\* onKill: the server shuts the connection down.
ServerKill == Realtime /\ Spend("interrupt") /\ Interrupt("serverKill")

\* The app enters the foreground, or the network is reachable again.
Signal ==
  /\ state = "disconnected"
  /\ Spend("signal")
  /\ Schedule(reasons, force)
  /\ UNCHANGED <<state, reasons, attempt, fetches, authToken, unacked, work, network, server,
                 auth, asked, history>>

\* The scheduled block: the token is fetched.
RetryFires ==
  /\ retry # "none"
  /\ retry' = "none"
  /\ state' = "gettingToken"
  /\ attempt' = attempt + 1
  /\ fetches' = fetches \cup {[attempt |-> attempt', forced |-> retry = "forced", token |-> cached]}
  /\ UNCHANGED <<reasons, force, authToken, unacked, work, network, server, auth, asked,
                 history, budget>>

\* Mutant of Awaited: the result of an attempt that is over counts too.
AwaitedByAny(f) == state = "gettingToken"

\* Does the connection wait for this fetch?  Only for the latest attempt's, and not
\* after an interruption.
Awaited(f) == f.attempt = attempt /\ state = "gettingToken"

\* The block of the client's queue that is next, of those that come from FIRAuth.
Posted(kind) == posts # <<>> /\ Head(posts).kind = kind

\* A fetch that succeeded.
FetchSucceeds(f) ==
  /\ f \in fetches
  /\ Posted("fetch") /\ Head(posts).fetch = f
  /\ posts' = Tail(posts)
  /\ fetches' = fetches \ {f}
  /\ IF Awaited(f)
       THEN /\ state' = "connecting"
            /\ authToken' = Head(posts).token
            /\ overtaken' = (authToken' # cached)
            /\ unrefreshed' = (unrefreshed /\ ~ f.forced)
       ELSE UNCHANGED <<state, authToken, overtaken, unrefreshed>>
  /\ UNCHANGED <<reasons, retry, force, attempt, unacked, work, network, server, cached, issued,
                 expired, asked, arrived, completed, answered, budget>>

\* Mutant of FetchFails: no other attempt follows.
FetchFailsForGood(f) ==
  /\ f \in fetches
  /\ Posted("failure") /\ Head(posts).fetch = f
  /\ posts' = Tail(posts)
  /\ fetches' = fetches \ {f}
  /\ state' = IF f.attempt = attempt THEN "disconnected" ELSE state
  /\ UNCHANGED <<reasons, retry, force, attempt, authToken, unacked, work, network, server, cached,
                 issued, expired, asked, history, budget>>

\* A failed fetch: the latest attempt is followed by another one.
FetchFails(f) ==
  /\ f \in fetches
  /\ Posted("failure") /\ Head(posts).fetch = f
  /\ posts' = Tail(posts)
  /\ fetches' = fetches \ {f}
  /\ IF f.attempt = attempt
       THEN state' = "disconnected" /\ Schedule(reasons, force)
       ELSE UNCHANGED <<state, retry, force>>
  /\ UNCHANGED <<reasons, attempt, authToken, unacked, work, network, server, cached, issued,
                 expired, asked, history, budget>>

\* Mutant of TokenRequests: not while the first token is being accepted.
TokenRequestsWhenReady(t) == IF ~ CanSend THEN toServer
                             ELSE Append(toServer, IF t = NoToken THEN Unauth ELSE Auth(t, FALSE))

\* What is under way once refreshAuthToken has sent a token that changes while connected.
TokenRequests(t) == IF ~ IsConnected THEN toServer
                    ELSE Append(toServer, IF t = NoToken THEN Unauth ELSE Auth(t, FALSE))

\* refreshAuthToken: somebody signed in or out, or FIRAuth replaced the token.
OnTokenChange ==
  /\ Posted("token")
  /\ posts' = Tail(posts)
  /\ authToken' = Head(posts).token
  /\ toServer' = TokenRequests(Head(posts).token)
  /\ overtaken' = FALSE
  /\ unrefreshed' = FALSE
  /\ UNCHANGED <<state, reasons, retry, force, attempt, fetches, unacked, work, toClient, server,
                 cached, issued, expired, asked, arrived, completed, answered, budget>>

-----------------------------------------------------------------------------
(* FIRAuth: it answers fetches and posts every change of its token.        *)

\* A fetch that FIRAuth has not answered.
Unanswered(f) ==
  f \in fetches /\ \A n \in DOMAIN posts : posts[n].kind # "token" => posts[n].fetch # f

\* What no step of FIRAuth changes.
clients == <<state, reasons, retry, token, unacked, work, network, server, asked, history>>

\* FIRAuth replaces an expired token when it is forced to; it posts the new one
\* before it answers.
Refresh(f) ==
  /\ Unanswered(f)
  /\ f.forced /\ f.token = cached /\ cached \in expired
  /\ issued' = issued + 1
  /\ cached' = issued + 1
  /\ posts' = posts \o <<TokenPost(issued + 1), FetchPost(f, issued + 1)>>
  /\ UNCHANGED <<clients, expired, budget>>

\* Otherwise it answers with the token it has, or, when it has asked its own server on
\* behalf of the user the fetch was started for, with the one of that user.
AnswerFetch(f) ==
  /\ Unanswered(f)
  /\ ~ (f.forced /\ f.token = cached /\ cached \in expired)
  /\ \E t \in {cached} \cup ({f.token} \ {NoToken}) : posts' = Append(posts, FetchPost(f, t))
  /\ UNCHANGED <<clients, cached, issued, expired, budget>>

FailFetch(f) ==
  /\ Unanswered(f)
  /\ Spend("error")
  /\ posts' = Append(posts, FailurePost(f))
  /\ UNCHANGED <<clients, cached, issued, expired>>

\* Every change of the token is posted.
Change(t) == cached' = t /\ posts' = Append(posts, TokenPost(t)) /\ UNCHANGED <<clients, expired>>

NewToken == Spend("newToken") /\ issued' = issued + 1 /\ Change(issued + 1)

SignOut == cached # NoToken /\ Spend("signOut") /\ Change(NoToken) /\ UNCHANGED issued

-----------------------------------------------------------------------------
(* Opening and closing a connection.                                       *)

\* Mutants of RestoreState: the puts are not sorted; the gets are left out.
RestoreUnsorted(before) ==
  /\ \E ls \in Orders(listens), ps \in Orders(puts) :
       toServer' = before \o [n \in DOMAIN ls |-> SendListen(ls[n])]
                          \o [n \in DOMAIN ps |-> SendPut(ps[n])]
  /\ unacked' = unacked + Cardinality(listens)
  /\ sentGets' = sentGets
RestoreWithoutGets(before) ==
  /\ \E ls \in Orders(listens), ps \in Sorted(puts) :
       toServer' = before \o [n \in DOMAIN ls |-> SendListen(ls[n])]
                          \o [n \in DOMAIN ps |-> SendPut(ps[n])]
  /\ unacked' = unacked + Cardinality(listens)
  /\ sentGets' = sentGets

\* restoreState: the listens, the puts and the gets that were never sent, which
\* follow what is under way already.
RestoreState(before) ==
  /\ \E ls \in Orders(listens), ps \in Sorted(puts), gs \in Sorted(gets \ sentGets) :
       toServer' = before \o [n \in DOMAIN ls |-> SendListen(ls[n])]
                          \o [n \in DOMAIN ps |-> SendPut(ps[n])]
                          \o [n \in DOMAIN gs |-> SendGet(gs[n])]
  /\ unacked' = unacked + Cardinality(listens)
  /\ sentGets' = sentGets \cup gets

\* Mutant of OnReady: the state is restored before the token is accepted.
OnReadyAtOnce ==
  /\ state = "connecting"
  /\ state' = "connected"
  /\ RestoreState(<<>>)
  /\ UNCHANGED <<reasons, retry, token, listens, puts, putsToAck, gets, timedGets, toClient,
                 server, auth, asked, history, budget>>

\* onReady: restoreAuth.  Without a token, the state is restored at once.
OnReady ==
  /\ state = "connecting"
  /\ IF authToken = NoToken
       THEN state' = "connected" /\ RestoreState(<<>>)
       ELSE /\ state' = "authenticating"
            /\ toServer' = <<Auth(authToken, TRUE)>>
            /\ UNCHANGED <<unacked, sentGets>>
  /\ UNCHANGED <<reasons, retry, token, listens, puts, putsToAck, gets, timedGets, toClient,
                 server, auth, asked, history, budget>>

\* The socket closes, or the server resets the connection.
Drop ==
  /\ Realtime
  /\ Spend("drop")
  /\ Close(reasons, force)
  /\ UNCHANGED <<reasons, attempt, fetches, authToken, work, auth, asked, history>>

Answer(kind) == toClient # <<>> /\ Head(toClient).kind = kind

\* The token was refused or revoked: it is forgotten, and the connection closes to
\* come back with a refreshed one.
LoseToken ==
  /\ authToken' = NoToken
  /\ Close(reasons, TRUE)
  /\ unrefreshed' = TRUE

\* The answer to an auth request, also to one that only replaces the token.
OnAuthAnswer ==
  /\ Answer("auth")
  /\ LET answer == Head(toClient)
     IN  IF answer.ok
           THEN /\ state' = "connected"
                /\ toClient' = Tail(toClient)
                /\ IF answer.restore THEN RestoreState(toServer)
                                     ELSE UNCHANGED <<toServer, unacked, sentGets>>
                /\ UNCHANGED <<retry, force, authToken, server, unrefreshed>>
           ELSE LoseToken /\ UNCHANGED sentGets
  /\ UNCHANGED <<reasons, attempt, fetches, listens, puts, putsToAck, gets, timedGets, auth,
                 asked, arrived, completed, answered, overtaken, budget>>

OnAuthRevoked ==
  /\ Answer("authRevoked")
  /\ LoseToken
  /\ UNCHANGED <<reasons, attempt, fetches, work, auth, asked, arrived, completed, answered,
                 overtaken, budget>>

-----------------------------------------------------------------------------
(* Listens, puts and gets.                                                 *)

\* Mutant of Listen: a listen that is sent is not counted.
ListenUncounted(q) ==
  /\ q \notin listened
  /\ listened' = listened \cup {q}
  /\ listens' = listens \cup {q}
  /\ toServer' = IF IsConnected THEN Append(toServer, SendListen(q)) ELSE toServer
  /\ UNCHANGED <<state, reasons, retry, token, unacked, puts, putsToAck, gets, sentGets,
                 timedGets, toClient, server, auth, putCounter, getCounter, history, budget>>

\* listen: sent when connected, also before the token is accepted.
Listen(q) ==
  /\ q \notin listened
  /\ listened' = listened \cup {q}
  /\ listens' = listens \cup {q}
  /\ IF IsConnected THEN toServer' = Append(toServer, SendListen(q)) /\ unacked' = unacked + 1
                    ELSE UNCHANGED <<toServer, unacked>>
  /\ UNCHANGED <<state, reasons, retry, token, puts, putsToAck, gets, sentGets, timedGets,
                 toClient, server, auth, putCounter, getCounter, history, budget>>

Unlisten(q) ==
  /\ q \in listens
  /\ Spend("unlisten")
  /\ listens' = listens \ {q}
  /\ toServer' = IF IsConnected THEN Append(toServer, SendUnlisten(q)) ELSE toServer
  /\ UNCHANGED <<state, reasons, retry, token, unacked, puts, putsToAck, gets, sentGets,
                 timedGets, toClient, server, auth, asked, history>>

\* Mutant of OnListenAnswer: the completions that waited are forgotten.
OnListenAnswerOnly ==
  /\ Answer("listen")
  /\ toClient' = Tail(toClient)
  /\ LET answer == Head(toClient)
     IN  listens' = IF answer.ok THEN listens ELSE listens \ {answer.query}
  /\ unacked' = unacked - 1
  /\ putsToAck' = IF unacked = 1 THEN <<>> ELSE putsToAck
  /\ UNCHANGED <<state, reasons, retry, token, puts, gets, sentGets, timedGets, toServer, server,
                 auth, asked, history, budget>>

\* The answer to a listen: a refused query is removed; after the last one the puts
\* that waited complete (ackPuts).
OnListenAnswer ==
  /\ Answer("listen")
  /\ toClient' = Tail(toClient)
  /\ LET answer == Head(toClient)
     IN  listens' = IF answer.ok THEN listens ELSE listens \ {answer.query}
  /\ unacked' = unacked - 1
  /\ IF unacked = 1 THEN completed' = completed \o putsToAck /\ putsToAck' = <<>>
                    ELSE UNCHANGED <<completed, putsToAck>>
  /\ UNCHANGED <<state, reasons, retry, token, puts, gets, sentGets, timedGets, toServer, server,
                 auth, asked, arrived, answered, overtaken, unrefreshed, budget>>

OnListenRevoked ==
  /\ Answer("listenRevoked")
  /\ toClient' = Tail(toClient)
  /\ listens' = listens \ {Head(toClient).query}
  /\ UNCHANGED <<state, reasons, retry, token, unacked, puts, putsToAck, gets, sentGets,
                 timedGets, toServer, server, auth, asked, history, budget>>

\* Mutant of Put: sent as soon as there is a connection.
PutWhenConnected ==
  /\ putCounter < MaxPuts
  /\ putCounter' = putCounter + 1
  /\ puts' = puts \cup {putCounter'}
  /\ toServer' = IF IsConnected THEN Append(toServer, SendPut(putCounter')) ELSE toServer
  /\ UNCHANGED <<state, reasons, retry, token, unacked, listens, putsToAck, gets, sentGets,
                 timedGets, toClient, server, auth, getCounter, listened, history, budget>>

\* putData: kept under the next index, and sent once writes can be sent.
Put ==
  /\ putCounter < MaxPuts
  /\ putCounter' = putCounter + 1
  /\ puts' = puts \cup {putCounter'}
  /\ toServer' = IF CanSend THEN Append(toServer, SendPut(putCounter')) ELSE toServer
  /\ UNCHANGED <<state, reasons, retry, token, unacked, listens, putsToAck, gets, sentGets,
                 timedGets, toClient, server, auth, getCounter, listened, history, budget>>

\* The answer to a put: it completes, but not before the listens are answered.
OnPutAnswer ==
  /\ Answer("put")
  /\ toClient' = Tail(toClient)
  /\ LET i == Head(toClient).index
     IN  /\ puts' = puts \ {i}
         /\ IF unacked = 0 THEN completed' = Append(completed, i) /\ UNCHANGED putsToAck
                           ELSE putsToAck' = Append(putsToAck, i) /\ UNCHANGED completed
  /\ UNCHANGED <<state, reasons, retry, token, unacked, listens, gets, sentGets, timedGets,
                 toServer, server, auth, asked, arrived, answered, overtaken, unrefreshed, budget>>

\* getDataAtPath: sent when reads can be sent; without a connection, a timer runs.
Get ==
  /\ getCounter < MaxGets
  /\ getCounter' = getCounter + 1
  /\ gets' = gets \cup {getCounter'}
  /\ IF CanSend THEN /\ toServer' = Append(toServer, SendGet(getCounter'))
                     /\ sentGets' = sentGets \cup {getCounter'}
                ELSE UNCHANGED <<toServer, sentGets>>
  /\ timedGets' = IF IsConnected THEN timedGets ELSE timedGets \cup {getCounter'}
  /\ UNCHANGED <<state, reasons, retry, token, unacked, listens, puts, putsToAck, toClient,
                 server, auth, putCounter, listened, history, budget>>

OnGetAnswer ==
  /\ Answer("get")
  /\ toClient' = Tail(toClient)
  /\ LET i == Head(toClient).index
     IN  gets' = gets \ {i} /\ answered' = answered \cup {i}
  /\ UNCHANGED <<state, reasons, retry, token, unacked, listens, puts, putsToAck, sentGets,
                 timedGets, toServer, server, auth, asked, arrived, completed, overtaken,
                 unrefreshed, budget>>

\* The timer of a get: it fails, unless it was sent or answered meanwhile.
GetTimesOut(i) ==
  /\ i \in timedGets
  /\ timedGets' = timedGets \ {i}
  /\ IF i \in sentGets
       THEN UNCHANGED <<gets, sentGets, answered>>
       ELSE /\ gets' = gets \ {i}
            /\ sentGets' = sentGets \cup {i}
            /\ answered' = answered \cup {i}
  /\ UNCHANGED <<state, reasons, retry, token, unacked, listens, puts, putsToAck, network,
                 server, auth, asked, arrived, completed, overtaken, unrefreshed, budget>>

-----------------------------------------------------------------------------
(* The server (external): it answers in order, and serves those who are    *)
(* authenticated, the strictest rules a database can have.                 *)

Request(kind) == toServer # <<>> /\ Head(toServer).kind = kind

ServerAuth ==
  /\ Request("auth")
  /\ toServer' = Tail(toServer)
  /\ LET request == Head(toServer)
         ok      == request.token \notin expired
     IN  /\ session' = IF ok THEN request.token ELSE NoToken
         /\ toClient' = Append(toClient, AuthAnswer(ok, request.restore))
  /\ UNCHANGED <<state, reasons, retry, token, unacked, work, watched, auth, asked, history,
                 budget>>

ServerUnauth ==
  /\ Request("unauth")
  /\ toServer' = Tail(toServer)
  /\ session' = NoToken
  /\ UNCHANGED <<state, reasons, retry, token, unacked, work, toClient, watched, auth, asked,
                 history, budget>>

ServerListen ==
  /\ Request("listen")
  /\ toServer' = Tail(toServer)
  /\ LET q  == Head(toServer).query
         ok == session # NoToken
     IN  /\ toClient' = Append(toClient, ListenAnswer(q, ok))
         /\ watched' = IF ok THEN watched \cup {q} ELSE watched
  /\ UNCHANGED <<state, reasons, retry, token, unacked, work, session, auth, asked, history,
                 budget>>

ServerUnlisten ==
  /\ Request("unlisten")
  /\ toServer' = Tail(toServer)
  /\ watched' = watched \ {Head(toServer).query}
  /\ UNCHANGED <<state, reasons, retry, token, unacked, work, toClient, session, auth, asked,
                 history, budget>>

\* Stored or refused: a put is answered either way.
ServerPut ==
  /\ Request("put")
  /\ toServer' = Tail(toServer)
  /\ arrived' = arrived \cup {Head(toServer).index}
  /\ toClient' = Append(toClient, PutAnswer(Head(toServer).index))
  /\ UNCHANGED <<state, reasons, retry, token, unacked, work, server, auth, asked, completed,
                 answered, overtaken, unrefreshed, budget>>

ServerGet ==
  /\ Request("get")
  /\ toServer' = Tail(toServer)
  /\ toClient' = Append(toClient, GetAnswer(Head(toServer).index))
  /\ UNCHANGED <<state, reasons, retry, token, unacked, work, server, auth, asked, history,
                 budget>>

\* A token expires; a connection that uses it is told.
Expire(t) ==
  /\ t \in 1 .. issued
  /\ t \notin expired
  /\ Spend("expire")
  /\ expired' = expired \cup {t}
  /\ IF session = t
       THEN session' = NoToken /\ toClient' = Append(toClient, AuthRevoked)
       ELSE UNCHANGED <<session, toClient>>
  /\ UNCHANGED <<state, reasons, retry, token, unacked, work, toServer, watched, cached, issued,
                 posts, asked, history>>

\* The rules no longer allow a query.
RevokeListen(q) ==
  /\ q \in watched
  /\ Spend("revoke")
  /\ watched' = watched \ {q}
  /\ toClient' = Append(toClient, ListenRevoked(q))
  /\ UNCHANGED <<state, reasons, retry, token, unacked, work, toServer, session, auth, asked,
                 history>>

-----------------------------------------------------------------------------
\* A client that waits to be opened; somebody may be signed in.
Init ==
  /\ state = "disconnected"
  /\ reasons = {"waitingForOpen"}
  /\ retry = "none"
  /\ force = FALSE
  /\ attempt = 0
  /\ fetches = {}
  /\ authToken = NoToken
  /\ listens = {}
  /\ unacked = 0
  /\ puts = {} /\ putsToAck = <<>>
  /\ gets = {} /\ sentGets = {} /\ timedGets = {}
  /\ toServer = <<>> /\ toClient = <<>>
  /\ session = NoToken
  /\ watched = {}
  /\ issued \in StartTokens
  /\ cached = issued
  /\ expired = {}
  /\ posts = <<>>
  /\ putCounter = 0 /\ getCounter = 0 /\ listened = {}
  /\ arrived = {} /\ completed = <<>> /\ answered = {}
  /\ overtaken = FALSE
  /\ unrefreshed = FALSE
  /\ budget = Budget

Fetched == \E f \in fetches : FetchSucceeds(f) \/ FetchFails(f)
Told == Fetched \/ OnTokenChange
Answering == \E f \in fetches : Refresh(f) \/ AnswerFetch(f)
Failing == \E f \in fetches : FailFetch(f)
Interrupting == GoOffline \/ ServerKill \/ Drop \/ Signal
Answered == OnAuthAnswer \/ OnAuthRevoked \/ OnListenAnswer \/ OnListenRevoked
              \/ OnPutAnswer \/ OnGetAnswer
Asking == Put \/ Get \/ \E q \in Queries : Listen(q) \/ Unlisten(q)
Timer == \E i \in timedGets : GetTimesOut(i)
Serve == ServerAuth \/ ServerUnauth \/ ServerListen \/ ServerUnlisten \/ ServerPut \/ ServerGet
Resuming == \E r \in reasons : Resume(r)
FIRAuth == NewToken \/ SignOut \/ \E t \in 1 .. issued : Expire(t)
Revoking == \E q \in watched : RevokeListen(q)

Next == Resuming \/ Interrupting \/ RetryFires \/ Told \/ OnReady \/ Answered
          \/ Answering \/ Failing \/ FIRAuth \/ Asking \/ Timer \/ Serve \/ Revoking

\* The queue runs, timers fire, FIRAuth and the server answer, and the app opens the
\* connection; nothing makes a connection break, a token expire or anybody ask.
Fairness ==
  /\ WF_vars(Resume("waitingForOpen"))
  /\ WF_vars(RetryFires)
  /\ WF_vars(Told)
  /\ WF_vars(Answering)
  /\ WF_vars(OnReady)
  /\ WF_vars(Answered)
  /\ WF_vars(Timer)
  /\ WF_vars(Serve)

Spec == Init /\ [][Next]_vars
FairSpec == Spec /\ Fairness

-----------------------------------------------------------------------------
(* Properties.                                                             *)

States == {"disconnected", "gettingToken", "connecting", "authenticating", "connected"}

Fetches == [attempt : 1 .. attempt, forced : BOOLEAN, token : 0 .. issued]
Posts   == {TokenPost(t) : t \in 0 .. issued}
             \cup {FetchPost(f, t) : f \in Fetches, t \in 0 .. issued}
             \cup {FailurePost(f) : f \in Fetches}

TypeOK ==
  /\ state \in States
  /\ reasons \subseteq {"waitingForOpen", "repoInterrupt", "serverKill"}
  /\ retry \in {"none", "plain", "forced"}
  /\ force \in BOOLEAN /\ overtaken \in BOOLEAN /\ unrefreshed \in BOOLEAN
  /\ attempt \in Nat /\ issued \in Nat /\ cached \in 0 .. issued /\ authToken \in 0 .. issued
  /\ fetches \subseteq Fetches /\ posts \in Seq(Posts)
  /\ session \in 0 .. issued /\ expired \subseteq 1 .. issued
  /\ listens \subseteq listened /\ listened \subseteq Queries /\ watched \subseteq listened
  /\ unacked \in Nat
  /\ putCounter \in 0 .. MaxPuts /\ getCounter \in 0 .. MaxGets
  /\ puts \cup arrived \subseteq 1 .. putCounter
  /\ {putsToAck, completed} \subseteq Seq(1 .. putCounter)
  /\ gets \cup sentGets \cup timedGets \cup answered \subseteq 1 .. getCounter
  /\ budget \in [Events -> Nat]

\* There is one way to a connection at a time: an attempt is scheduled only while
\* there is no connection and no token under way, and the fetch the connection
\* waits for is the latest one.  These are the assertions of tryScheduleReconnect
\* and of its blocks, over interruptions, signals and late fetches.
OneAttempt ==
  /\ retry # "none" => state = "disconnected"
  /\ state = "gettingToken" => \E f \in fetches : f.attempt = attempt
  /\ \A f \in fetches : f.attempt = attempt => state \in {"gettingToken", "disconnected"}

\* An interrupted connection is down and stays down until it is resumed; one that
\* is not interrupted is up, on its way or scheduled.
InterruptedIsDown ==
  IF reasons # {} THEN state = "disconnected" /\ retry = "none"
                  ELSE state # "disconnected" \/ retry # "none"

\* The places of the messages of a kind.
At(q, kind) == {n \in DOMAIN q : q[n].kind = kind}

\* The unsigned count of unanswered listens is exact over lost connections, so that
\* it never wraps and completions never wait for an answer that cannot come.
CountIsExact ==
  unacked = Cardinality(At(toServer, "listen")) + Cardinality(At(toClient, "listen"))

\* While writes can be sent, exactly the outstanding puts are under way, once each
\* and in the order of their calls: none is forgotten or doubled by a restored
\* connection.
PutsAreUnderWay ==
  LET q == toClient \o toServer
  IN  CanSend => /\ puts = {q[n].index : n \in At(q, "put")}
                 /\ \A m, n \in At(q, "put") : m < n => q[m].index < q[n].index

\* Nothing about tokens is under way, neither between the client and the server nor
\* from FIRAuth.
TokensSettled ==
  /\ \A kind \in {"auth", "unauth", "authRevoked"} : At(toClient \o toServer, kind) = {}
  /\ At(posts, "token") = {}

\* Once the talk about tokens is over, the server knows the connection under the
\* token of the client, which is the user's, except after a fetch that a change of
\* the user overtook: its outdated token replaces the new one.
SessionIsUsers ==
  CanSend /\ TokensSettled => session = authToken /\ (overtaken \/ authToken = cached)

\* While one user stays signed in, no listen is ever lost to a refused or expired
\* token, a lost connection or a listen sent before the token was accepted.
ListensStay == [][listens \subseteq listens']_vars

\* The comment in onAuthRevokedWithStatus: "we will refresh the token later on
\* reconnect".
RefreshedOnReconnect == Realtime => ~ unrefreshed

\* FIRDatabaseQuery.h of getDataWithCompletionBlock: "The block that should be called
\* with the most up-to-date value of this query, or an error if no such value could
\* be retrieved."
GetsAreAnswered == \A i \in 1 .. MaxGets : (getCounter >= i) ~> (i \in answered)

\* The connection comes up, over failed fetches, refused tokens and signals, unless
\* it is interrupted for good.
ComesUp == []<>(CanSend \/ reasons # {})

\* A get never waits for a connection without end: it is sent, or it times out.
UnsentGetsEnd ==
  \A i \in 1 .. MaxGets : (getCounter >= i) ~> (i \in sentGets)

\* What the modules of the screens assume: puts reach the server in the order of
\* their calls, again if need be, and complete once, in that order and in the end.
\* The order needs a listen that is never removed, which every screen of the app
\* provides: without one, a completion that waited as the connection broke is
\* overtaken by those after it.
Outbox == INSTANCE PutQueue WITH
  issued <- putCounter, arrived <- arrived, completed <- completed
ImplementsPutQueue == Outbox!Spec
=============================================================================
