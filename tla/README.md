# MoonMessenger ("Neptune"): a TLA+ verification project

MoonMessenger is an iOS messenger written in Swift on top of Firebase (anonymous
authentication, Realtime Database, Storage). Its own code is
`src/MoonMessenger/MoonMessenger/`, about 4800 lines; `Pods/` holds vendored
libraries, of which the client half of the Realtime Database
(`Pods/FirebaseDatabase`) decides how the app behaves when messages cross,
connections break and apps die. Paths below are relative to
`src/MoonMessenger/MoonMessenger/` unless they start with `Pods/`.

## 1. Inventory

| Component | State it keeps | Operations | What is hard about it |
|---|---|---|---|
| **Message list** (`Messaging/ChatView`, `DataBuilder`, the badge, avatar, name and date builders) | the displayed snapshot (sections of messages), the builder's copy, scrolls waiting | `addMessages`, `diffMessages`, `clear`, `scrollToBottom`; the loop of `DataBuilder.build` | layout grows incrementally: the last item is deleted and appended again; an empty list crashes; a scroll fires 0.2 s after its check |
| **Conversation** (`Global/Database`: `sendMessage`, `getMessages`; `MessagesViewController`) | `conversations/<id>` on the server, the client's cache and pending writes, events on the main queue, the list on the screen | send, observe, show, open and dismiss the screen | local echo, events of several observers, resent writes, lost answers, unsynchronised clocks |
| **Channel list** (`createConvo`, `getConvoKeys`, `observeUser`; `JoinChannelViewController`, `ConvoViewController`) | `users/<uid>/conversations`, the list's items, the HUD of the join screen | join, refresh, show | read-modify-write of a whole list; a completion that may never come; a refresh cut into blocks on two queues; identifiers that must be unique |
| **Database connection** (`FPersistentConnection` with `FConnection` and `FIRRetryHelper`) | its state, the reasons of interruptions, the scheduled attempt, token fetches, the listens, puts and gets that are outstanding, what waits for unanswered listens | connect, restore, interrupt, resume; authenticate; listen, put, get | an attempt overtaken by interruptions, signals and other attempts; tokens replaced while one is fetched; every request repeated, once and in order, on each connection |
| **Channel names** (`getConvoName`, `setConvoName`; `EditChannelViewController`) | `convoData/<id>/name`, the labels and the text field that show it | show a name, invent one, write one back | concurrent inventions, stale write-back when the screen closes, inventions for a name taken back |
| **Session** (`SceneDelegate`, `Splash`, `Intro`, `Connect`, `Welcome`, `Profile`) | signed-in user, username in the defaults and on the server, presented screens | sign in, sign out, rename, navigate | the auth listener presents a screen while another one does |
| **Cell reuse** (`ConvoCell`, `AvatarBadge`) | what a reused cell shows | bind, callback, timer | late callbacks of an earlier binding |
| **Relative dates** (`DateStampBuilder.relativeTime`) | none | a pure function | boundaries at a minute, an hour, 48 hours |
| **Image storage** (`uploadImage`, `getImage`) | none in the app | one call each | - |
| **Settings, legacy screens, styles, components** | none | navigation, layout | - |

How they interact: a screen calls `Backend`, a thin layer over the Firebase
client; the client runs on its own serial queue, answers from its cache, talks
to the server over one FIFO connection and posts value events and completions on
the main queue in order; observers are never removed. Below the client's cache,
`FPersistentConnection` opens that connection, authenticates it with the token
FIRAuth has for the user, and repeats listens and unacknowledged puts on each new
one. Screens share nothing but the database nodes. `MessagesViewController` hands
each sorted list of messages to `ChatView.diffMessages`; `ConvoList` opens the
conversation of the item that was tapped.

What makes each correct, in a sentence: the message list is the list it was
given, cut into runs of one author with the right corners; a conversation loses
no acknowledged message, shows none twice and ends up the same on every screen;
a channel that was joined stays joined and is listed; there is one way to a
connection at a time, puts reach the server in order and complete in order, and
the session is the user's; names agree on all devices in the end. The hazards,
each at its line, are in `PROJECT.json` under `hazards`.

## 2. Plan

In order of what matters most to a user:

1. `ChatView` + abstract `ChatFeed`; proofs of every safety property and of the
   refinement in `ChatViewProofs` and `ChatFeedProofs` - **done**.
2. `Conversation` + abstract `MessageBoard`; proofs of every safety property and
   of the refinement in `ConversationProofs` - **done**.
3. `Channels`; proofs of every safety property in `ChannelsProofs` - **done**.
4. `Connection` + abstract `PutQueue`, on which 2, 3 and 5 rely; proofs of the
   control in `ConnectionProofs`, of the bookkeeping, the session and the types in
   `ConnectionQueueProofs`, of the listens and of the queue of puts in
   `ConnectionOutboxProofs` - **done**.
5. `ChannelName`; proofs of every safety property in `ChannelNameProofs` - **done**.

Not planned: session, cell reuse and relative dates, for the reasons given at the
end of section 3.

## 3. Modules

### `ChatView`, `ChatFeed`

`shown` is the snapshot of the diffable data source, `data`, `messages` and `i`
are the fields and the loop index of the `DataBuilder` in use, `scrolls` counts
`asyncAfter` blocks, and `pc` says whether the main thread is inside `build` or
has crashed. `AddMessages`, `DiffMessages`, `Clear` and `Scroll` are the API, that
is its functions that change the list or scroll it (the others set styles and
delegates); `StartBuild` is `build` up to its loop, `BuildStep` one iteration
(`SkipStep`, `PlaceStep`), `ApplySnapshot` the end of the call, with the scroll if
its parameter `scrollToBottom` asks for one, `ScrollFires` the delayed block.
`Calls` and `ScrollArgs` say which functions and parameters a caller uses: the app's
screen calls `diffMessages` with its default, and `scrollToBottom` as an input begins
and ends. `MaxScrolls` bounds the blocks that wait, so that a call needs room for one
more; with two, the list is replaced and another scroll asked for while one waits. The four supplementary-view builders only read the snapshot; they are the
operators `SeenBadge`, `HasAvatar`, `HasUsername`/`UsernameOf` and `HasDate`.

A message is its origin, author, date, seen flag and corners. Its UUID is fresh
(`Message.init` ignores its argument), so identity is position. Sections are kept
as the position of their first item, since items are only appended to the last.

`ChatFeed` is the promise: a flat list, the position of the seen badge, and, while
a call is in progress, the list it was given (the history variable `given`) and the
result that is about to be displayed. `ImplementsFeed` checks that `ChatView`
implements it: the loop's steps are stutters, `ApplySnapshot` is `Display`.

### `Conversation`, `MessageBoard`

Each device has an observer count (`open`), the list on its screen (`display`),
the value events waiting on its main queue, and its Firebase client `sdk` (is it
listening, is the view complete, the cache, the pending writes). `toServer` and
`toClient` are the two directions of the connection; `Drop` loses both and the
server's listener, `Reconnect` sends the listen and then the pending writes in
order. `SendMessage`, `Appear`, `ShowSnapshot` are `Backend.sendMessage`,
`viewDidAppear` and the observer of `getMessages`. `ListenFromList` is the
conversation list's own observer of the node, because of which the view may be
complete before the screen opens. The server (external) stores a put, tells every
listener, then answers.

A call into the client is one step with the caller's: between the two nothing
the caller could see happens, since the client's effects reach it through the main
queue. Time is the number of messages sent; each device's clock is off by a
constant, so dates of two devices can tie or be out of order. `Sorted` returns any
order of equal dates. A rejected send is not modelled here (it is in `Channels`).

`Without` is the removal of an answered write from the pending ones, which keeps
the order of the others (`FWriteTree.removeWriteId`).

`MessageBoard` is the promise: a shared board that grows, outboxes that are lost
only with their app, screens that show the board and the own outbox and forget
nothing while open.

### `Channels`

One device, for an anonymous user has one. `dbQueue` holds calls waiting on the client's
queue, `mainQueue` the blocks of the main queue: an event starts
`ConvoList.refresh` (`Refresh`), its first block asks for the keys (`FetchKeys`),
the client answers (`ReadKeysToShow`), the last block applies them
(`ApplyItems`). Joining is `Continue` (HUD up), `ReadKeysToJoin`, `WriteKeys`,
the server's answer and `FinishJoin`. `KeysComplete` is the condition under which
`getConvoKeys` calls its completion at all: `getData` finds the complete view of
`users/<uid>` that `observeUser` registered and returns that whole node (which is
why the code looks up `"conversations"` in it); if the view is not complete, the
server's answer is an array and the cast to a dictionary fails. `named` says
whether the node exists apart from the list. Keys are texts; `IdOf` is the UUID they
spell; two items with one UUID make the data source throw (`Clash`, `Stop`).
A list of keys is a bag and the items on the screen a set: what is read is
appended to and written back whole, and what is shown is sorted first, so that the
order never matters, while the number of times a key occurs does (`uniqued`).

### `Connection`, `PutQueue`

The variables are the fields of `FPersistentConnection`: `state` is
`connectionState`, `reasons` the `interruptReasons`, `retry` the block in
`FIRRetryHelper`, `attempt` and `fetches` the `currentFetchTokenAttempt` and the
callbacks that compare themselves with it, `force` the flag `forceTokenRefreshes`;
`listens`, `puts`, `putsToAck`, `gets` and `unacked` the requests that are kept.
`toServer` and `toClient` are one connection, `session` and `watched` the server's
side of it; `cached`, `issued` and `expired` are FIRAuth. `posts` is what FIRAuth
tells the client's queue, in order: answers to fetches and changes of its token.
Both leave FIRAuth on the main queue and are dispatched to the client's queue from
there, so that the client learns of them some steps later, and of a change before an
answer that was given after it.

`Schedule` is `tryScheduleReconnect`, `RetryFires` the block it schedules,
`FetchSucceeds` and `FetchFails` the ends of a token fetch as its callback meets them,
`OnReady` `restoreAuth`, `OnAuthAnswer` its answer with `RestoreState`, `Close`
`onDisconnect`, `Interrupt` and `Resume` the functions of that name, `Signal` a
return to the foreground or of the network. `Listen`, `Unlisten`, `Put` and `Get`
with their answers are the requests; a put's completion waits in `putsToAck` while
listens are unanswered. `OnTokenChange` is `refreshAuthToken`. FIRAuth's own steps
are `AnswerFetch`, `Refresh` (an expired token is replaced when a fetch forces it) and
`FailFetch`, and `NewToken` and `SignOut`, which post the change. Delays are left out;
a query listened to again is another query. `puts` and `gets` are sets of indexes: the
code's dictionaries have no order, and what is sent again is sorted first (`Sorted`).

`PutQueue` is what the screens' modules assume of all this: puts arrive for the
first time in the order of the calls, possibly again later, and complete once and
in order (`SafeSpec`), in the end (`Spec`). `ImplementsPutQueue` checks it. `Conversation`, `Channels` and
`ChannelName` have the shape of it built in: `Drop` and `Reconnect` there are whole
connections here, and each of their clients keeps a listen that is never removed,
which the order of completions depends on.

### `ChannelName`

One device beside others: `OthersWrite` is whatever another device invents or
writes, and every device is one of the others to the rest. `shown` holds the views
that observe the name in the order of their observers: labels, the field of the
edit screen, and closed fields, whose observers still run and still invent.
`ShowLabel` and `OpenEdit` register an observer; `HandleEvent` is the observer of
`getConvoName`, which passes a name on or invents and writes one, and posts the
completion that `ShowText` runs; `Leave` and `Cover` are `viewWillDisappear` of the
edit screen, which writes its field back, trimmed. An invented name is the number
of its write, since two random names differ, and no name that is typed or written by
another device is a number (`ChannelNameAssumption`). `Without` is the removal of an
answered write, as in `Conversation`.

### What is not modelled

* Session and navigation: anonymous sign-in and sign-out are calls of
  FirebaseAuth, and whether the splash screen or the auth listener gets to present
  the intro screen is UIKit's state; the app keeps none of its own. What a change
  of the user means to the database is in `Connection`.
* Cell reuse: which cell is reused for which item is `UICollectionView`'s choice,
  and what a late observer writes into it may be any item's text until the next
  event; there is no property to check.
* Relative dates: a choice of wording from Foundation's calendar components.
* Image storage: single calls of Firebase Storage and of an image loader.
* Settings, legacy screens, styles and input components: navigation and layout.
* In the modelled parts: layout and animation; `error` of a message (never set
  after `init`); the texts of messages and dates; security rules except as refused
  requests; sign-out while a conversation is open; in the connection the
  transactions, merges, `onDisconnect` operations and the App Check token, which
  the app does not use.

## 4. Runs

| Run | Question | Bounds |
|---|---|---|
| `chatview_api` | Is the layout right after any calls of the API with any lists? | lists of up to 2 of 8 messages (3 users, 3 dates), 3 messages in all, with and without a scroll, 2 scrolls waiting |
| `chatview_app` | Do the calls the app makes crash or hang? | sorted, non-empty lists of up to 3, 2 scrolls waiting |
| `conversation` | Is a message lost, doubled, hidden or forgotten? | 2 devices, 2 messages, 1 lost connection, 1 killed app, 3 appearances |
| `conversation_live` | Does everything arrive in the end? | as above without killed apps, 2 appearances |
| `conversation_delivered` | Does `delivered` mean what `Message.swift` says? (no) | 1 message |
| `channels` | Is a channel lost, or the list outdated? | 3 keys (two spellings of a UUID, a text that is none), 2 joins, 1 each of lost connections, kills, refusals |
| `channels_live` | Does a join end, does the list follow, does rejoining crash? | 2 keys that do not collide, no kill |
| `connection` | Is there one attempt at a time, is the bookkeeping exact, is the session the user's? | 1 query, no puts or gets; a drop, signal, interruption, expiry, sign-out, new token, unlisten and revocation, each once |
| `connection_live` | Does the connection come up, do listens stay, are the puts under way once each, is `PutQueue` implemented? | 1 query, 2 puts, 1 get; a drop, expiry, failed fetch and new token, each once; the user stays signed in and no listen is removed, as in the app |
| `connection_refresh` | Is a revoked token refreshed on reconnection? (no) | no requests; a drop, an expiry and a signal |
| `connection_gets` | Is each get answered? (no) | 1 get, 1 drop |
| `channel_name` | Do texts follow the name, which write stands, do devices agree? | 2 observers, 1 name from others, 1 text typed, 1 closed edit screen, and one fault: a lost connection, a kill or a refused write |

Why the bounds are enough: three messages make a section with a top, a middle and
a bottom, and two sections with a boundary inside or across calls; the dates 0, 5
and 8 half hours give gaps of two, one and four whole hours. Two messages of two
devices are enough for a write that crosses another, a tie and an inverted date;
one lost connection is enough for each request or answer to be the lost one, as it
may break at every point; two appearances give one screen two observers, three a
second screen beside it. Two joins give a rejoin, two spellings, and a join after
a restart with an unknown list. Two puts are enough to be swapped, one being
answered and one not; each event of the connection may come at every point, so
that once is enough for it to overtake any fetch, attempt or answer, and eight of
them at once give every pair. Failed fetches and puts are left to `connection_live`: a
failed fetch only closes and schedules, as interruptions and signals do, and the
properties of `connection` do not speak of puts. Two observers of a name give a label beside the
field, or two that both invent; one write of others meets every own one.

`CHECK_DEADLOCK FALSE` is set where the system may stop: the bounds let users stop
acting, and a crashed `ChatView` has no next step.

Each property is paired with a mutant, an operator beside the definition it
replaces (marked "Mutant"), that a plausible bug would look like: the property
must fail for it.

### What the runs show

Passing: all properties of the runs above that are expected to pass. In
particular the following hold only because of a detail that is easy to lose.
`NoTrap` and `NeverEmptyList`: the null check of `getMessages` is all that keeps
`build` from `0...-1`. `NoChannelLost`: that `getConvoKeys` stays silent when the
client knows nothing is what keeps a join from erasing the list - and what leaves
the HUD up for ever (`JoinIsAnswered` needs the view to be complete).
`CrashOnlyOnAliases`: `uniqued` protects from joining a key twice, not from
joining it in lower case.

`FoundNamesStand`: the empty text of a field counts as a name, so that no random
name replaces it - and a name that is not yet known is overwritten with that empty
text when the edit screen closes. `ImplementsPutQueue`: completions run in order
only while some listen is never removed; otherwise one that waited for an answer
as the connection broke is overtaken by later ones. `SessionIsUsers` excepts one
case: a fetch that a change of the user overtook brings an outdated token, which
replaces the new one. `OwnLastWriteStands` excepts another: a name that the server
stored may be refused when it is sent again after a lost answer. Where the rules
refuse an invented name, taking it back raises an event without a name and another
one is invented, without end; `MaxFaults` cuts that off.

Violated, and listed as findings:

* `DeliveredMeansStored`: `getMessages` sets `delivered: true` (and `seen: true`) on
  every message, also on one that exists only in the sender's own client.
* `RefreshedOnReconnect`: the request to refresh a revoked token is moved into the
  scheduled attempt and lost when a signal or an interruption replaces that.
* `GetsAreAnswered`: a get that was sent when the connection broke is neither sent
  again nor ended by its timer. The app's gets are answered from its complete view,
  and wait for ever otherwise (see `JoinIsAnswered`).

## 5. Fairness

`ChatView`: weak fairness of the loop, the end of a call and the delayed block -
the main thread runs what it has begun; callers need not call. `Conversation` and
`Channels`: weak fairness of the server's answers, the client's receipt of them,
the main queue and the client's queue (serial queues that run while anything is on
them) and of `Reconnect` (`tryScheduleReconnect` keeps trying). `ChannelName`: the
same, each device's queues in one condition. `Connection`: weak fairness of the
client's queue and its timers (`RetryFires`, `Timer`, `Answered`, `OnReady`, and `Told` for the
blocks that come from FIRAuth), of FIRAuth's answers (`Answering`), of the server, and of `Resume("waitingForOpen")`, since
`open` is called right after the connection is made. No fairness is assumed of users,
lost connections, killed apps, or of the end of an interruption.

## 6. Proofs

`ChatViewProofs` proves for all constants that satisfy `ChatViewAssumption`, that
is for any users, integer dates, batches (empty ones too) and sequences of API
calls:

* `TypeCorrect`: `Spec => []TypeOK`;
* `RoundingCorrect`: `Spec => []RoundingFollowsSections`;
* `GroupingCorrect`: `Spec => []SectionsAreRuns`.

The properties speak about `shown` only, which is replaced once a build ends; they
are not inductive. `IInv` adds what holds inside the loop: the builder's snapshot
`data` is well laid out too, the loop index is at most the number of its items,
and those items are, up to flags and corners, the first messages of `messages`
(`HoldsPrefix`). The last part is what makes the code's reading of
`messages[i-1]` as "the last item of data" right. The lemmas `StartSectionLaid` and
`JoinSectionLaid` say that each branch of the loop keeps a layout well formed;
`JoinsIsSameRun` that the code's test, which looks at the section's origin and at
`messages[i-1]`, decides whether the two messages belong to one run;
`PlaceStepKeepsLayout` combines them, `IInvInit` and `IInvNext` are the induction.
A consequence of `PlaceStepKeepsLayout` is that the traps inside the loop are
unreachable.

`ChatFeedProofs` adds what a reader of the list sees. `SInv` strengthens the
invariant: sections are in order, cover every message and have one author. These
follow from the layout by induction over the sections, which the prover cannot do;
stated outright they are kept by each branch of the loop. From it follow
`HeadersCorrect` and `DatesCorrect`. `TInv` gives `AppNeverTraps`, for callers that
only call `diffMessages` with non-empty lists, and `scrollToBottom` at any time: from
the first list on there is always a section, and before it no scroll waits, however
many scrolls may wait later. `Refinement` proves `Spec => ImplementsFeed`: `BInv` says that
while `build` runs the last seen own message of its snapshot is where the given
list puts it, although earlier items keep outdated flags. The greatest such
position exists by well-founded induction over a set (`WFMin`).

`ConversationProofs` proves all safety properties of `Conversation` and `Spec =>
ImplementsBoard` for any devices, clocks and bounds. A screen's property depends on
the whole way of a message, so the invariant follows it: `Apart` (messages are told
apart by their writes, and each is its writer's), `Located` (what is under way is
pending or stored), `Linked` (a client that listens has, or is about to get, all
that is stored, and each of its puts before the answer to it; a whole node lacks
nothing that came before it), `Growing` (the events that wait are growing views, the
last of which is the present one). `Linked` is why a view never shrinks when a
write stops being pending, on a fresh connection too; `Growing` is why a screen
never forgets, and is current once nothing waits. `NoForgetting` and `Refinement` are
properties of steps, proved from the same invariant.

`ChannelsProofs` proves all safety properties of `Channels` for any keys and bounds.
`OneJoin` (the HUD lets one join be under way, as a call, a pending write or a
completion), `Kept` (what it is about to write contains everything stored, and the
new key), `Asking` and `Telling` (at most a listen and a put are under way; the
server and a client that listens agree once what is under way has arrived) give
`NoneIsLost` and `JoinsAreStored`. `Following` (whatever changed the view left an
event, a fetch, a read or the list itself waiting) gives `QuietList`, and that lists
about to be shown hold each key once, `CrashesNeedAliases`. `Telling` is needed for
`Kept`: a join that reads an outdated list would write it back.

`ConnectionProofs` proves for any queries, numbers of requests and events that there
is one attempt at a time and none while interrupted. The assertions of the code are
not inductive: `FetchesNumbered` (one fetch for an attempt, none of a later one) makes
the comparison with `currentFetchTokenAttempt` enough, and `NothingOutlives` (nothing
is under way and nobody is known to the server unless there is a connection) keeps
late answers from reviving a closed one.

`ConnectionQueueProofs` proves the rest of the safety invariants of the runs `connection`
and `connection_live` for any bounds, `TypeCorrect`, `CountStaysExact`, `PutsStayUnderWay` and
`SessionStaysUsers`. A counter of unanswered listens is exact only if the code resets
and counts at the right moment, and that depends on where in the two FIFOs the answer
to the first `auth` stands: `Turns` says that nothing is sent before the first request,
that the answer to it comes before any other, and that puts and gets go out only after
it. `PutsInOrder` says that the puts under way rise, those answered first; the steps are
proved by their shape (a request is sent, restored, received, answered; the server tells
something), so that not every action need be looked at. `SessionFollows` says that the tokens under way to the server make up for
the difference between what it knows and what the client has, and `TokenIsCurrent` that
the last change on its way from FIRAuth brings the token it has and, once none is on its
way, that an open connection has that token, unless an overtaken fetch brought another.

`ConnectionOutboxProofs` assumes `StaysSignedIn`, an assumption about the constants:
somebody is signed in from the start, nobody signs out, no listen is removed and no
access is withdrawn. That is how the app uses the connection (it signs in anonymously
before it observes anything, and never removes an observer); without it listens are
lost, as they should be, and a completion may be overtaken (see section 4). Expired
tokens, failed and overtaken fetches, lost connections, signals and interruptions stay.
`Warned` and `WarnedFirst` (a client that the server does not know is told so before any
listen is refused, so that the refused one is sent again) give `ListensAreKept`.
`InOrder` (the puts that completed, those answered and waiting for listens, those
outstanding are consecutive intervals of indexes; what reached the server ends inside
the last one; a put waits only while the answer to a listen is to come) gives
`ConnectionIsOutbox`: each step is one of `PutQueue` or a stutter, `Spec =>
Outbox!SafeSpec`, which is `ImplementsPutQueue` without its fairness.

`ChannelNameProofs` proves all safety properties of `ChannelName` for any names, number
of observers and faults, from an invariant of six parts. `PutsInOrder` (the pending
writes are exactly those under way, acknowledged ones first) makes each answer one to
the first pending write. With `Settling` (the server holds the write it accepted last,
one under way, or another device's) it gives `LastWriteStands`, although a write may be
stored twice. `Hearing` and `Finding` give `NamesStand`: since the listener is in place
before any put is stored, a name reaches the cache before the answer that takes the own
write off, so that a view that had a name never loses it unless a write is refused; no
event without a name then follows one with a name, and no observer invents a second
name. That a random name is new is all that is used of it. `Hearers` (the last event
that waits for a view, else the last text, else what the view shows, is the name of the
client's view) gives `QuietViewsAreCurrent` and `UntouchedScreensKeepNames`: what an
untouched field writes back is a name, never one of the texts that would be trimmed.

The proofs assume only the named assumptions on the constants, which TLC evaluates in
every run, and `StaysSignedIn` where it is stated. Every safety property of the runs
that pass is proved. Only model-checked: liveness under fairness, which is out of the
prover's reach (`BuildsReturn`, `OutboxDrains`, `ScreensConverge`, `JoinIsAnswered`,
`ListConverges`, `ComesUp`, `UnsentGetsEnd`, `NamesConverge`, and the fairness part of
`ImplementsPutQueue`). The violations that three runs show are counterexamples, and
need no proof.
