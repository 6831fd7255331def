------------------------------ MODULE ChatView ------------------------------
(***************************************************************************)
(* The message list of one conversation screen: ChatView (its public API)  *)
(* and the DataBuilder that lays messages out in sections.                 *)
(*                                                                         *)
(* A call of the API copies the displayed snapshot, lets a DataBuilder     *)
(* append messages to the copy one loop iteration at a time, and applies   *)
(* the copy.  The model keeps that grain: BuildStep is one iteration of    *)
(* the loop of DataBuilder.build, so that the facts the loop relies on     *)
(* ("messages[i-1] is the last item of data") are facts about states.      *)
(*                                                                         *)
(* Data abstraction.  A message is what grouping and the badges look at:   *)
(* its origin, its author, its date and the flags seen and corners.  The   *)
(* UUID of a message is fresh (Message.init ignores its id argument), so   *)
(* "same id" is "same position in the list".  A snapshot is its            *)
(* itemIdentifiers and, for each section, its origin and the position of   *)
(* its first item: every append goes to the last section, so a section is  *)
(* a contiguous run of items.                                              *)
(***************************************************************************)
EXTENDS Integers, Sequences

CONSTANTS
  Users,         \* user ids
  Dates,         \* dates of messages, in time units
  UnitsPerHour,  \* time units in one hour
  Batches,       \* the message lists a caller may pass
  Calls,         \* the API functions callers use, of {"add", "diff", "clear", "scroll"}
  ScrollArgs,    \* what they pass for scrollToBottom
  MaxMessages,   \* bound of the model: messages displayed at once
  MaxScrolls     \* bound of the model: scroll timers pending at once

Origin   == {"outgoing", "incoming", "system"}
Rounding == {"basic", "top", "middle", "bottom"}
Message  == [origin : Origin, userId : Users, date : Dates,
             seen : BOOLEAN, corners : Rounding]
Section  == [origin : Origin, first : Nat \ {0}]

ASSUME ChatViewAssumption ==
  /\ Dates \subseteq Int
  /\ UnitsPerHour \in Nat \ {0}
  /\ Batches \subseteq Seq(Message)
  /\ Calls \subseteq {"add", "diff", "clear", "scroll"}
  /\ ScrollArgs \subseteq BOOLEAN /\ ScrollArgs # {}
  /\ MaxMessages \in Nat
  /\ MaxScrolls \in Nat

VARIABLES
  shown,      \* the snapshot the data source displays
  pc,         \* "idle", "building" (inside DataBuilder.build) or "trapped" (crash)
  data,       \* DataBuilder.data
  messages,   \* DataBuilder.messages
  i,          \* the loop index of DataBuilder.build, from 0 as in the code
  scrolls,    \* scrollToBottom blocks waiting on the main queue
  given       \* history: the list the call in progress was given

vars == <<shown, pc, data, messages, i, scrolls, given>>

-----------------------------------------------------------------------------
(* Snapshots.                                                              *)

EmptySnapshot == [items |-> <<>>, sections |-> <<>>]

LastPos(snap) == Len(snap.items)

SectionEnd(snap, s) ==
  IF s = Len(snap.sections) THEN LastPos(snap) ELSE snap.sections[s + 1].first - 1

Positions(snap, s) == snap.sections[s].first .. SectionEnd(snap, s)

\* DataBuilder.count of the last section.
LastSectionCount(snap) ==
  LastPos(snap) - snap.sections[Len(snap.sections)].first + 1

Rounded(m, c) == [m EXCEPT !.corners = c]

\* Mutant of StartSection: the section's first item is taken from the count before the append.
StartSectionEarly(snap, m) ==
  [items    |-> Append(snap.items, Rounded(m, "basic")),
   sections |-> Append(snap.sections, [origin |-> m.origin, first |-> LastPos(snap)])]

\* The else branch: a section of its own, with a basic bubble.
StartSection(snap, m) ==
  [items    |-> Append(snap.items, Rounded(m, "basic")),
   sections |-> Append(snap.sections, [origin |-> m.origin, first |-> LastPos(snap) + 1])]

\* Mutant of JoinSection: without the count test, the re-appended item is always a top.
JoinSectionAlwaysTop(snap, prev, m) ==
  [snap EXCEPT !.items =
    Append([@ EXCEPT ![LastPos(snap)] = Rounded(prev, "top")], Rounded(m, "bottom"))]

\* The then branch: the last item is deleted and appended again, rounded as the
\* top or a middle of its section, and m follows as the bottom.
JoinSection(snap, prev, m) ==
  LET corner == IF LastSectionCount(snap) = 1 THEN "top" ELSE "middle"
  IN  [snap EXCEPT !.items =
        Append([@ EXCEPT ![LastPos(snap)] = Rounded(prev, corner)], Rounded(m, "bottom"))]

-----------------------------------------------------------------------------
(* The decisions of DataBuilder.                                           *)

Abs(n) == IF n < 0 THEN -n ELSE n

\* Whole hours between two messages: the difference truncated towards zero.
Delta(a, b) == Abs(b.date - a.date) \div UnitsPerHour

\* Mutants of Joins: "< 2" for "<= 2", no test of the date, none of the author.
JoinsSooner(snap, msgs, k) ==
  /\ snap.sections # <<>>
  /\ snap.sections[Len(snap.sections)].origin = msgs[k + 1].origin
  /\ k >= 1
  /\ Delta(msgs[k], msgs[k + 1]) < 2
  /\ msgs[k].userId = msgs[k + 1].userId

JoinsAnyDate(snap, msgs, k) ==
  /\ snap.sections # <<>>
  /\ snap.sections[Len(snap.sections)].origin = msgs[k + 1].origin
  /\ k >= 1
  /\ msgs[k].userId = msgs[k + 1].userId

JoinsAnyUser(snap, msgs, k) ==
  /\ snap.sections # <<>>
  /\ snap.sections[Len(snap.sections)].origin = msgs[k + 1].origin
  /\ k >= 1
  /\ Delta(msgs[k], msgs[k + 1]) <= 2

\* Does messages[k] (k from 0) go to the last section of snap?
Joins(snap, msgs, k) ==
  /\ snap.sections # <<>>
  /\ snap.sections[Len(snap.sections)].origin = msgs[k + 1].origin
  /\ k >= 1
  /\ Delta(msgs[k], msgs[k + 1]) <= 2
  /\ msgs[k].userId = msgs[k + 1].userId

SeenPositions(msgs) == {k \in DOMAIN msgs : msgs[k].seen}

\* The position of lastSeenIdx; 0 stands for the fresh UUID nothing equals.
LastSeen(msgs) ==
  IF SeenPositions(msgs) = {} THEN 0
  ELSE CHOOSE k \in SeenPositions(msgs) : \A l \in SeenPositions(msgs) : l <= k

\* Mutant of MarkLastSeen: the flag goes to the last message of the list, seen or not.
MarkLast(old, new) ==
  LET all == old \o new
  IN  IF SeenPositions(new) = {} THEN all
      ELSE [k \in DOMAIN all |-> [all[k] EXCEPT !.seen = (k = Len(all))]]

\* What build makes of its list before the loop.
MarkLastSeen(old, new) ==
  LET all == old \o new
  IN  IF SeenPositions(new) = {} THEN all
      ELSE [k \in DOMAIN all |-> [all[k] EXCEPT !.seen = (k = LastSeen(all))]]

\* Mutant of LastIndex: the closed range runs to the count itself.
LastIndexPastEnd(msgs) == Len(msgs)

\* The last index of the loop "0...messages.count-1".
LastIndex(msgs) == Len(msgs) - 1

-----------------------------------------------------------------------------
Init ==
  /\ shown = EmptySnapshot
  /\ pc = "idle"
  /\ data = EmptySnapshot
  /\ messages = <<>>
  /\ i = 0
  /\ scrolls = 0
  /\ given = <<>>

\* DataBuilder(data: snap) and build(messages: batch) up to its loop.  The
\* range 0...-1 of an empty list is a fatal error in Swift.
StartBuild(snap, batch) ==
  /\ data' = snap
  /\ messages' = MarkLastSeen(snap.items, batch)
  /\ given' = batch
  /\ i' = 0
  /\ pc' = IF LastIndex(messages') < 0 THEN "trapped" ELSE "building"
  /\ UNCHANGED <<shown, scrolls>>

AddMessages(batch) ==
  /\ pc = "idle"
  /\ "add" \in Calls
  /\ Len(shown.items) + Len(batch) <= MaxMessages
  /\ scrolls < MaxScrolls
  /\ StartBuild(shown, batch)

\* snap.deleteAllItems() leaves neither items nor sections.
DiffMessages(batch) ==
  /\ pc = "idle"
  /\ "diff" \in Calls
  /\ Len(batch) <= MaxMessages
  /\ scrolls < MaxScrolls
  /\ StartBuild(EmptySnapshot, batch)

Clear ==
  /\ pc = "idle"
  /\ "clear" \in Calls
  /\ shown' = EmptySnapshot
  /\ UNCHANGED <<pc, data, messages, i, scrolls, given>>

\* One iteration on a message data holds already.
SkipStep ==
  /\ i < Len(data.items)
  /\ i' = i + 1
  /\ UNCHANGED <<pc, data>>

\* One iteration that lays a message out.  Reading past the list, or the last
\* item of an empty snapshot, is a fatal error.
PlaceStep ==
  /\ i >= Len(data.items)
  /\ IF i >= Len(messages)
       THEN /\ pc' = "trapped"
            /\ UNCHANGED <<data, i>>
       ELSE IF Joins(data, messages, i)
              THEN IF data.items = <<>>
                     THEN pc' = "trapped" /\ UNCHANGED <<data, i>>
                     ELSE /\ data' = JoinSection(data, messages[i], messages[i + 1])
                          /\ i' = i + 1
                          /\ UNCHANGED pc
              ELSE /\ data' = StartSection(data, messages[i + 1])
                   /\ i' = i + 1
                   /\ UNCHANGED pc

BuildStep ==
  /\ pc = "building"
  /\ i <= LastIndex(messages)
  /\ SkipStep \/ PlaceStep
  /\ UNCHANGED <<shown, messages, scrolls, given>>

\* Mutant of ScrollToBottom: a block also for an empty list.
ScrollAnyList(snap) == scrolls' = scrolls + 1

\* scrollToBottom: nothing for an empty list, else one block 0.2 s later.
ScrollToBottom(snap) ==
  scrolls' = IF snap.sections # <<>> THEN scrolls + 1 ELSE scrolls

\* The loop is over: the snapshot is applied, the list scrolled if the caller wants
\* it, and the builder released.
ApplySnapshot ==
  /\ pc = "building"
  /\ i > LastIndex(messages)
  /\ shown' = data
  /\ pc' = "idle"
  /\ \E scrollToBottom \in ScrollArgs :
       IF scrollToBottom THEN ScrollToBottom(data) ELSE scrolls' = scrolls
  /\ data' = EmptySnapshot
  /\ messages' = <<>>
  /\ i' = 0
  /\ given' = <<>>

\* The public function, which the screen calls as an input begins and ends.
Scroll ==
  /\ pc = "idle"
  /\ "scroll" \in Calls
  /\ scrolls < MaxScrolls
  /\ ScrollToBottom(shown)
  /\ UNCHANGED <<shown, pc, data, messages, i, given>>

\* The delayed block reads the list as it is now: with no section left it asks
\* for the items of section -1, and without an item in the last one for row -1.
ScrollFires ==
  /\ pc = "idle"
  /\ scrolls > 0
  /\ scrolls' = scrolls - 1
  /\ pc' = IF shown.sections = <<>> \/ LastSectionCount(shown) < 1 THEN "trapped" ELSE pc
  /\ UNCHANGED <<shown, data, messages, i, given>>

Next ==
  \/ \E batch \in Batches : AddMessages(batch)
  \/ \E batch \in Batches : DiffMessages(batch)
  \/ Clear
  \/ BuildStep
  \/ ApplySnapshot
  \/ Scroll
  \/ ScrollFires

\* build and apply run to completion on the main thread once called, and the
\* main queue runs the delayed block; callers need not call.
Fairness ==
  /\ WF_vars(BuildStep)
  /\ WF_vars(ApplySnapshot)
  /\ WF_vars(ScrollFires)

Spec == Init /\ [][Next]_vars
FairSpec == Spec /\ Fairness

-----------------------------------------------------------------------------
(* The supplementary views, derived from the displayed snapshot.           *)

SectionOf(snap, k) ==
  CHOOSE s \in DOMAIN snap.sections : k \in Positions(snap, s)

\* SeenBadgeBuilder: the position of the one badge, 0 if there is none.
SeenBadge(snap) == LastSeen(snap.items)

\* AvatarBadgeBuilder: an avatar beside an incoming message that ends its section.
HasAvatar(snap, k) ==
  /\ snap.items[k].origin = "incoming"
  /\ k = SectionEnd(snap, SectionOf(snap, k))

\* UsernameHeaderBuilder: a section whose first bubble is incoming is headed by
\* the name of that bubble's author.
HasUsername(snap, s) == snap.items[snap.sections[s].first].origin = "incoming"
UsernameOf(snap, s)  == snap.items[snap.sections[s].first].userId

\* DateStampBuilder: the header of a section shows a date when an hour or more
\* has passed since the message before it, or when there is none before it.
HasDate(snap, s) ==
  LET k == snap.sections[s].first
  IN  IF k = 1 THEN TRUE ELSE Delta(snap.items[k - 1], snap.items[k]) >= 1

-----------------------------------------------------------------------------
(* Properties.                                                             *)

Snapshot == [items : Seq(Message), sections : Seq(Section)]

TypeOK ==
  /\ shown \in Snapshot
  /\ pc \in {"idle", "building", "trapped"}
  /\ data \in Snapshot
  /\ messages \in Seq(Message)
  /\ i \in Nat
  /\ scrolls \in 0 .. MaxScrolls
  /\ given \in Seq(Message)

\* The corners a bubble must have at position k of a run from a to b.
CornerIn(k, a, b) ==
  CASE a = b            -> "basic"
    [] a # b /\ k = a   -> "top"
    [] a # b /\ k = b   -> "bottom"
    [] OTHER            -> "middle"

\* Sections cut the list into non-empty runs, one after the other.
Partitioned(snap) ==
  /\ (snap.sections = <<>>) <=> (snap.items = <<>>)
  /\ snap.sections # <<>> => snap.sections[1].first = 1
  /\ \A s \in DOMAIN snap.sections : snap.sections[s].first <= SectionEnd(snap, s)

\* A lone bubble has basic corners; a longer run has a top, middles, a bottom.
WellRounded(snap) ==
  \A s \in DOMAIN snap.sections : \A k \in Positions(snap, s) :
    snap.items[k].corners = CornerIn(k, snap.sections[s].first, SectionEnd(snap, s))

\* The displayed list is a partition into sections whose corners fit: what the
\* delete-and-append-again of DataBuilder.build has to keep up, whether a
\* section grows in one call or over several.
RoundingFollowsSections == Partitioned(shown) /\ WellRounded(shown)

\* Two neighbours belong to one run of bubbles.
SameRun(a, b) == a.origin = b.origin /\ a.userId = b.userId /\ Delta(a, b) <= 2

\* Two neighbours share a section exactly when they have one origin and one
\* author and are at most two whole hours apart: the split of "different users
\* into new sections" that build's comment asks for, and no other split.
Grouped(snap) ==
  \A s \in DOMAIN snap.sections :
    /\ \A k \in Positions(snap, s) :
         /\ snap.items[k].origin = snap.sections[s].origin
         /\ k > snap.sections[s].first => SameRun(snap.items[k - 1], snap.items[k])
    /\ s > 1 => LET k == snap.sections[s].first
                IN  ~ SameRun(snap.items[k - 1], snap.items[k])
SectionsAreRuns == Grouped(shown)

\* What the reader sees around an incoming message is its own author's: the
\* name above its section and the avatar below it.  (The header names the
\* first message of the section, the avatar stands at the last.)
HeadersNameTheAuthor ==
  \A s \in DOMAIN shown.sections : \A k \in Positions(shown, s) :
    shown.items[k].origin = "incoming" =>
      /\ HasUsername(shown, s)
      /\ UsernameOf(shown, s) = shown.items[k].userId
      /\ \E l \in Positions(shown, s) : /\ l >= k
                                        /\ HasAvatar(shown, l)
                                        /\ shown.items[l].userId = shown.items[k].userId

\* No gap of three hours or more goes undated: the later message opens a
\* section and the section has a date header.  Relates the two-hour rule of
\* DataBuilder to the one-hour rule of DateStampBuilder.
LongGapsAreDated ==
  \A k \in 2 .. LastPos(shown) :
    Delta(shown.items[k - 1], shown.items[k]) >= 3 =>
      \E s \in DOMAIN shown.sections :
        shown.sections[s].first = k /\ HasDate(shown, s)

\* The app crashes neither in build, nor in the forced unwrapping of data's last item,
\* nor in a scroll block, which fires later, when the list may have been replaced.
NoTrap == pc # "trapped"

\* Every call that enters build returns: the loop, whose skip test re-reads the
\* growing itemIdentifiers.count, neither stalls nor crashes.
BuildsReturn == (pc = "building") ~> (pc = "idle")

-----------------------------------------------------------------------------
(* What the screen promises its callers: see ChatFeed.                     *)

Content(m) == [origin |-> m.origin, userId |-> m.userId, date |-> m.date]
Contents(msgs) == [k \in DOMAIN msgs |-> Content(msgs[k])]

Feed == INSTANCE ChatFeed WITH
  Lists   <- Batches,
  feed    <- Contents(shown.items),
  badge   <- SeenBadge(shown),
  pending <- IF pc = "building"
               THEN <<[feed |-> Contents(messages), badge |-> LastSeen(messages), list |-> given]>>
               ELSE <<>>

\* The incremental layout implements the flat list: nothing is lost, doubled or
\* reordered on the way into sections, and the seen badge is at the last message
\* that was handed over as seen, although older items keep outdated flags.
ImplementsFeed == Feed!Spec
=============================================================================
