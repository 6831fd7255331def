--------------------------- MODULE ChatFeedProofs ---------------------------
(***************************************************************************)
(* Proofs about what a reader of ChatView sees: names, dates, crashes and  *)
(* the flat feed.  They add to the invariant of ChatViewProofs that a      *)
(* section has one author, that every message is in one section, and that  *)
(* while build runs the badge is where the list it was given puts it.      *)
(***************************************************************************)
EXTENDS ChatViewProofs, WellFoundedInduction

\* Sections follow each other, so that no position is in two of them.  It follows
\* from Partitioned by induction over the sections; stated outright it needs none.
Ordered(snap) ==
  \A s, t \in DOMAIN snap.sections : s < t => snap.sections[s].first < snap.sections[t].first

Covered(snap) ==
  \A k \in 1 .. LastPos(snap) : \E s \in DOMAIN snap.sections : k \in Positions(snap, s)

\* Grouped says so of neighbours; for a whole section it takes an induction.
OneAuthor(snap) ==
  \A s \in DOMAIN snap.sections : \A k \in Positions(snap, s) :
    snap.items[k].userId = snap.items[snap.sections[s].first].userId

Sectioned(snap) == Ordered(snap) /\ Covered(snap) /\ OneAuthor(snap)

SInv == IInv /\ Sectioned(shown) /\ Sectioned(data)

-----------------------------------------------------------------------------
(* Sections.                                                               *)

LEMMA EmptySectioned == Sectioned(EmptySnapshot)
<1>1. EmptySnapshot.items = <<>> /\ EmptySnapshot.sections = <<>> /\ DOMAIN <<>> = {} /\ Len(<<>>) = 0
  BY EmptySeq DEF EmptySnapshot
<1>2. QED
  BY <1>1 DEF Sectioned, Ordered, Covered, OneAuthor, LastPos

\* A section of its own.
LEMMA StartSectionSectioned ==
  ASSUME NEW snap \in Snapshot, NEW m \in Message, WellLaid(snap), Sectioned(snap)
  PROVE  Sectioned(StartSection(snap, m))
<1> DEFINE new == StartSection(snap, m)
           n   == Len(snap.items)
           q   == Len(snap.sections)
<1>1. /\ new \in Snapshot
      /\ Len(new.items) = n + 1
      /\ Len(new.sections) = q + 1
      /\ \A k \in 1 .. n : new.items[k] = snap.items[k]
      /\ \A s \in 1 .. q : new.sections[s] = snap.sections[s]
      /\ new.sections[q + 1] = [origin |-> m.origin, first |-> n + 1]
  BY StartSectionShape
<1>2. /\ n \in Nat /\ q \in Nat
      /\ DOMAIN snap.sections = 1 .. q
      /\ DOMAIN new.sections = 1 .. q + 1
      /\ \A s \in 1 .. q : snap.sections[s].first \in 1 .. n
  BY <1>1, SnapshotFacts, LenProperties DEF WellLaid, Snapshot
<1>3. /\ \A s \in 1 .. q : Positions(new, s) = Positions(snap, s) /\ Positions(snap, s) \subseteq 1 .. n
      /\ Positions(new, q + 1) = {n + 1}
  BY StartSectionPositions
<1> HIDE DEF new, n, q
<1>4. Ordered(new)
  <2>1. ASSUME NEW s \in 1 .. q + 1, NEW t \in 1 .. q + 1, s < t
        PROVE  new.sections[s].first < new.sections[t].first
    <3>1. s \in 1 .. q
      BY <1>2, <2>1
    <3>2. CASE t = q + 1
      BY <1>1, <1>2, <3>1, <3>2
    <3>3. CASE t \in 1 .. q
      <4>1. snap.sections[s].first < snap.sections[t].first
        BY <1>2, <2>1, <3>1, <3>3 DEF Sectioned, Ordered
      <4>2. QED
        BY <1>1, <3>1, <3>3, <4>1
    <3>4. QED
      BY <1>2, <3>2, <3>3
  <2>2. QED
    BY <1>2, <2>1 DEF Ordered
<1>5. Covered(new)
  <2>1. ASSUME NEW k \in 1 .. n + 1
        PROVE  \E s \in 1 .. q + 1 : k \in Positions(new, s)
    <3>1. CASE k = n + 1
      BY <1>2, <1>3, <3>1
    <3>2. CASE k \in 1 .. n
      <4>1. PICK s \in 1 .. q : k \in Positions(snap, s)
        BY <1>2, <3>2 DEF Sectioned, Covered, LastPos, n
      <4>2. QED
        BY <1>2, <1>3, <4>1
    <3>3. QED
      BY <1>2, <3>1, <3>2
  <2>2. QED
    BY <1>1, <1>2, <2>1 DEF Covered, LastPos
<1>6. OneAuthor(new)
  <2>1. ASSUME NEW s \in 1 .. q + 1, NEW k \in Positions(new, s)
        PROVE  new.items[k].userId = new.items[new.sections[s].first].userId
    <3>1. CASE s = q + 1
      BY <1>1, <1>3, <3>1
    <3>2. CASE s \in 1 .. q
      <4>1. k \in Positions(snap, s) /\ k \in 1 .. n /\ snap.sections[s].first \in 1 .. n
        BY <1>2, <1>3, <3>2
      <4>2. snap.items[k].userId = snap.items[snap.sections[s].first].userId
        BY <1>2, <3>2, <4>1 DEF Sectioned, OneAuthor
      <4>3. QED
        BY <1>1, <3>2, <4>1, <4>2
    <3>3. QED
      BY <1>2, <3>1, <3>2
  <2>2. QED
    BY <1>2, <2>1 DEF OneAuthor
<1>7. QED
  BY <1>4, <1>5, <1>6 DEF Sectioned, new

\* A message of the same author joins the last section.
LEMMA JoinSectionSectioned ==
  ASSUME NEW snap \in Snapshot, NEW prev \in Message, NEW m \in Message,
         WellLaid(snap), Sectioned(snap), snap.items # <<>>,
         Content(prev) = Content(snap.items[Len(snap.items)]),
         SameRun(prev, m)
  PROVE  Sectioned(JoinSection(snap, prev, m))
<1> DEFINE new == JoinSection(snap, prev, m)
           n   == Len(snap.items)
           q   == Len(snap.sections)
           f   == snap.sections[q].first
<1>1. /\ n \in Nat \ {0}
      /\ Len(new.items) = n + 1
      /\ new.sections = snap.sections
      /\ \A k \in 1 .. n - 1 : new.items[k] = snap.items[k]
      /\ new.items[n] = Rounded(prev, IF LastSectionCount(snap) = 1 THEN "top" ELSE "middle")
      /\ new.items[n + 1] = Rounded(m, "bottom")
  BY JoinSectionShape
<1>2. /\ q \in Nat
      /\ DOMAIN snap.sections = 1 .. q
      /\ n = 0 <=> q = 0
      /\ \A s \in 1 .. q : snap.sections[s].first \in 1 .. n
  BY SnapshotFacts DEF WellLaid
<1>3. /\ \A s \in 1 .. q - 1 : Positions(new, s) = Positions(snap, s) /\ Positions(snap, s) \subseteq 1 .. n - 1
      /\ Positions(new, q) = f .. n + 1
      /\ Positions(snap, q) = f .. n
  BY JoinSectionPositions
<1>4. q \in 1 .. q /\ f \in 1 .. n /\ n \in 1 .. n
  BY <1>1, <1>2
<1>5. /\ \A k \in 1 .. n : Content(new.items[k]) = Content(snap.items[k])
      /\ Content(new.items[n + 1]) = Content(m)
      /\ Content(new.items[n]) = Content(prev)
  BY <1>1, RoundedContent DEF Rounding
<1> HIDE DEF new, n, q, f
<1>6. \A k \in 1 .. n : new.items[k].userId = snap.items[k].userId
  BY <1>5 DEF Content
<1>7. new.items[n + 1].userId = new.items[n].userId
  BY <1>5 DEF Content, SameRun
<1>8. Ordered(new)
  BY <1>1 DEF Sectioned, Ordered
<1>9. Covered(new)
  <2>1. ASSUME NEW k \in 1 .. n + 1
        PROVE  \E s \in 1 .. q : k \in Positions(new, s)
    <3>1. CASE k = n + 1
      BY <1>1, <1>3, <1>4, <3>1
    <3>2. CASE k \in 1 .. n
      <4>1. PICK s \in 1 .. q : k \in Positions(snap, s)
        BY <1>2, <3>2 DEF Sectioned, Covered, LastPos, n
      <4>2. CASE s = q
        BY <1>1, <1>3, <1>4, <4>1, <4>2
      <4>3. CASE s \in 1 .. q - 1
        BY <1>3, <4>1, <4>3
      <4>4. QED
        BY <1>2, <4>2, <4>3
    <3>3. QED
      BY <1>1, <3>1, <3>2
  <2>2. QED
    BY <1>1, <1>2, <2>1 DEF Covered, LastPos
<1>10. OneAuthor(new)
  <2>1. ASSUME NEW s \in 1 .. q, NEW k \in Positions(new, s)
        PROVE  new.items[k].userId = new.items[snap.sections[s].first].userId
    <3>1. ASSUME NEW l \in Positions(snap, s), l \in 1 .. n
          PROVE  new.items[l].userId = new.items[snap.sections[s].first].userId
      <4>1. snap.items[l].userId = snap.items[snap.sections[s].first].userId
        BY <1>2 DEF Sectioned, OneAuthor
      <4>2. QED
        BY <1>2, <1>6, <3>1, <4>1
    <3>2. CASE s = q
      <4>1. k \in f .. n + 1 /\ n \in f .. n
        BY <1>1, <1>3, <1>4, <3>2
      <4>2. CASE k = n + 1
        <5>1. new.items[n].userId = new.items[snap.sections[s].first].userId
          BY <1>3, <1>4, <3>1, <3>2, <4>1
        <5>2. QED
          BY <1>7, <4>2, <5>1
      <4>3. CASE k \in f .. n
        BY <1>1, <1>3, <1>4, <3>1, <3>2, <4>3
      <4>4. QED
        BY <1>1, <1>4, <4>1, <4>2, <4>3
    <3>3. CASE s \in 1 .. q - 1
      <4>1. k \in Positions(snap, s) /\ k \in 1 .. n
        BY <1>1, <1>3, <3>3
      <4>2. QED
        BY <3>1, <4>1
    <3>4. QED
      BY <1>2, <3>2, <3>3
  <2>2. QED
    BY <1>1, <1>2, <2>1 DEF OneAuthor
<1>11. QED
  BY <1>8, <1>9, <1>10 DEF Sectioned, new

-----------------------------------------------------------------------------
(* Names and dates.                                                        *)

LEMMA SInvInit == Init => SInv
BY IInvInit, EmptySectioned DEF Init, SInv

LEMMA SInvNext == SInv /\ [Next]_vars => SInv'
<1> SUFFICES ASSUME SInv, [Next]_vars PROVE SInv'
  OBVIOUS
<1>1. IInv'
  BY IInvNext DEF SInv
<1>2. ASSUME NEW batch \in Batches, AddMessages(batch) \/ DiffMessages(batch)
      PROVE  SInv'
  BY <1>1, <1>2, EmptySectioned DEF AddMessages, DiffMessages, StartBuild, SInv
<1>3. CASE Clear
  BY <1>1, <1>3, EmptySectioned DEF Clear, SInv
<1>4. CASE BuildStep
  <2>1. /\ TypeOK /\ WellLaid(data) /\ Sectioned(data) /\ data \in Snapshot
        /\ i <= LastIndex(messages) /\ i <= Len(data.items) /\ HoldsPrefix(data.items, messages)
        /\ shown' = shown
    BY <1>4 DEF BuildStep, SInv, IInv, TypeOK
  <2>2. CASE SkipStep
    BY <1>1, <2>1, <2>2 DEF SkipStep, SInv
  <2>3. CASE PlaceStep
    <3>1. Sectioned(data')
      BY <2>1, <2>3, PlaceStepCases, StartSectionSectioned, JoinSectionSectioned
    <3>2. QED
      BY <1>1, <2>1, <3>1 DEF SInv
  <2>4. QED
    BY <1>4, <2>2, <2>3 DEF BuildStep
<1>5. CASE ApplySnapshot
  BY <1>1, <1>5, EmptySectioned DEF ApplySnapshot, SInv
<1>6. CASE Scroll \/ ScrollFires
  BY <1>1, <1>6 DEF Scroll, ScrollFires, SInv
<1>7. CASE UNCHANGED vars
  BY <1>1, <1>7 DEF vars, SInv
<1>8. QED
  BY <1>2, <1>3, <1>4, <1>5, <1>6, <1>7 DEF Next

\* In every reachable state every message is in one section, of one author.
THEOREM SectionsInvariance == Spec => []SInv
<1>1. Init => SInv
  BY SInvInit
<1>2. SInv /\ [Next]_vars => SInv'
  BY SInvNext
<1>3. QED
  BY <1>1, <1>2, PTL DEF Spec

\* A position is in one section only: the choice in SectionOf is no choice.
LEMMA SectionUnique ==
  ASSUME NEW snap \in Snapshot, WellLaid(snap), Ordered(snap),
         NEW s \in DOMAIN snap.sections, NEW k \in Positions(snap, s)
  PROVE  SectionOf(snap, k) = s
<1> DEFINE q == Len(snap.sections)
<1>1. /\ q \in Nat /\ DOMAIN snap.sections = 1 .. q
      /\ \A t \in 1 .. q :
           /\ snap.sections[t].first \in Nat
           /\ SectionEnd(snap, t) \in Nat
           /\ t < q => SectionEnd(snap, t) = snap.sections[t + 1].first - 1
  <2>1. /\ q \in Nat /\ DOMAIN snap.sections = 1 .. q /\ Len(snap.items) \in Nat
        /\ \A t \in 1 .. q :
             /\ snap.sections[t].first \in 1 .. Len(snap.items)
             /\ SectionEnd(snap, t) \in snap.sections[t].first .. Len(snap.items)
             /\ t < q => SectionEnd(snap, t) = snap.sections[t + 1].first - 1
    BY SnapshotFacts DEF WellLaid
  <2> DEFINE n == Len(snap.items)
  <2> HIDE DEF q, n
  <2>2. ASSUME NEW t \in 1 .. q
        PROVE  /\ snap.sections[t].first \in Nat
               /\ SectionEnd(snap, t) \in Nat
               /\ t < q => SectionEnd(snap, t) = snap.sections[t + 1].first - 1
    <3> DEFINE f == snap.sections[t].first
               e == SectionEnd(snap, t)
    <3>1. /\ n \in Nat /\ f \in 1 .. n /\ e \in f .. n
          /\ t < q => e = snap.sections[t + 1].first - 1
      BY <2>1 DEF n
    <3> HIDE DEF f, e
    <3>2. f \in Nat /\ e \in Nat
      BY <3>1
    <3>3. QED
      BY <3>1, <3>2 DEF f, e
  <2>3. QED
    BY <2>1, <2>2
<1> HIDE DEF q
<1>2. ASSUME NEW a \in 1 .. q, NEW b \in 1 .. q, a < b, NEW l \in Positions(snap, a)
      PROVE  l \notin Positions(snap, b)
  <2>1. a + 1 \in 1 .. q /\ a < q /\ (a + 1 = b \/ a + 1 < b)
    BY <1>1, <1>2
  <2>2. a + 1 < b => snap.sections[a + 1].first < snap.sections[b].first
    BY <1>1, <2>1 DEF Ordered
  <2>3. /\ snap.sections[a + 1].first \in Nat /\ snap.sections[b].first \in Nat
        /\ SectionEnd(snap, a) = snap.sections[a + 1].first - 1
    BY <1>1, <2>1
  <2>4. SectionEnd(snap, a) < snap.sections[b].first
    BY <2>1, <2>2, <2>3
  <2>5. SectionEnd(snap, a) \in Nat /\ snap.sections[a].first \in Nat /\ SectionEnd(snap, b) \in Nat
    BY <1>1
  <2>6. /\ Positions(snap, a) = snap.sections[a].first .. SectionEnd(snap, a)
        /\ Positions(snap, b) = snap.sections[b].first .. SectionEnd(snap, b)
    BY DEF Positions
  <2> DEFINE fa == snap.sections[a].first
             fb == snap.sections[b].first
             ea == SectionEnd(snap, a)
             eb == SectionEnd(snap, b)
  <2>7. l \in fa .. ea /\ ea < fb /\ {fa, fb, ea, eb} \subseteq Nat
    BY <1>2, <2>3, <2>4, <2>5, <2>6
  <2> HIDE DEF fa, fb, ea, eb
  <2>8. l \notin fb .. eb
    BY <2>7
  <2>9. QED
    BY <2>6, <2>8 DEF fb, eb
<1>3. ASSUME NEW t \in DOMAIN snap.sections, k \in Positions(snap, t)
      PROVE  t = s
  <2>1. t \in 1 .. q /\ s \in 1 .. q
    BY <1>1
  <2>2. ~ (t < s)
    BY <1>2, <1>3, <2>1
  <2>3. ~ (s < t)
    BY <1>2, <1>3, <2>1
  <2>4. QED
    BY <1>1, <2>1, <2>2, <2>3
<1>4. QED
  BY <1>3 DEF SectionOf

\* The name above an incoming message and the avatar below it are its author's,
\* however the list was put together.
THEOREM HeadersCorrect == Spec => []HeadersNameTheAuthor
<1>1. SInv => HeadersNameTheAuthor
  <2> SUFFICES ASSUME SInv, NEW s \in DOMAIN shown.sections, NEW k \in Positions(shown, s),
                      shown.items[k].origin = "incoming"
               PROVE  /\ HasUsername(shown, s)
                      /\ UsernameOf(shown, s) = shown.items[k].userId
                      /\ \E l \in Positions(shown, s) :
                           /\ l >= k
                           /\ HasAvatar(shown, l)
                           /\ shown.items[l].userId = shown.items[k].userId
    BY DEF HeadersNameTheAuthor
  <2> DEFINE f == shown.sections[s].first
             e == SectionEnd(shown, s)
  <2>1. shown \in Snapshot /\ WellLaid(shown) /\ Ordered(shown) /\ OneAuthor(shown)
    BY DEF SInv, IInv, TypeOK, Sectioned
  <2>2. /\ f \in 1 .. Len(shown.items) /\ e \in f .. Len(shown.items) /\ Len(shown.items) \in Nat
    BY <2>1, SnapshotFacts DEF WellLaid
  <2>3. Positions(shown, s) = f .. e
    BY DEF Positions
  <2> HIDE DEF f, e
  <2>4. f \in Positions(shown, s) /\ e \in Positions(shown, s) /\ e >= k
    BY <2>2, <2>3
  <2>5. \A l \in Positions(shown, s) : /\ shown.items[l].origin = "incoming"
                                       /\ shown.items[l].userId = shown.items[f].userId
    BY <2>1 DEF WellLaid, Grouped, OneAuthor, f
  <2>6. SectionOf(shown, e) = s
    BY <2>1, <2>4, SectionUnique
  <2>7. HasAvatar(shown, e)
    BY <2>4, <2>5, <2>6 DEF HasAvatar, e
  <2>8. QED
    BY <2>4, <2>5, <2>7 DEF HasUsername, UsernameOf, f
<1>2. QED
  BY <1>1, SectionsInvariance, PTL

\* The truncated difference of two dates is a whole number of hours.
LEMMA DeltaType ==
  ASSUME NEW a \in Message, NEW b \in Message
  PROVE  Delta(a, b) \in Int
<1>1. a.date \in Int /\ b.date \in Int /\ UnitsPerHour \in Nat \ {0}
  BY ChatViewAssumption DEF Message
<1>2. QED
  BY <1>1 DEF Delta, Abs

\* Three hours or more between two messages always show as a date between them: the
\* later one cannot have joined the section of the earlier.
THEOREM DatesCorrect == Spec => []LongGapsAreDated
<1>1. SInv => LongGapsAreDated
  <2> SUFFICES ASSUME SInv, NEW k \in 2 .. LastPos(shown),
                      Delta(shown.items[k - 1], shown.items[k]) >= 3
               PROVE  \E s \in DOMAIN shown.sections :
                        shown.sections[s].first = k /\ HasDate(shown, s)
    BY DEF LongGapsAreDated
  <2>1. shown \in Snapshot /\ WellLaid(shown) /\ Covered(shown)
    BY DEF SInv, IInv, TypeOK, Sectioned
  <2>2. Len(shown.items) \in Nat /\ LastPos(shown) = Len(shown.items)
        /\ \A l \in 1 .. Len(shown.items) : shown.items[l] \in Message
    BY <2>1, SnapshotFacts DEF WellLaid, LastPos
  <2>3. k \in 1 .. Len(shown.items) /\ k - 1 \in 1 .. Len(shown.items) /\ k # 1
    BY <2>2
  <2>4. PICK s \in DOMAIN shown.sections : k \in Positions(shown, s)
    BY <2>1, <2>2, <2>3 DEF Covered
  <2>5. Delta(shown.items[k - 1], shown.items[k]) \in Int
    BY <2>2, <2>3, DeltaType
  <2>6. shown.sections[s].first \in Nat /\ SectionEnd(shown, s) \in Nat
    <3>1. /\ shown.sections[s].first \in 1 .. Len(shown.items)
          /\ SectionEnd(shown, s) \in shown.sections[s].first .. Len(shown.items)
      BY <2>1, <2>4, SnapshotFacts DEF WellLaid
    <3>2. QED
      BY <2>2, <3>1
  <2>7. ~ (k > shown.sections[s].first)
    BY <2>1, <2>4, <2>5 DEF WellLaid, Grouped, SameRun
  <2>8. shown.sections[s].first = k
    BY <2>3, <2>4, <2>6, <2>7 DEF Positions
  <2>9. HasDate(shown, s)
    BY <2>3, <2>5, <2>8 DEF HasDate
  <2>10. QED
    BY <2>8, <2>9
<1>2. QED
  BY <1>1, SectionsInvariance, PTL

-----------------------------------------------------------------------------
(* Crashes.                                                                *)

\* What keeps the app from a crash: build has a message to lay out, and the list
\* that a scroll looks at is not empty.
TInv ==
  /\ IInv
  /\ pc # "trapped"
  /\ pc = "building" => messages # <<>>
  /\ scrolls > 0 => shown.sections # <<>>

LEMMA TInvInit == Init => TInv
BY IInvInit DEF Init, TInv

LEMMA TInvNext ==
  ASSUME Calls \subseteq {"diff", "scroll"}, <<>> \notin Batches, TInv, [Next]_vars
  PROVE  TInv'
<1>1. IInv'
  BY IInvNext DEF TInv
<1>2. /\ TypeOK /\ WellLaid(data) /\ messages \in Seq(Message) /\ Len(messages) \in Nat
      /\ data \in Snapshot /\ i \in Nat
  BY LenProperties DEF TInv, IInv, TypeOK
<1>3. ASSUME NEW batch \in Batches, AddMessages(batch)
      PROVE  TInv'
  BY <1>3 DEF AddMessages
<1>4. ASSUME NEW batch \in Batches, DiffMessages(batch)
      PROVE  TInv'
  <2>1. /\ pc = "idle" /\ messages' = MarkLastSeen(<<>>, batch)
        /\ pc' = IF LastIndex(messages') < 0 THEN "trapped" ELSE "building"
        /\ shown' = shown /\ scrolls' = scrolls
    BY <1>4 DEF DiffMessages, StartBuild, EmptySnapshot
  <2>2. batch \in Seq(Message) /\ batch # <<>> /\ <<>> \in Seq(Message) /\ Len(<<>>) = 0
    BY <1>4, ChatViewAssumption, EmptySeq
  <2>3. Len(batch) \in Nat /\ Len(batch) # 0
    BY <2>2, EmptySeq, LenProperties
  <2>4. messages' \in Seq(Message) /\ Len(messages') = Len(batch)
    <3>1. messages' \in Seq(Message) /\ Len(messages') = Len(<<>>) + Len(batch)
      BY <2>1, <2>2, MarkLastSeenType
    <3>2. QED
      BY <2>2, <2>3, <3>1
  <2>5. ~ (LastIndex(messages') < 0) /\ messages' # <<>>
    BY <2>2, <2>3, <2>4 DEF LastIndex
  <2>6. QED
    BY <1>1, <2>1, <2>5 DEF TInv
<1>5. CASE Clear
  BY <1>5 DEF Clear
<1>6. CASE BuildStep
  <2>1. pc' = pc
    BY <1>2, <1>6, PlaceStepCases DEF BuildStep, SkipStep, TInv, IInv
  <2>2. QED
    BY <1>1, <1>6, <2>1 DEF BuildStep, TInv
<1>7. CASE ApplySnapshot
  <2>1. /\ pc' = "idle" /\ shown' = data /\ i > LastIndex(messages)
        /\ i <= Len(data.items) /\ messages # <<>>
    BY <1>7 DEF ApplySnapshot, TInv, IInv
  <2>2. Len(messages) # 0
    BY <1>2, <2>1, EmptySeq
  <2>3. Len(data.items) \in Nat /\ Len(data.items) # 0 /\ data.items \in Seq(Message)
    <3>1. data.items \in Seq(Message) /\ Len(data.items) \in Nat
      BY <1>2, LenProperties DEF Snapshot
    <3>2. QED
      BY <1>2, <2>1, <2>2, <3>1 DEF LastIndex
  <2>4. data.sections # <<>>
    BY <1>2, <2>3, EmptySeq DEF WellLaid, Partitioned
  <2>5. QED
    BY <1>1, <2>1, <2>4 DEF TInv
<1>8. CASE Scroll
  BY <1>1, <1>8 DEF Scroll, ScrollToBottom, TInv
<1>9. CASE ScrollFires
  <2>1. scrolls \in Nat /\ scrolls > 0 /\ shown' = shown /\ scrolls' = scrolls - 1 /\ pc = "idle"
    BY <1>2, <1>9, ChatViewAssumption DEF ScrollFires, TypeOK
  <2>2. shown.sections # <<>>
    BY <2>1 DEF TInv
  <2>3. ~ (LastSectionCount(shown) < 1)
    <3> DEFINE s == Len(shown.sections)
    <3>1. /\ shown.sections \in Seq(Section) /\ Len(shown.sections) \in Nat \ {0}
          /\ shown.items \in Seq(Message) /\ Len(shown.items) \in Nat
      BY <1>2, <2>2, EmptySeq, LenProperties DEF TypeOK, Snapshot
    <3>2. s \in DOMAIN shown.sections
      BY <3>1, LenProperties
    <3>3. shown.sections[s].first \in Nat
      <4>1. shown.sections[s] \in Section
        BY <3>1, <3>2
      <4>2. QED
        BY <4>1 DEF Section
    <3>4. shown.sections[s].first <= SectionEnd(shown, s) /\ SectionEnd(shown, s) = Len(shown.items)
      BY <3>2 DEF TInv, IInv, WellLaid, Partitioned, SectionEnd, LastPos
    <3>5. QED
      BY <3>1, <3>3, <3>4 DEF LastSectionCount, LastPos
  <2>4. pc' = pc
    BY <1>9, <2>2, <2>3 DEF ScrollFires
  <2>5. QED
    BY <1>1, <2>1, <2>2, <2>4 DEF TInv
<1>10. CASE UNCHANGED vars
  BY <1>1, <1>10 DEF vars, TInv
<1>11. QED
  BY <1>3, <1>4, <1>5, <1>6, <1>7, <1>8, <1>9, <1>10 DEF Next

\* An app that only replaces the list, never by an empty one, and scrolls whenever it
\* likes does not crash in build or in a scroll that fires late: getMessages' test for
\* an empty snapshot is all it takes.
THEOREM AppNeverTraps ==
  ASSUME Calls \subseteq {"diff", "scroll"}, <<>> \notin Batches
  PROVE  Spec => []NoTrap
<1>1. Init => TInv
  BY TInvInit
<1>2. TInv /\ [Next]_vars => TInv'
  BY TInvNext
<1>3. TInv => NoTrap
  BY DEF TInv, NoTrap
<1>4. QED
  BY <1>1, <1>2, <1>3, PTL DEF Spec

-----------------------------------------------------------------------------
(* The badge and the flat feed.                                            *)

\* A set of positions that is not empty has a greatest one.
LEMMA GreatestPosition ==
  ASSUME NEW n \in Nat, NEW T, T \subseteq 1 .. n, T # {}
  PROVE  \E x \in T : \A y \in T : y <= x
<1> DEFINE Rest == {n - t : t \in T}
           Less == OpToRel(<, Nat)
<1>1. Rest \subseteq Nat /\ Rest # {}
  <2>1. \A t \in T : t \in 1 .. n /\ n - t \in Nat
    OBVIOUS
  <2>2. PICK t \in T : TRUE
    OBVIOUS
  <2>3. n - t \in Rest
    OBVIOUS
  <2>4. QED
    BY <2>1, <2>3
<1>2. IsWellFoundedOn(Less, Nat)
  BY NatLessThanWellFounded, Zenon
<1>3. \A a, b \in Nat : a < b => <<a, b>> \in Less
  BY DEF OpToRel
<1> HIDE DEF Less
<1>4. PICK r \in Rest : \A u \in Rest : ~ (<<u, r>> \in Less)
  BY <1>1, <1>2, WFMin
<1>5. PICK x \in T : r = n - x
  BY <1>4
<1>6. ASSUME NEW y \in T
      PROVE  y <= x
  <2>1. n - y \in Rest /\ n - y \in Nat /\ n - x \in Nat
    OBVIOUS
  <2>2. ~ (n - y < n - x)
    BY <1>3, <1>4, <1>5, <2>1
  <2>3. QED
    BY <2>2
<1>7. QED
  BY <1>6

\* LastSeen is the greatest position of a seen message.
LEMMA LastSeenFacts ==
  ASSUME NEW msgs \in Seq(Message)
  PROVE  /\ SeenPositions(msgs) \subseteq 1 .. Len(msgs)
         /\ SeenPositions(msgs) = {} => LastSeen(msgs) = 0
         /\ SeenPositions(msgs) # {} => /\ LastSeen(msgs) \in SeenPositions(msgs)
                                        /\ \A l \in SeenPositions(msgs) : l <= LastSeen(msgs)
<1>1. SeenPositions(msgs) \subseteq 1 .. Len(msgs) /\ Len(msgs) \in Nat
  BY LenProperties DEF SeenPositions
<1>2. ASSUME SeenPositions(msgs) # {}
      PROVE  \E k \in SeenPositions(msgs) : \A l \in SeenPositions(msgs) : l <= k
  BY <1>1, <1>2, GreatestPosition
<1>3. QED
  BY <1>1, <1>2 DEF LastSeen

\* Only one position can be that.
LEMMA LastSeenIs ==
  ASSUME NEW msgs \in Seq(Message), NEW k \in SeenPositions(msgs),
         \A l \in SeenPositions(msgs) : l <= k
  PROVE  LastSeen(msgs) = k
<1>1. /\ LastSeen(msgs) \in SeenPositions(msgs) /\ k <= LastSeen(msgs)
      /\ SeenPositions(msgs) \subseteq 1 .. Len(msgs)
  BY LastSeenFacts
<1>2. LastSeen(msgs) <= k
  BY <1>1
<1>3. LastSeen(msgs) \in Int /\ k \in Int
  BY <1>1
<1>4. QED
  BY <1>1, <1>2, <1>3

ContentType == [origin : Origin, userId : Users, date : Dates]

LEMMA ContentsFacts ==
  ASSUME NEW msgs \in Seq(Message)
  PROVE  /\ Contents(msgs) \in Seq(ContentType)
         /\ Len(Contents(msgs)) = Len(msgs)
         /\ \A k \in 1 .. Len(msgs) : Contents(msgs)[k] = Content(msgs[k])
<1>1. Len(msgs) \in Nat /\ DOMAIN msgs = 1 .. Len(msgs)
  BY LenProperties
<1>2. \A k \in 1 .. Len(msgs) : Content(msgs[k]) \in ContentType
  <2> TAKE k \in 1 .. Len(msgs)
  <2>1. msgs[k] \in Message
    BY ElementOfSeq
  <2>2. QED
    BY <2>1 DEF Message, Content, ContentType
<1>3. Contents(msgs) \in [1 .. Len(msgs) -> ContentType]
  BY <1>1, <1>2 DEF Contents
<1>4. QED
  BY <1>1, <1>3, SeqDef DEF Contents

\* Lists of equal contents, position by position, have equal contents.
LEMMA ContentsEqual ==
  ASSUME NEW a \in Seq(Message), NEW b \in Seq(Message), Len(a) = Len(b),
         \A k \in 1 .. Len(a) : Content(a[k]) = Content(b[k])
  PROVE  Contents(a) = Contents(b)
<1>1. /\ Contents(a) \in Seq(ContentType) /\ Contents(b) \in Seq(ContentType)
      /\ Len(Contents(a)) = Len(Contents(b))
      /\ \A k \in 1 .. Len(Contents(a)) : Contents(a)[k] = Contents(b)[k]
  BY ContentsFacts
<1>2. QED
  BY <1>1, SeqEqual

\* The list build works on when a list follows the displayed messages: its flags and
\* contents.
LEMMA MarkedFlags ==
  ASSUME NEW old \in Seq(Message), NEW new \in Seq(Message)
  PROVE  LET all    == old \o new
             marked == MarkLastSeen(old, new)
         IN  /\ \A k \in 1 .. Len(old) : all[k] = old[k]
             /\ \A k \in 1 .. Len(new) : all[Len(old) + k] = new[k]
             /\ \A k \in 1 .. Len(all) : Content(marked[k]) = Content(all[k])
             /\ SeenPositions(new) = {} => marked = all
             /\ SeenPositions(new) # {} =>
                  \A k \in 1 .. Len(all) : marked[k].seen <=> k = LastSeen(all)
<1> DEFINE all == old \o new
           flagged == [k \in DOMAIN all |-> [all[k] EXCEPT !.seen = (k = LastSeen(all))]]
<1>1. /\ Len(old) \in Nat /\ Len(new) \in Nat
      /\ all \in Seq(Message) /\ Len(all) = Len(old) + Len(new)
      /\ DOMAIN all = 1 .. Len(all)
      /\ \A k \in 1 .. Len(all) : all[k] = IF k <= Len(old) THEN old[k] ELSE new[k - Len(old)]
  BY ConcatProperties, LenProperties
<1>2. \A k \in 1 .. Len(all) : all[k] \in Message
  BY <1>1, ElementOfSeq
<1> HIDE DEF all
<1>3. \A k \in 1 .. Len(old) : all[k] = old[k]
  BY <1>1
<1>4. \A k \in 1 .. Len(new) : all[Len(old) + k] = new[k]
  <2> TAKE k \in 1 .. Len(new)
  <2>1. /\ Len(old) + k \in 1 .. Len(all) /\ ~ (Len(old) + k <= Len(old))
        /\ (Len(old) + k) - Len(old) = k
    BY <1>1
  <2>2. QED
    BY <1>1, <2>1
<1>5. ASSUME NEW k \in 1 .. Len(all)
      PROVE  (flagged[k].seen <=> k = LastSeen(all)) /\ Content(flagged[k]) = Content(all[k])
  <2>1. flagged[k] = [all[k] EXCEPT !.seen = (k = LastSeen(all))]
    BY <1>1
  <2>2. (k = LastSeen(all)) \in BOOLEAN /\ all[k] \in Message
    BY <1>2
  <2>3. Content(flagged[k]) = Content(all[k])
    BY <2>1, <2>2, FlaggedContent
  <2>4. flagged[k].seen = (k = LastSeen(all))
    BY <2>1, <2>2 DEF Message
  <2>5. QED
    BY <2>3, <2>4
<1>6. MarkLastSeen(old, new) = IF SeenPositions(new) = {} THEN all ELSE flagged
  BY DEF MarkLastSeen, all
<1>7. QED
  BY <1>3, <1>4, <1>5, <1>6 DEF all

\* A list that follows others: the last message of it that was seen is the last one of
\* all; without one, the badge stays.
LEMMA LastSeenOfBoth ==
  ASSUME NEW old \in Seq(Message), NEW new \in Seq(Message)
  PROVE  LET all == old \o new
         IN  /\ SeenPositions(new) = {} => LastSeen(all) = LastSeen(old)
             /\ SeenPositions(new) # {} => /\ LastSeen(all) = Len(old) + LastSeen(new)
                                           /\ LastSeen(all) \in Len(old) + 1 .. Len(all)
<1> DEFINE all == old \o new
           m   == Len(old)
<1>1. /\ m \in Nat /\ Len(new) \in Nat
      /\ all \in Seq(Message) /\ Len(all) = m + Len(new)
      /\ DOMAIN all = 1 .. Len(all) /\ DOMAIN old = 1 .. m /\ DOMAIN new = 1 .. Len(new)
  BY ConcatProperties, LenProperties
<1>2. /\ \A k \in 1 .. m : all[k] = old[k]
      /\ \A k \in 1 .. Len(new) : all[m + k] = new[k]
  BY MarkedFlags
<1> HIDE DEF all, m
<1>3. ASSUME NEW k \in SeenPositions(all)
      PROVE  k \in SeenPositions(old) \/ (k - m \in SeenPositions(new) /\ k > m)
  <2>1. k \in 1 .. Len(all) /\ all[k].seen
    BY <1>1 DEF SeenPositions
  <2>2. CASE k \in 1 .. m
    BY <1>1, <1>2, <2>1, <2>2 DEF SeenPositions
  <2>3. CASE k > m
    <3>1. k - m \in 1 .. Len(new) /\ m + (k - m) = k
      BY <1>1, <2>1, <2>3
    <3>2. all[k] = new[k - m]
      BY <1>2, <3>1
    <3>3. QED
      BY <1>1, <2>1, <2>3, <3>1, <3>2 DEF SeenPositions
  <2>4. QED
    BY <1>1, <2>1, <2>2, <2>3
<1>4. SeenPositions(old) \subseteq SeenPositions(all)
  BY <1>1, <1>2 DEF SeenPositions
<1>5. CASE SeenPositions(new) = {}
  <2>1. SeenPositions(all) = SeenPositions(old)
    BY <1>3, <1>4, <1>5
  <2>2. QED
    BY <1>5, <2>1 DEF LastSeen, all
<1>6. CASE SeenPositions(new) # {}
  <2> DEFINE j == LastSeen(new)
  <2>1. /\ j \in SeenPositions(new) /\ j \in 1 .. Len(new)
        /\ \A l \in SeenPositions(new) : l <= j
    BY <1>6, LastSeenFacts
  <2> HIDE DEF j
  <2>2. m + j \in 1 .. Len(all) /\ m + j \in m + 1 .. Len(all)
    BY <1>1, <2>1
  <2>3. m + j \in SeenPositions(all)
    BY <1>1, <1>2, <2>1, <2>2 DEF SeenPositions
  <2>4. ASSUME NEW k \in SeenPositions(all)
        PROVE  k <= m + j
    <3>1. k \in 1 .. Len(all)
      BY <1>1 DEF SeenPositions
    <3>2. CASE k \in SeenPositions(old)
      <4>1. k \in 1 .. m
        BY <1>1, <3>2 DEF SeenPositions
      <4>2. QED
        BY <1>1, <2>1, <4>1
    <3>3. CASE k - m \in SeenPositions(new)
      <4>1. k - m <= j
        BY <2>1, <3>3
      <4>2. QED
        BY <1>1, <2>1, <3>1, <4>1
    <3>4. QED
      BY <1>3, <3>2, <3>3
  <2>5. LastSeen(all) = m + j
    BY <1>1, <2>3, <2>4, LastSeenIs
  <2>6. QED
    BY <1>6, <2>2, <2>5 DEF all, m, j
<1>7. QED
  BY <1>5, <1>6

\* The last seen message of items is at the same place as in msgs, or further on in
\* msgs: flags of older items may be outdated, but not those that count.
BadgeHolds(items, msgs) ==
  \A k \in 1 .. Len(items) :
    /\ msgs[k].seen => items[k].seen
    /\ items[k].seen => \E l \in k .. Len(msgs) : msgs[l].seen

\* What build makes of the displayed list and the one it is given.
LEMMA EnterBuild ==
  ASSUME NEW old \in Seq(Message), NEW new \in Seq(Message)
  PROVE  /\ Contents(MarkLastSeen(old, new)) = Contents(old) \o Contents(new)
         /\ LastSeen(MarkLastSeen(old, new)) =
              IF SeenPositions(new) = {} THEN LastSeen(old) ELSE Len(old) + LastSeen(new)
         /\ BadgeHolds(old, MarkLastSeen(old, new))
<1> DEFINE all    == old \o new
           marked == MarkLastSeen(old, new)
           m      == Len(old)
<1>1. /\ m \in Nat /\ Len(new) \in Nat
      /\ all \in Seq(Message) /\ marked \in Seq(Message)
      /\ Len(all) = m + Len(new) /\ Len(marked) = m + Len(new)
      /\ DOMAIN marked = 1 .. Len(marked)
  BY ConcatProperties, LenProperties, MarkLastSeenType
<1>2. /\ \A k \in 1 .. m : all[k] = old[k]
      /\ \A k \in 1 .. Len(new) : all[m + k] = new[k]
      /\ \A k \in 1 .. Len(all) : Content(marked[k]) = Content(all[k])
      /\ SeenPositions(new) = {} => marked = all
      /\ SeenPositions(new) # {} => \A k \in 1 .. Len(all) : marked[k].seen <=> k = LastSeen(all)
  BY MarkedFlags
<1>3. /\ SeenPositions(new) = {} => LastSeen(all) = LastSeen(old)
      /\ SeenPositions(new) # {} => /\ LastSeen(all) = m + LastSeen(new)
                                    /\ LastSeen(all) \in m + 1 .. Len(all)
  BY LastSeenOfBoth
<1>4. /\ Contents(old) \in Seq(ContentType) /\ Len(Contents(old)) = m
      /\ Contents(new) \in Seq(ContentType) /\ Len(Contents(new)) = Len(new)
      /\ Contents(marked) \in Seq(ContentType) /\ Len(Contents(marked)) = Len(marked)
      /\ \A k \in 1 .. m : Contents(old)[k] = Content(old[k])
      /\ \A k \in 1 .. Len(new) : Contents(new)[k] = Content(new[k])
      /\ \A k \in 1 .. Len(marked) : Contents(marked)[k] = Content(marked[k])
  BY <1>1, ContentsFacts
<1> HIDE DEF all, marked, m
<1>5. Contents(marked) = Contents(old) \o Contents(new)
  <2> DEFINE both == Contents(old) \o Contents(new)
  <2>1. /\ both \in Seq(ContentType) /\ Len(both) = m + Len(new)
        /\ \A k \in 1 .. m + Len(new) :
             both[k] = IF k <= m THEN Contents(old)[k] ELSE Contents(new)[k - m]
    <3>1. Contents(old) \in Seq(ContentType) /\ Contents(new) \in Seq(ContentType)
      BY <1>4
    <3>2. /\ both \in Seq(ContentType)
          /\ Len(both) = Len(Contents(old)) + Len(Contents(new))
          /\ \A k \in 1 .. Len(Contents(old)) + Len(Contents(new)) :
               both[k] = IF k <= Len(Contents(old))
                           THEN Contents(old)[k]
                           ELSE Contents(new)[k - Len(Contents(old))]
      BY ONLY <3>1, ConcatProperties
    <3> HIDE DEF both
    <3>3. QED
      BY <1>4, <3>2
  <2> HIDE DEF both
  <2>2. ASSUME NEW k \in 1 .. m + Len(new)
        PROVE  Contents(marked)[k] = both[k]
    <3>1. Contents(marked)[k] = Content(all[k])
      BY <1>1, <1>2, <1>4
    <3>2. CASE k <= m
      <4>1. k \in 1 .. m
        BY <1>1, <3>2
      <4>2. QED
        BY <1>2, <1>4, <2>1, <3>1, <3>2, <4>1
    <3>3. CASE k > m
      <4>1. k - m \in 1 .. Len(new) /\ m + (k - m) = k /\ ~ (k <= m)
        BY <1>1, <3>3
      <4>2. all[k] = new[k - m] /\ Contents(new)[k - m] = Content(new[k - m])
        BY <1>2, <1>4, <4>1
      <4>3. QED
        BY <2>1, <3>1, <4>1, <4>2
    <3>4. QED
      BY <1>1, <3>2, <3>3
  <2>3. QED
    BY <1>1, <1>4, <2>1, <2>2, SeqEqual DEF both
<1>6. CASE SeenPositions(new) = {}
  <2>1. marked = all /\ LastSeen(all) = LastSeen(old)
    BY <1>2, <1>3, <1>6
  <2>2. ASSUME NEW k \in 1 .. m
        PROVE  /\ marked[k].seen => old[k].seen
               /\ old[k].seen => \E l \in k .. Len(marked) : marked[l].seen
    <3>1. marked[k] = old[k] /\ k \in k .. Len(marked)
      BY <1>1, <1>2, <2>1
    <3>2. QED
      BY <3>1
  <2>3. QED
    BY <1>5, <1>6, <2>1, <2>2 DEF BadgeHolds, marked, m
<1>7. CASE SeenPositions(new) # {}
  <2> DEFINE b == LastSeen(all)
  <2>1. /\ b = m + LastSeen(new) /\ b \in m + 1 .. Len(all)
        /\ \A k \in 1 .. Len(all) : marked[k].seen <=> k = b
    BY <1>2, <1>3, <1>7
  <2> HIDE DEF b
  <2>2. b \in 1 .. Len(marked) /\ marked[b].seen
    BY <1>1, <2>1
  <2>3. b \in SeenPositions(marked) /\ \A k \in SeenPositions(marked) : k <= b
    BY <1>1, <2>1, <2>2 DEF SeenPositions
  <2>4. LastSeen(marked) = b
    BY <1>1, <2>3, LastSeenIs
  <2>5. ASSUME NEW k \in 1 .. m
        PROVE  /\ marked[k].seen => old[k].seen
               /\ \E l \in k .. Len(marked) : marked[l].seen
    <3>1. k \in 1 .. Len(all) /\ k # b /\ b \in k .. Len(marked)
      BY <1>1, <2>1
    <3>2. QED
      BY <2>1, <2>2, <3>1
  <2>6. QED
    BY <1>5, <1>7, <2>1, <2>4, <2>5 DEF BadgeHolds, marked, m
<1>8. QED
  BY <1>6, <1>7

\* One iteration keeps the badge: the items it writes have the flags of the list.
LEMMA PlaceStepKeepsBadge ==
  ASSUME TypeOK, WellLaid(data), i <= Len(data.items), HoldsPrefix(data.items, messages),
         i <= LastIndex(messages), BadgeHolds(data.items, messages), PlaceStep
  PROVE  BadgeHolds(data'.items, messages)
<1> DEFINE n == Len(data.items)
<1>1. /\ data \in Snapshot /\ messages \in Seq(Message) /\ Len(messages) \in Nat
      /\ n \in Nat /\ n + 1 \in 1 .. Len(messages) /\ messages[n + 1] \in Message
  BY PlaceStepCases, LenProperties DEF TypeOK
<1>2. \A m \in Message, c \in Rounding : Rounded(m, c).seen = m.seen
  BY DEF Rounded, Message
<1>3. SUFFICES ASSUME Len(data'.items) = n + 1,
                      \A k \in 1 .. n - 1 : data'.items[k] = data.items[k],
                      data'.items[n + 1].seen = messages[n + 1].seen,
                      n \in 1 .. n => \/ data'.items[n] = data.items[n]
                                      \/ data'.items[n].seen = messages[n].seen
               PROVE  BadgeHolds(data'.items, messages)
  <2>1. ASSUME data.items # <<>>, n \in 1 .. n, messages[n] \in Message,
               data' = JoinSection(data, messages[n], messages[n + 1])
        PROVE  BadgeHolds(data'.items, messages)
    <3>1. /\ Len(data'.items) = n + 1
          /\ \A k \in 1 .. n - 1 : data'.items[k] = data.items[k]
          /\ data'.items[n] = Rounded(messages[n], IF LastSectionCount(data) = 1
                                                     THEN "top" ELSE "middle")
          /\ data'.items[n + 1] = Rounded(messages[n + 1], "bottom")
      BY <1>1, <2>1, JoinSectionShape
    <3>2. /\ data'.items[n + 1].seen = messages[n + 1].seen
          /\ data'.items[n].seen = messages[n].seen
      BY <1>1, <1>2, <2>1, <3>1 DEF Rounding
    <3>3. QED
      BY <1>3, <3>1, <3>2
  <2>2. ASSUME data' = StartSection(data, messages[n + 1])
        PROVE  BadgeHolds(data'.items, messages)
    <3>1. /\ Len(data'.items) = n + 1
          /\ \A k \in 1 .. n : data'.items[k] = data.items[k]
          /\ data'.items[n + 1] = Rounded(messages[n + 1], "basic")
      BY <1>1, <2>2, StartSectionShape
    <3>2. data'.items[n + 1].seen = messages[n + 1].seen
      BY <1>1, <1>2, <3>1 DEF Rounding
    <3>3. \A k \in 1 .. n - 1 : data'.items[k] = data.items[k]
      BY <1>1, <3>1
    <3>4. QED
      BY <1>3, <3>1, <3>2, <3>3
  <2>3. QED
    BY <2>1, <2>2, PlaceStepCases
<1> HIDE DEF n
<1>4. ASSUME NEW k \in 1 .. n + 1
      PROVE  /\ messages[k].seen => data'.items[k].seen
             /\ data'.items[k].seen => \E l \in k .. Len(messages) : messages[l].seen
  <2>1. k \in k .. Len(messages)
    BY <1>1
  <2>2. CASE k \in 1 .. n /\ data'.items[k] = data.items[k]
    BY <2>2 DEF BadgeHolds, n
  <2>3. CASE data'.items[k].seen = messages[k].seen
    BY <2>1, <2>3
  <2>4. k \in 1 .. n - 1 \/ (k = n /\ n \in 1 .. n) \/ k = n + 1
    BY <1>1
  <2>5. QED
    BY <1>1, <1>3, <2>2, <2>3, <2>4
<1>5. QED
  BY <1>3, <1>4 DEF BadgeHolds

\* Once all of the list is laid out, what is displayed is the list, and the badge is at
\* its last seen message.
LEMMA BuiltList ==
  ASSUME NEW items \in Seq(Message), NEW msgs \in Seq(Message), Len(items) = Len(msgs),
         HoldsPrefix(items, msgs), BadgeHolds(items, msgs)
  PROVE  Contents(items) = Contents(msgs) /\ LastSeen(items) = LastSeen(msgs)
<1>1. Contents(items) = Contents(msgs)
  BY ContentsEqual DEF HoldsPrefix
<1>2. /\ Len(msgs) \in Nat /\ DOMAIN items = 1 .. Len(msgs) /\ DOMAIN msgs = 1 .. Len(msgs)
  BY LenProperties
<1>3. SeenPositions(msgs) \subseteq SeenPositions(items)
  BY <1>2 DEF SeenPositions, BadgeHolds
<1>4. ASSUME NEW k \in SeenPositions(items)
      PROVE  \E l \in SeenPositions(msgs) : k <= l
  <2>1. k \in 1 .. Len(msgs) /\ items[k].seen
    BY <1>2 DEF SeenPositions
  <2>2. PICK l \in k .. Len(msgs) : msgs[l].seen
    BY <2>1 DEF BadgeHolds
  <2>3. l \in 1 .. Len(msgs) /\ k <= l
    BY <1>2, <2>1
  <2>4. QED
    BY <1>2, <2>2, <2>3 DEF SeenPositions
<1>5. CASE SeenPositions(msgs) = {}
  <2>1. SeenPositions(items) = {}
    BY <1>4, <1>5
  <2>2. QED
    BY <1>1, <1>5, <2>1, LastSeenFacts
<1>6. CASE SeenPositions(msgs) # {}
  <2> DEFINE b == LastSeen(msgs)
  <2>1. b \in SeenPositions(msgs) /\ \A l \in SeenPositions(msgs) : l <= b
    BY <1>6, LastSeenFacts
  <2> HIDE DEF b
  <2>2. ASSUME NEW k \in SeenPositions(items)
        PROVE  k <= b
    <3>1. PICK l \in SeenPositions(msgs) : k <= l
      BY <1>4
    <3>2. l <= b /\ k \in Int /\ l \in Int /\ b \in Int
      BY <1>2, <2>1 DEF SeenPositions
    <3>3. QED
      BY <3>1, <3>2
  <2>3. LastSeen(items) = b
    BY <1>3, <2>1, <2>2, LastSeenIs
  <2>4. QED
    BY <1>1, <2>3 DEF b
<1>7. QED
  BY <1>5, <1>6

\* While build runs, the badge is where the list it works on puts it.
BInv == IInv /\ (pc = "building" => BadgeHolds(data.items, messages))

LEMMA EmptyFeed ==
  /\ EmptySnapshot.items = <<>> /\ <<>> \in Seq(Message)
  /\ Contents(<<>>) = <<>> /\ SeenPositions(<<>>) = {} /\ LastSeen(<<>>) = 0
<1>1. <<>> \in Seq(Message) /\ Len(<<>>) = 0 /\ DOMAIN <<>> = {}
  BY EmptySeq
<1>2. Contents(<<>>) \in Seq(ContentType) /\ Len(Contents(<<>>)) = 0
  BY <1>1, ContentsFacts
<1>3. Contents(<<>>) = <<>>
  BY <1>2, EmptySeq
<1>4. SeenPositions(<<>>) = {}
  BY <1>1 DEF SeenPositions
<1>5. QED
  BY <1>1, <1>3, <1>4 DEF LastSeen, EmptySnapshot

LEMMA BInvInit == Init => BInv
BY IInvInit DEF Init, BInv

LEMMA BInvNext == BInv /\ [Next]_vars => BInv'
<1> SUFFICES ASSUME BInv, [Next]_vars PROVE BInv'
  OBVIOUS
<1>1. IInv' /\ TypeOK /\ WellLaid(data) /\ shown.items \in Seq(Message)
  BY IInvNext DEF BInv, IInv, TypeOK, Snapshot
<1>2. ASSUME NEW batch \in Batches, AddMessages(batch) \/ DiffMessages(batch)
      PROVE  BInv'
  <2>1. batch \in Seq(Message)
    BY <1>2, ChatViewAssumption
  <2>2. \E old \in Seq(Message) : data'.items = old /\ messages' = MarkLastSeen(old, batch)
    BY <1>1, <1>2, EmptyFeed DEF AddMessages, DiffMessages, StartBuild
  <2>3. BadgeHolds(data'.items, messages')
    BY <2>1, <2>2, EnterBuild
  <2>4. QED
    BY <1>1, <2>3 DEF BInv
<1>3. CASE Clear
  BY <1>1, <1>3 DEF Clear, BInv
<1>4. CASE BuildStep
  <2>1. /\ i <= LastIndex(messages) /\ i <= Len(data.items) /\ HoldsPrefix(data.items, messages)
        /\ BadgeHolds(data.items, messages) /\ messages' = messages
    BY <1>4 DEF BuildStep, BInv, IInv
  <2>2. CASE SkipStep
    BY <1>1, <2>1, <2>2 DEF SkipStep, BInv
  <2>3. CASE PlaceStep
    <3>1. BadgeHolds(data'.items, messages)
      BY <1>1, <2>1, <2>3, PlaceStepKeepsBadge
    <3>2. QED
      BY <1>1, <2>1, <3>1 DEF BInv
  <2>4. QED
    BY <1>4, <2>2, <2>3 DEF BuildStep
<1>5. CASE ApplySnapshot
  BY <1>1, <1>5 DEF ApplySnapshot, BInv
<1>6. CASE Scroll \/ ScrollFires
  BY <1>1, <1>6 DEF Scroll, ScrollFires, BInv
<1>7. CASE UNCHANGED vars
  BY <1>1, <1>7 DEF vars, BInv
<1>8. QED
  BY <1>2, <1>3, <1>4, <1>5, <1>6, <1>7 DEF Next

\* The abstract feed marks the last seen message of a list as the code does.
LEMMA FeedMarks ==
  ASSUME NEW list, NEW offset, NEW none
  PROVE  /\ Feed!ContentsOf(list) = Contents(list)
         /\ Feed!LastSeenFrom(list, offset, none) =
              IF SeenPositions(list) = {} THEN none ELSE offset + LastSeen(list)
BY DEF Feed!ContentsOf, Feed!LastSeenFrom, Contents, Content, SeenPositions, LastSeen

\* A call that enters build is a call of the abstract feed.
LEMMA AddIsExtend ==
  ASSUME BInv, NEW batch \in Batches, AddMessages(batch), pc' = "building"
  PROVE  Feed!Extend(batch)
<1>1. /\ batch \in Seq(Message) /\ shown.items \in Seq(Message)
      /\ Len(batch) \in Nat /\ Len(shown.items) \in Nat
  BY ChatViewAssumption, LenProperties DEF BInv, IInv, TypeOK, Snapshot
<1>2. /\ pc = "idle" /\ messages' = MarkLastSeen(shown.items, batch) /\ given' = batch
      /\ shown' = shown /\ ~ (LastIndex(messages') < 0)
  BY DEF AddMessages, StartBuild
<1>3. /\ messages' \in Seq(Message) /\ Len(messages') = Len(shown.items) + Len(batch)
      /\ Contents(messages') = Contents(shown.items) \o Contents(batch)
      /\ LastSeen(messages') = IF SeenPositions(batch) = {} THEN LastSeen(shown.items)
                               ELSE Len(shown.items) + LastSeen(batch)
      /\ Len(Contents(shown.items)) = Len(shown.items)
  BY <1>1, <1>2, EnterBuild, MarkLastSeenType, ContentsFacts
<1>4. Len(Contents(shown.items)) + Len(batch) > 0
  BY <1>1, <1>2, <1>3 DEF LastIndex
<1>5. QED
  BY <1>2, <1>3, <1>4, FeedMarks DEF Feed!Extend, SeenBadge

LEMMA DiffIsReplace ==
  ASSUME BInv, NEW batch \in Batches, DiffMessages(batch), pc' = "building"
  PROVE  Feed!Replace(batch)
<1>1. batch \in Seq(Message) /\ Len(batch) \in Nat /\ <<>> \in Seq(Message) /\ Len(<<>>) = 0
  BY ChatViewAssumption, LenProperties, EmptySeq
<1>2. /\ pc = "idle" /\ messages' = MarkLastSeen(<<>>, batch) /\ given' = batch
      /\ shown' = shown /\ ~ (LastIndex(messages') < 0)
  BY EmptyFeed DEF DiffMessages, StartBuild
<1>3. /\ Len(messages') = Len(<<>>) + Len(batch)
      /\ Contents(messages') = Contents(<<>>) \o Contents(batch)
      /\ LastSeen(messages') = IF SeenPositions(batch) = {} THEN LastSeen(<<>>)
                               ELSE Len(<<>>) + LastSeen(batch)
  BY <1>1, <1>2, EnterBuild, MarkLastSeenType
<1>4. Contents(batch) \in Seq(ContentType)
  BY <1>1, ContentsFacts
<1>5. Contents(messages') = Contents(batch)
  BY <1>3, <1>4, EmptyFeed, ConcatEmptySeq
<1>6. LastSeen(messages') = IF SeenPositions(batch) = {} THEN 0 ELSE 0 + LastSeen(batch)
  BY <1>1, <1>3, EmptyFeed
<1>7. batch # <<>>
  <2>1. Len(messages') = Len(batch)
    BY <1>1, <1>3
  <2>2. QED
    BY <1>1, <1>2, <2>1 DEF LastIndex
<1>8. QED
  BY <1>2, <1>5, <1>6, <1>7, FeedMarks DEF Feed!Replace, SeenBadge

\* The end of a call displays its result.
LEMMA ApplyIsDisplay ==
  ASSUME BInv, ApplySnapshot
  PROVE  Feed!Display
<1>1. /\ pc = "building" /\ pc' = "idle" /\ shown' = data /\ i > LastIndex(messages)
      /\ data.items \in Seq(Message) /\ messages \in Seq(Message) /\ i \in Nat
      /\ Len(data.items) \in Nat /\ Len(messages) \in Nat
      /\ i <= Len(data.items) /\ HoldsPrefix(data.items, messages)
      /\ BadgeHolds(data.items, messages)
  BY LenProperties DEF ApplySnapshot, BInv, IInv, TypeOK, Snapshot
<1>2. Len(data.items) = Len(messages)
  BY <1>1 DEF LastIndex, HoldsPrefix
<1>3. Contents(data.items) = Contents(messages) /\ LastSeen(data.items) = LastSeen(messages)
  BY <1>1, <1>2, BuiltList
<1>4. QED
  BY <1>1, <1>3 DEF Feed!Display, SeenBadge

\* The message list implements the flat feed: whatever is laid out in sections, rounded,
\* deleted and appended again, the reader sees the messages that were handed over, in
\* their order, and the seen badge at the last of them that was seen.
THEOREM Refinement == Spec => ImplementsFeed
<1>1. Init => Feed!Init
  BY EmptyFeed DEF Init, Feed!Init, SeenBadge
<1>2. BInv /\ [Next]_vars => [Feed!Next]_(Feed!vars)
  <2> SUFFICES ASSUME BInv, [Next]_vars
               PROVE  Feed!Next \/ UNCHANGED Feed!vars
    OBVIOUS
  <2>1. ASSUME shown' = shown, pc # "building", pc' # "building"
        PROVE  UNCHANGED Feed!vars
    BY <2>1 DEF Feed!vars
  <2>2. ASSUME shown' = shown, pc' = pc, messages' = messages, given' = given
        PROVE  UNCHANGED Feed!vars
    BY <2>2 DEF Feed!vars
  <2>3. ASSUME NEW batch \in Batches, AddMessages(batch)
        PROVE  Feed!Next \/ UNCHANGED Feed!vars
    <3>1. CASE pc' = "building"
      BY <2>3, <3>1, AddIsExtend DEF Feed!Next
    <3>2. CASE pc' # "building"
      BY <2>1, <2>3, <3>2 DEF AddMessages, StartBuild
    <3>3. QED
      BY <3>1, <3>2
  <2>4. ASSUME NEW batch \in Batches, DiffMessages(batch)
        PROVE  Feed!Next \/ UNCHANGED Feed!vars
    <3>1. CASE pc' = "building"
      BY <2>4, <3>1, DiffIsReplace DEF Feed!Next
    <3>2. CASE pc' # "building"
      BY <2>1, <2>4, <3>2 DEF DiffMessages, StartBuild
    <3>3. QED
      BY <3>1, <3>2
  <2>5. CASE Clear
    <3>1. shown'.items = <<>> /\ pc = "idle" /\ pc' = pc
      BY <2>5, EmptyFeed DEF Clear
    <3>2. Feed!Erase
      BY <3>1, EmptyFeed DEF Feed!Erase, SeenBadge
    <3>3. QED
      BY <3>2 DEF Feed!Next
  <2>6. CASE BuildStep
    <3>1. pc' = pc
      BY <2>6, PlaceStepCases DEF BuildStep, SkipStep, BInv, IInv
    <3>2. QED
      BY <2>2, <2>6, <3>1 DEF BuildStep
  <2>7. CASE ApplySnapshot
    BY <2>7, ApplyIsDisplay DEF Feed!Next
  <2>8. CASE Scroll \/ ScrollFires
    BY <2>1, <2>8 DEF Scroll, ScrollFires
  <2>9. CASE UNCHANGED vars
    BY <2>2, <2>9 DEF vars
  <2>10. QED
    BY <2>3, <2>4, <2>5, <2>6, <2>7, <2>8, <2>9 DEF Next
<1>3. Init => BInv
  BY BInvInit
<1>4. BInv /\ [Next]_vars => BInv'
  BY BInvNext
<1>5. QED
  BY <1>1, <1>2, <1>3, <1>4, PTL DEF Spec, ImplementsFeed, Feed!Spec
=============================================================================
