--------------------------- MODULE ChatViewProofs ---------------------------
(***************************************************************************)
(* Proofs about ChatView for every set of users, dates and message lists,  *)
(* every bound and every mix of API calls.  The inductive invariant says   *)
(* that both snapshots are laid out, and that while build runs its         *)
(* snapshot holds the first Len(data.items) messages of its list, so that  *)
(* the item it deletes is the message it appends again.                    *)
(***************************************************************************)
EXTENDS ChatView, SequenceTheorems, TLAPS

\* No section starts past the last item.  It follows from Partitioned by
\* induction over the sections; stated outright it needs none.
Bounded(snap) == \A s \in DOMAIN snap.sections : snap.sections[s].first <= LastPos(snap)

WellLaid(snap) ==
  /\ Partitioned(snap)
  /\ Bounded(snap)
  /\ WellRounded(snap)
  /\ Grouped(snap)

\* data holds the beginning of messages, up to flags and corners.
HoldsPrefix(items, msgs) ==
  /\ Len(items) <= Len(msgs)
  /\ \A k \in 1 .. Len(items) : Content(items[k]) = Content(msgs[k])

IInv ==
  /\ TypeOK
  /\ WellLaid(shown)
  /\ WellLaid(data)
  /\ pc = "building" => /\ i <= Len(data.items)
                        /\ HoldsPrefix(data.items, messages)
                        /\ scrolls < MaxScrolls

-----------------------------------------------------------------------------
(* Lemmas on the operators of DataBuilder.                                 *)

\* Rounding a message changes nothing grouping looks at.
LEMMA RoundedContent ==
  ASSUME NEW m \in Message, NEW c \in Rounding
  PROVE  /\ Rounded(m, c) \in Message
         /\ Content(Rounded(m, c)) = Content(m)
         /\ Rounded(m, c).corners = c
         /\ Rounded(m, c).origin = m.origin
BY DEF Rounded, Content, Message

\* So does setting the seen flag.
LEMMA FlaggedContent ==
  ASSUME NEW m \in Message, NEW b \in BOOLEAN
  PROVE  /\ [m EXCEPT !.seen = b] \in Message
         /\ Content([m EXCEPT !.seen = b]) = Content(m)
BY DEF Content, Message

\* Grouping depends on the contents of the two messages alone.
LEMMA SameRunContent ==
  ASSUME NEW a, NEW b, NEW c, NEW d, Content(a) = Content(c), Content(b) = Content(d)
  PROVE  SameRun(a, b) <=> SameRun(c, d)
BY DEF SameRun, Content, Delta

\* Opening a section: what the new snapshot looks like, position by position.
LEMMA StartSectionShape ==
  ASSUME NEW snap \in Snapshot, NEW m \in Message
  PROVE  LET new == StartSection(snap, m)
         IN  /\ new \in Snapshot
             /\ Len(new.items) = Len(snap.items) + 1
             /\ Len(new.sections) = Len(snap.sections) + 1
             /\ \A k \in 1 .. Len(snap.items) : new.items[k] = snap.items[k]
             /\ new.items[Len(snap.items) + 1] = Rounded(m, "basic")
             /\ \A s \in 1 .. Len(snap.sections) : new.sections[s] = snap.sections[s]
             /\ new.sections[Len(snap.sections) + 1] =
                  [origin |-> m.origin, first |-> Len(snap.items) + 1]
<1> DEFINE sec == [origin |-> m.origin, first |-> Len(snap.items) + 1]
           msg == Rounded(m, "basic")
<1>1. snap.items \in Seq(Message) /\ snap.sections \in Seq(Section)
  BY DEF Snapshot
<1>2. msg \in Message
  BY RoundedContent DEF Rounding
<1>3. sec \in Section
  BY <1>1, LenProperties DEF Section, Message
<1>4. StartSection(snap, m) = [items |-> Append(snap.items, msg), sections |-> Append(snap.sections, sec)]
  BY DEF StartSection, LastPos
<1> HIDE DEF sec, msg
<1>5. /\ Append(snap.items, msg) \in Seq(Message)
      /\ Len(Append(snap.items, msg)) = Len(snap.items) + 1
      /\ \A k \in 1 .. Len(snap.items) : Append(snap.items, msg)[k] = snap.items[k]
      /\ Append(snap.items, msg)[Len(snap.items) + 1] = msg
  BY <1>1, <1>2, AppendProperties
<1>6. /\ Append(snap.sections, sec) \in Seq(Section)
      /\ Len(Append(snap.sections, sec)) = Len(snap.sections) + 1
      /\ \A s \in 1 .. Len(snap.sections) : Append(snap.sections, sec)[s] = snap.sections[s]
      /\ Append(snap.sections, sec)[Len(snap.sections) + 1] = sec
  BY <1>1, <1>3, AppendProperties
<1>7. QED
  BY <1>4, <1>5, <1>6 DEF Snapshot, sec, msg

\* Joining the last section: what the new snapshot looks like.
LEMMA JoinSectionShape ==
  ASSUME NEW snap \in Snapshot, NEW prev \in Message, NEW m \in Message,
         snap.items # <<>>
  PROVE  LET new == JoinSection(snap, prev, m)
             n   == Len(snap.items)
         IN  /\ new \in Snapshot
             /\ n \in Nat \ {0}
             /\ Len(new.items) = n + 1
             /\ new.sections = snap.sections
             /\ \A k \in 1 .. n - 1 : new.items[k] = snap.items[k]
             /\ new.items[n] = Rounded(prev, IF LastSectionCount(snap) = 1
                                               THEN "top" ELSE "middle")
             /\ new.items[n + 1] = Rounded(m, "bottom")
<1> DEFINE n   == Len(snap.items)
           up  == Rounded(prev, IF LastSectionCount(snap) = 1 THEN "top" ELSE "middle")
           low == Rounded(m, "bottom")
           mid == [snap.items EXCEPT ![n] = up]
<1>1. snap.items \in Seq(Message) /\ snap.sections \in Seq(Section)
  BY DEF Snapshot
<1>2. up \in Message /\ low \in Message
  BY RoundedContent DEF Rounding
<1>3. n \in Nat \ {0} /\ n \in 1 .. Len(snap.items)
  BY <1>1, EmptySeq, LenProperties
<1>4. JoinSection(snap, prev, m) = [snap EXCEPT !.items = Append(mid, low)]
  BY DEF JoinSection, LastPos
<1> HIDE DEF up, low
<1>5. /\ mid \in Seq(Message)
      /\ Len(mid) = n
      /\ \A k \in 1 .. n : mid[k] = IF k = n THEN up ELSE snap.items[k]
  BY <1>1, <1>2, <1>3, ExceptSeq
<1> HIDE DEF mid
<1>6. /\ Append(mid, low) \in Seq(Message)
      /\ Len(Append(mid, low)) = n + 1
      /\ \A k \in 1 .. n : Append(mid, low)[k] = mid[k]
      /\ Append(mid, low)[n + 1] = low
  BY <1>2, <1>5, AppendProperties
<1>7. /\ JoinSection(snap, prev, m).items = Append(mid, low)
      /\ JoinSection(snap, prev, m).sections = snap.sections
      /\ JoinSection(snap, prev, m) \in Snapshot
  BY <1>4, <1>1, <1>6 DEF Snapshot
<1>8. QED
  BY <1>3, <1>5, <1>6, <1>7 DEF up, low

-----------------------------------------------------------------------------
(* The two ways build extends a snapshot keep it laid out.                 *)

\* The facts of arithmetic about a snapshot the next lemmas share.
LEMMA SnapshotFacts ==
  ASSUME NEW snap \in Snapshot, Partitioned(snap), Bounded(snap)
  PROVE  /\ Len(snap.items) \in Nat
         /\ Len(snap.sections) \in Nat
         /\ DOMAIN snap.sections = 1 .. Len(snap.sections)
         /\ DOMAIN snap.items = 1 .. Len(snap.items)
         /\ (Len(snap.items) = 0) <=> (Len(snap.sections) = 0)
         /\ \A s \in 1 .. Len(snap.sections) :
              /\ snap.sections[s].first \in 1 .. Len(snap.items)
              /\ SectionEnd(snap, s) \in snap.sections[s].first .. Len(snap.items)
              /\ s < Len(snap.sections) => SectionEnd(snap, s) = snap.sections[s + 1].first - 1
         /\ \A s \in 2 .. Len(snap.sections) : snap.sections[s].first - 1 \in 1 .. Len(snap.items)
         /\ \A k \in 1 .. Len(snap.items) : snap.items[k] \in Message
<1>1. /\ snap.items \in Seq(Message)
      /\ snap.sections \in Seq(Section)
      /\ Len(snap.items) \in Nat /\ DOMAIN snap.items = 1 .. Len(snap.items)
      /\ Len(snap.sections) \in Nat /\ DOMAIN snap.sections = 1 .. Len(snap.sections)
      /\ snap.sections \in [1 .. Len(snap.sections) -> Section]
      /\ snap.items \in [1 .. Len(snap.items) -> Message]
  BY LenProperties DEF Snapshot
<1>2. (snap.items = <<>>) <=> (snap.sections = <<>>)
  BY DEF Partitioned
<1>3. (Len(snap.items) = 0) <=> (Len(snap.sections) = 0)
  BY <1>1, <1>2, EmptySeq
<1>4. ASSUME NEW s \in 1 .. Len(snap.sections)
      PROVE  /\ snap.sections[s].first \in 1 .. Len(snap.items)
             /\ SectionEnd(snap, s) \in snap.sections[s].first .. Len(snap.items)
             /\ s < Len(snap.sections) => SectionEnd(snap, s) = snap.sections[s + 1].first - 1
  <2>1. snap.sections[s].first \in 1 .. Len(snap.items)
    BY <1>1 DEF Bounded, LastPos, Section
  <2>2. ASSUME s < Len(snap.sections)
        PROVE  snap.sections[s + 1].first \in 1 .. Len(snap.items)
    <3>1. s + 1 \in 1 .. Len(snap.sections)
      BY <1>1, <2>2
    <3>2. QED
      BY <1>1, <3>1 DEF Bounded, LastPos, Section
  <2>3. snap.sections[s].first <= SectionEnd(snap, s)
    BY <1>1 DEF Partitioned
  <2>4. QED
    BY <1>1, <2>1, <2>2, <2>3 DEF SectionEnd, LastPos
<1>5. ASSUME NEW s \in 2 .. Len(snap.sections)
      PROVE  snap.sections[s].first - 1 \in 1 .. Len(snap.items)
  <2>1. s - 1 \in 1 .. Len(snap.sections) /\ s - 1 < Len(snap.sections) /\ (s - 1) + 1 = s
    BY <1>1
  <2>2. /\ SectionEnd(snap, s - 1) = snap.sections[s].first - 1
        /\ snap.sections[s - 1].first \in 1 .. Len(snap.items)
        /\ SectionEnd(snap, s - 1) \in snap.sections[s - 1].first .. Len(snap.items)
    BY <1>4, <2>1
  <2>3. QED
    BY <1>1, <2>2
<1>6. QED
  BY <1>1, <1>3, <1>4, <1>5

\* Opening a section leaves the others where they were.
LEMMA StartSectionPositions ==
  ASSUME NEW snap \in Snapshot, NEW m \in Message, WellLaid(snap)
  PROVE  LET new == StartSection(snap, m)
             n   == Len(snap.items)
             q   == Len(snap.sections)
         IN  /\ \A s \in 1 .. q :
                  /\ new.sections[s].first \in 1 .. n
                  /\ SectionEnd(new, s) = SectionEnd(snap, s)
                  /\ new.sections[s].first <= SectionEnd(new, s)
                  /\ Positions(new, s) = Positions(snap, s)
                  /\ Positions(snap, s) \subseteq 1 .. n
             /\ SectionEnd(new, q + 1) = n + 1
             /\ Positions(new, q + 1) = {n + 1}
<1> DEFINE new == StartSection(snap, m)
           n   == Len(snap.items)
           q   == Len(snap.sections)
<1>1. /\ new \in Snapshot
      /\ Len(new.items) = n + 1
      /\ Len(new.sections) = q + 1
      /\ \A k \in 1 .. n : new.items[k] = snap.items[k]
      /\ new.items[n + 1] = Rounded(m, "basic")
      /\ \A s \in 1 .. q : new.sections[s] = snap.sections[s]
      /\ new.sections[q + 1] = [origin |-> m.origin, first |-> n + 1]
  BY StartSectionShape
<1>2. /\ n \in Nat /\ q \in Nat
      /\ \A s \in 1 .. q :
           /\ snap.sections[s].first \in 1 .. n
           /\ SectionEnd(snap, s) \in snap.sections[s].first .. n
           /\ s < q => SectionEnd(snap, s) = snap.sections[s + 1].first - 1
  BY SnapshotFacts DEF WellLaid
<1> HIDE DEF new, n, q
\* Section ends: those of the old sections, then the new item alone.
<1>3. \A s \in 1 .. q : SectionEnd(new, s) = SectionEnd(snap, s)
  <2> TAKE s \in 1 .. q
  <2>1. CASE s = q
    <3>1. SectionEnd(snap, s) = n
      BY <2>1 DEF SectionEnd, LastPos, n, q
    <3>2. SectionEnd(new, s) = new.sections[q + 1].first - 1
      BY <1>1, <1>2, <2>1 DEF SectionEnd
    <3>3. QED
      BY <1>1, <1>2, <3>1, <3>2
  <2>2. CASE s < q
    <3>1. s + 1 \in 1 .. q /\ s # q + 1
      BY <1>2, <2>2
    <3>2. SectionEnd(new, s) = new.sections[s + 1].first - 1
      BY <1>1, <3>1 DEF SectionEnd
    <3>3. new.sections[s + 1] = snap.sections[s + 1]
      BY <1>1, <3>1
    <3>4. QED
      BY <1>2, <2>2, <3>2, <3>3
  <2>3. QED
    BY <1>2, <2>1, <2>2
<1>4. SectionEnd(new, q + 1) = n + 1
  BY <1>1 DEF SectionEnd, LastPos
\* The old sections are where they were.
<1>5. ASSUME NEW s \in 1 .. q
      PROVE  /\ new.sections[s].first \in 1 .. n
             /\ new.sections[s].first <= SectionEnd(new, s)
             /\ Positions(new, s) = Positions(snap, s)
             /\ Positions(snap, s) \subseteq 1 .. n
  <2> DEFINE f == snap.sections[s].first
             e == SectionEnd(snap, s)
  <2>1. new.sections[s] = snap.sections[s] /\ SectionEnd(new, s) = e
    BY <1>1, <1>3
  <2>2. f \in 1 .. n /\ e \in f .. n
    BY <1>2
  <2>3. Positions(snap, s) = f .. e /\ Positions(new, s) = f .. e
    BY <2>1 DEF Positions
  <2> HIDE DEF f, e
  <2>4. f <= e /\ f .. e \subseteq 1 .. n
    BY <1>2, <2>2
  <2>5. QED
    BY <2>1, <2>2, <2>3, <2>4 DEF f
<1>6. Positions(new, q + 1) = {n + 1}
  BY <1>1, <1>2, <1>4 DEF Positions
<1>7. QED
  BY <1>3, <1>4, <1>5, <1>6 DEF new, n, q

\* A section of its own is right for a message that does not continue the run.
LEMMA StartSectionLaid ==
  ASSUME NEW snap \in Snapshot, NEW m \in Message, WellLaid(snap),
         snap.items # <<>> => ~ SameRun(snap.items[Len(snap.items)], m)
  PROVE  WellLaid(StartSection(snap, m))
<1> DEFINE new == StartSection(snap, m)
           n   == Len(snap.items)
           q   == Len(snap.sections)
<1>1. /\ new \in Snapshot
      /\ Len(new.items) = n + 1
      /\ Len(new.sections) = q + 1
      /\ \A k \in 1 .. n : new.items[k] = snap.items[k]
      /\ new.items[n + 1] = Rounded(m, "basic")
      /\ \A s \in 1 .. q : new.sections[s] = snap.sections[s]
      /\ new.sections[q + 1] = [origin |-> m.origin, first |-> n + 1]
  BY StartSectionShape
<1>2. /\ n \in Nat /\ q \in Nat
      /\ DOMAIN snap.sections = 1 .. q
      /\ n = 0 <=> q = 0
      /\ \A s \in 1 .. q :
           /\ snap.sections[s].first \in 1 .. n
           /\ SectionEnd(snap, s) \in snap.sections[s].first .. n
           /\ s < q => SectionEnd(snap, s) = snap.sections[s + 1].first - 1
      /\ \A s \in 2 .. q : snap.sections[s].first - 1 \in 1 .. n
      /\ \A k \in 1 .. n : snap.items[k] \in Message
  BY SnapshotFacts DEF WellLaid
<1>3. /\ Rounded(m, "basic").corners = "basic"
      /\ Rounded(m, "basic").origin = m.origin
      /\ Content(Rounded(m, "basic")) = Content(m)
  BY RoundedContent DEF Rounding
<1>4. DOMAIN new.sections = 1 .. q + 1
  BY <1>1, <1>2, LenProperties DEF Snapshot
<1>5. n > 0 => snap.items # <<>> /\ snap.sections # <<>>
  BY <1>2, EmptySeq
\* Section ends: those of the old sections, then the new item alone.
<1>6. /\ \A s \in 1 .. q : SectionEnd(new, s) = SectionEnd(snap, s)
      /\ SectionEnd(new, q + 1) = n + 1
      /\ \A s \in 1 .. q :
           /\ new.sections[s] = snap.sections[s]
           /\ new.sections[s].first \in 1 .. n
           /\ new.sections[s].first <= SectionEnd(new, s)
           /\ Positions(new, s) = Positions(snap, s)
           /\ Positions(snap, s) \subseteq 1 .. n
  BY <1>1, StartSectionPositions
<1> HIDE DEF new, n, q
<1>8. Partitioned(new)
  <2>1. new.sections # <<>> /\ new.items # <<>>
    BY <1>1, <1>2, EmptySeq
  <2>2. new.sections[1].first = 1
    <3>1. CASE q = 0
      BY <1>1, <1>2, <3>1
    <3>2. CASE q > 0
      BY <1>1, <1>2, <1>5, <3>2 DEF WellLaid, Partitioned
    <3>3. QED
      BY <1>2, <3>1, <3>2
  <2>3. \A s \in 1 .. q + 1 : new.sections[s].first <= SectionEnd(new, s)
    <3> TAKE s \in 1 .. q + 1
    <3>1. CASE s = q + 1
      BY <1>1, <1>2, <1>6, <3>1
    <3>2. CASE s \in 1 .. q
      BY <1>6, <3>2
    <3>3. QED
      BY <1>2, <3>1, <3>2
  <2>4. QED
    BY <1>4, <2>1, <2>2, <2>3 DEF Partitioned
<1>9. Bounded(new)
  <2>1. ASSUME NEW s \in 1 .. q + 1
        PROVE  new.sections[s].first <= n + 1
    <3>1. CASE s = q + 1
      BY <1>1, <1>2, <3>1
    <3>2. CASE s \in 1 .. q
      BY <1>2, <1>6, <3>2
    <3>3. QED
      BY <1>2, <3>1, <3>2
  <2>2. QED
    BY <1>1, <1>4, <2>1 DEF Bounded, LastPos
<1>10. WellRounded(new)
  <2>1. ASSUME NEW s \in 1 .. q + 1, NEW k \in Positions(new, s)
        PROVE  new.items[k].corners = CornerIn(k, new.sections[s].first, SectionEnd(new, s))
    <3>1. CASE s = q + 1
      <4>1. k = n + 1
        BY <1>1, <1>2, <1>6, <3>1 DEF Positions
      <4>2. QED
        BY <1>1, <1>3, <1>6, <3>1, <4>1 DEF CornerIn
    <3>2. CASE s \in 1 .. q
      <4>1. k \in Positions(snap, s) /\ k \in 1 .. n
        BY <1>6, <3>2
      <4>2. QED
        BY <1>1, <1>2, <1>6, <3>2, <4>1 DEF WellLaid, WellRounded
    <3>3. QED
      BY <1>2, <3>1, <3>2
  <2>2. QED
    BY <1>4, <2>1 DEF WellRounded
<1>11. Grouped(new)
  <2>1. ASSUME NEW s \in 1 .. q + 1, NEW k \in Positions(new, s)
        PROVE  /\ new.items[k].origin = new.sections[s].origin
               /\ k > new.sections[s].first => SameRun(new.items[k - 1], new.items[k])
    <3>1. CASE s = q + 1
      <4>1. k = n + 1
        BY <1>1, <1>2, <1>6, <3>1 DEF Positions
      <4>2. QED
        BY <1>1, <1>2, <1>3, <3>1, <4>1
    <3>2. CASE s \in 1 .. q
      <4>1. k \in Positions(snap, s) /\ k \in 1 .. n
        BY <1>6, <3>2
      <4>2. /\ snap.items[k].origin = snap.sections[s].origin
            /\ k > snap.sections[s].first => SameRun(snap.items[k - 1], snap.items[k])
        BY <1>2, <3>2, <4>1 DEF WellLaid, Grouped
      <4>3. new.sections[s] = snap.sections[s] /\ new.items[k] = snap.items[k]
        BY <1>1, <3>2, <4>1
      <4>4. ASSUME k > snap.sections[s].first
            PROVE  new.items[k - 1] = snap.items[k - 1]
        <5>1. k - 1 \in 1 .. n
          BY <1>2, <3>2, <4>1, <4>4
        <5>2. QED
          BY <1>1, <5>1
      <4>5. QED
        BY <4>2, <4>3, <4>4
    <3>3. QED
      BY <1>2, <3>1, <3>2
  <2>2. ASSUME NEW s \in 1 .. q + 1, s > 1
        PROVE  ~ SameRun(new.items[new.sections[s].first - 1], new.items[new.sections[s].first])
    <3>1. CASE s = q + 1
      <4>1. n \in 1 .. n
        BY <1>2, <2>2, <3>1
      <4>2. ~ SameRun(snap.items[n], m)
        BY <1>2, <1>5, <4>1 DEF n
      <4>3. ~ SameRun(snap.items[n], Rounded(m, "basic"))
        BY <1>3, <4>2, SameRunContent
      <4>4. QED
        BY <1>1, <1>2, <3>1, <4>1, <4>3
    <3>2. CASE s \in 1 .. q
      <4> DEFINE f == snap.sections[s].first
      <4>1. ~ SameRun(snap.items[f - 1], snap.items[f])
        BY <1>2, <2>2, <3>2 DEF WellLaid, Grouped
      <4>2. f \in 1 .. n /\ f - 1 \in 1 .. n
        <5>1. s \in 2 .. q
          BY <1>2, <2>2, <3>2
        <5>2. QED
          BY <1>2, <3>2, <5>1
      <4>3. QED
        BY <1>1, <3>2, <4>1, <4>2
    <3>3. QED
      BY <1>2, <3>1, <3>2
  <2>3. QED
    BY <1>4, <2>1, <2>2 DEF Grouped
<1>12. QED
  BY <1>8, <1>9, <1>10, <1>11 DEF WellLaid, new

\* Joining the last section leaves the others where they were, and makes it one longer.
LEMMA JoinSectionPositions ==
  ASSUME NEW snap \in Snapshot, NEW prev \in Message, NEW m \in Message,
         WellLaid(snap), snap.items # <<>>
  PROVE  LET new == JoinSection(snap, prev, m)
             n   == Len(snap.items)
             q   == Len(snap.sections)
             f   == snap.sections[q].first
         IN  /\ \A s \in 1 .. q - 1 :
                  /\ new.sections[s].first <= SectionEnd(new, s)
                  /\ SectionEnd(new, s) = SectionEnd(snap, s)
                  /\ Positions(new, s) = Positions(snap, s)
                  /\ Positions(snap, s) \subseteq 1 .. n - 1
             /\ SectionEnd(snap, q) = n /\ SectionEnd(new, q) = n + 1
             /\ Positions(new, q) = f .. n + 1 /\ Positions(snap, q) = f .. n
<1> DEFINE new == JoinSection(snap, prev, m)
           n   == Len(snap.items)
           q   == Len(snap.sections)
           f   == snap.sections[q].first
<1>1. /\ n \in Nat \ {0}
      /\ Len(new.items) = n + 1
      /\ new.sections = snap.sections
  BY JoinSectionShape
<1>2. /\ q \in Nat
      /\ \A s \in 1 .. q :
           /\ snap.sections[s].first \in 1 .. n
           /\ SectionEnd(snap, s) \in snap.sections[s].first .. n
           /\ s < q => SectionEnd(snap, s) = snap.sections[s + 1].first - 1
  BY SnapshotFacts DEF WellLaid
<1>3. SectionEnd(snap, q) = n /\ SectionEnd(new, q) = n + 1
  BY <1>1 DEF SectionEnd, LastPos
<1> HIDE DEF new, n, q, f
<1>4. ASSUME NEW s \in 1 .. q - 1
      PROVE  /\ new.sections[s].first <= SectionEnd(new, s)
             /\ SectionEnd(new, s) = SectionEnd(snap, s)
             /\ Positions(new, s) = Positions(snap, s)
             /\ Positions(snap, s) \subseteq 1 .. n - 1
  <2> DEFINE a == snap.sections[s].first
             e == SectionEnd(snap, s)
  <2>1. s \in 1 .. q /\ s + 1 \in 1 .. q /\ s < q /\ s # q
    BY <1>2
  <2>2. e = snap.sections[s + 1].first - 1 /\ snap.sections[s + 1].first \in 1 .. n
    BY <1>2, <2>1
  <2>3. SectionEnd(new, s) = e
    BY <1>1, <2>1 DEF SectionEnd, q
  <2>4. a \in 1 .. n /\ e \in a .. n
    BY <1>2, <2>1
  <2>5. Positions(snap, s) = a .. e /\ Positions(new, s) = a .. e
    BY <1>1, <2>3 DEF Positions
  <2>6. e <= n - 1
    BY <1>1, <2>2
  <2> HIDE DEF a, e
  <2>7. a <= e /\ a .. e \subseteq 1 .. n - 1
    BY <1>1, <2>4, <2>6
  <2>8. QED
    BY <1>1, <2>3, <2>5, <2>7 DEF a, e
<1>5. Positions(new, q) = f .. n + 1 /\ Positions(snap, q) = f .. n
  BY <1>1, <1>3 DEF Positions, f
<1>6. QED
  BY <1>3, <1>4, <1>5 DEF new, n, q, f

\* Joining the last section is right for a message that continues the run of
\* the last item, provided prev is that item up to flags and corners.
LEMMA JoinSectionLaid ==
  ASSUME NEW snap \in Snapshot, NEW prev \in Message, NEW m \in Message,
         WellLaid(snap), snap.items # <<>>,
         Content(prev) = Content(snap.items[Len(snap.items)]),
         SameRun(prev, m)
  PROVE  WellLaid(JoinSection(snap, prev, m))
<1> DEFINE new    == JoinSection(snap, prev, m)
           n      == Len(snap.items)
           q      == Len(snap.sections)
           f      == snap.sections[q].first
           corner == IF LastSectionCount(snap) = 1 THEN "top" ELSE "middle"
<1>1. /\ new \in Snapshot
      /\ n \in Nat \ {0}
      /\ Len(new.items) = n + 1
      /\ new.sections = snap.sections
      /\ \A k \in 1 .. n - 1 : new.items[k] = snap.items[k]
      /\ new.items[n] = Rounded(prev, corner)
      /\ new.items[n + 1] = Rounded(m, "bottom")
  BY JoinSectionShape
<1>2. /\ q \in Nat
      /\ DOMAIN snap.sections = 1 .. q
      /\ n = 0 <=> q = 0
      /\ \A s \in 1 .. q :
           /\ snap.sections[s].first \in 1 .. n
           /\ SectionEnd(snap, s) \in snap.sections[s].first .. n
           /\ s < q => SectionEnd(snap, s) = snap.sections[s + 1].first - 1
      /\ \A s \in 2 .. q : snap.sections[s].first - 1 \in 1 .. n
      /\ \A k \in 1 .. n : snap.items[k] \in Message
  BY SnapshotFacts DEF WellLaid
<1>3. /\ Rounded(prev, corner).corners = corner
      /\ Rounded(prev, corner).origin = prev.origin
      /\ Content(Rounded(prev, corner)) = Content(snap.items[n])
      /\ Rounded(m, "bottom").corners = "bottom"
      /\ Rounded(m, "bottom").origin = m.origin
      /\ Content(Rounded(m, "bottom")) = Content(m)
  BY RoundedContent DEF Rounding
<1>4. q \in 1 .. q /\ f \in 1 .. n /\ n \in 1 .. n
  BY <1>1, <1>2
<1>5. SectionEnd(snap, q) = n /\ SectionEnd(new, q) = n + 1
  BY <1>1 DEF SectionEnd, LastPos
<1>6. LastSectionCount(snap) = n - f + 1
  BY DEF LastSectionCount, LastPos
<1>7. snap.items[n].origin = snap.sections[q].origin
  <2>1. n \in Positions(snap, q)
    BY <1>1, <1>4, <1>5 DEF Positions
  <2>2. QED
    BY <1>2, <1>4, <2>1 DEF WellLaid, Grouped
<1>8. /\ prev.origin = snap.sections[q].origin
      /\ m.origin = snap.sections[q].origin
  BY <1>7 DEF Content, SameRun
\* The sections before the last are where they were, before the last item.
<1>9. /\ \A s \in 1 .. q - 1 :
           /\ new.sections[s].first <= SectionEnd(new, s)
           /\ SectionEnd(new, s) = SectionEnd(snap, s)
           /\ Positions(new, s) = Positions(snap, s)
           /\ Positions(snap, s) \subseteq 1 .. n - 1
      /\ Positions(new, q) = f .. n + 1 /\ Positions(snap, q) = f .. n
  BY JoinSectionPositions
<1> HIDE DEF new, n, q, f
<1>11. Partitioned(new)
  <2>1. new.items # <<>> /\ new.sections # <<>> /\ snap.sections # <<>>
    BY <1>1, <1>2, EmptySeq DEF q
  <2>2. new.sections[1].first = 1
    BY <1>1, <2>1 DEF WellLaid, Partitioned
  <2>3. ASSUME NEW s \in 1 .. q
        PROVE  new.sections[s].first <= SectionEnd(new, s)
    <3>1. CASE s = q
      BY <1>1, <1>4, <1>5, <3>1 DEF f
    <3>2. CASE s \in 1 .. q - 1
      BY <1>9, <3>2
    <3>3. QED
      BY <1>2, <3>1, <3>2
  <2>4. QED
    BY <1>1, <1>2, <2>1, <2>2, <2>3 DEF Partitioned
<1>12. Bounded(new)
  <2>1. \A s \in 1 .. q : snap.sections[s].first <= n + 1
    BY <1>1, <1>2
  <2>2. QED
    BY <1>1, <1>2, <2>1 DEF Bounded, LastPos
<1>13. WellRounded(new)
  <2>1. ASSUME NEW s \in 1 .. q, NEW k \in Positions(new, s)
        PROVE  new.items[k].corners = CornerIn(k, new.sections[s].first, SectionEnd(new, s))
    <3>1. CASE s = q
      <4>1. k \in f .. n + 1 /\ new.sections[s].first = f /\ SectionEnd(new, s) = n + 1
        BY <1>1, <1>5, <1>9, <3>1 DEF f
      <4>2. CASE k = n + 1
        BY <1>1, <1>3, <1>4, <4>1, <4>2 DEF CornerIn
      <4>3. CASE k = n
        <5>1. new.items[k].corners = corner
          BY <1>1, <1>3, <4>3
        <5>2. corner = IF f = n THEN "top" ELSE "middle"
          BY <1>1, <1>4, <1>6
        <5>3. f # n + 1 /\ n # n + 1
          BY <1>1, <1>4
        <5>4. CornerIn(n, f, n + 1) = IF f = n THEN "top" ELSE "middle"
          BY <5>3 DEF CornerIn
        <5>5. QED
          BY <4>1, <4>3, <5>1, <5>2, <5>4
      <4>4. CASE k < n
        <5>1. k \in f .. n /\ k \in 1 .. n - 1 /\ f # n
          BY <1>1, <1>4, <4>1, <4>4
        <5>2. snap.items[k].corners = CornerIn(k, f, n)
          BY <1>2, <1>4, <1>5, <1>9, <5>1 DEF WellLaid, WellRounded, f
        <5>3. CornerIn(k, f, n) = CornerIn(k, f, n + 1)
          <6>1. k # n /\ k # n + 1 /\ f # n + 1
            BY <1>1, <1>4, <5>1
          <6>2. CornerIn(k, f, n) = IF k = f THEN "top" ELSE "middle"
            BY <5>1, <6>1 DEF CornerIn
          <6>3. CornerIn(k, f, n + 1) = IF k = f THEN "top" ELSE "middle"
            BY <6>1 DEF CornerIn
          <6>4. QED
            BY <6>2, <6>3
        <5>4. QED
          BY <1>1, <4>1, <5>1, <5>2, <5>3
      <4>5. QED
        BY <1>1, <1>4, <4>1, <4>2, <4>3, <4>4
    <3>2. CASE s \in 1 .. q - 1
      <4>1. k \in Positions(snap, s) /\ k \in 1 .. n - 1 /\ SectionEnd(new, s) = SectionEnd(snap, s)
        BY <1>9, <3>2
      <4>2. snap.items[k].corners = CornerIn(k, snap.sections[s].first, SectionEnd(snap, s))
        BY <1>2, <4>1 DEF WellLaid, WellRounded
      <4>3. QED
        BY <1>1, <4>1, <4>2
    <3>3. QED
      BY <1>2, <3>1, <3>2
  <2>2. QED
    BY <1>1, <1>2, <2>1 DEF WellRounded
<1>14. Grouped(new)
  <2>1. \A k \in 1 .. n : Content(new.items[k]) = Content(snap.items[k])
    BY <1>1, <1>3
  <2>2. ASSUME NEW s \in 1 .. q, NEW k \in Positions(new, s)
        PROVE  /\ new.items[k].origin = new.sections[s].origin
               /\ k > new.sections[s].first => SameRun(new.items[k - 1], new.items[k])
    <3>1. CASE s = q /\ k = n + 1
      <4>1. new.items[k].origin = new.sections[s].origin
        BY <1>1, <1>3, <1>8, <3>1
      <4>2. SameRun(new.items[n], new.items[n + 1])
        <5>1. Content(new.items[n]) = Content(prev) /\ Content(new.items[n + 1]) = Content(m)
          BY <1>1, <1>3 DEF n
        <5>2. QED
          BY <5>1, SameRunContent
      <4>3. QED
        BY <1>1, <3>1, <4>1, <4>2
    <3>2. CASE k # n + 1 \/ s # q
      <4>1. k \in Positions(snap, s) /\ k \in 1 .. n
        <5>1. CASE s = q
          BY <1>1, <1>4, <1>9, <3>2, <5>1
        <5>2. CASE s \in 1 .. q - 1
          BY <1>1, <1>9, <5>2
        <5>3. QED
          BY <1>2, <5>1, <5>2
      <4>2. /\ snap.items[k].origin = snap.sections[s].origin
            /\ k > snap.sections[s].first => SameRun(snap.items[k - 1], snap.items[k])
        BY <1>2, <4>1 DEF WellLaid, Grouped
      <4>3. new.items[k].origin = snap.items[k].origin
        BY <2>1, <4>1 DEF Content
      <4>4. ASSUME k > snap.sections[s].first
            PROVE  SameRun(new.items[k - 1], new.items[k])
        <5>1. snap.sections[s].first \in 1 .. n
          BY <1>2
        <5>2. k - 1 \in 1 .. n
          BY <1>1, <4>1, <4>4, <5>1
        <5>3. /\ Content(new.items[k - 1]) = Content(snap.items[k - 1])
              /\ Content(new.items[k]) = Content(snap.items[k])
          BY <2>1, <4>1, <5>2
        <5>4. QED
          BY <4>2, <4>4, <5>3, SameRunContent
      <4>5. QED
        BY <1>1, <4>2, <4>3, <4>4
    <3>3. QED
      BY <3>1, <3>2
  <2>3. ASSUME NEW s \in 1 .. q, s > 1
        PROVE  ~ SameRun(new.items[new.sections[s].first - 1], new.items[new.sections[s].first])
    <3> DEFINE a == snap.sections[s].first
    <3>1. ~ SameRun(snap.items[a - 1], snap.items[a])
      BY <1>2, <2>3 DEF WellLaid, Grouped
    <3>2. s \in 2 .. q
      BY <1>2, <2>3
    <3>3. a \in 1 .. n /\ a - 1 \in 1 .. n
      BY <1>2, <3>2
    <3>4. /\ Content(new.items[a - 1]) = Content(snap.items[a - 1])
          /\ Content(new.items[a]) = Content(snap.items[a])
      BY <2>1, <3>3
    <3>5. QED
      BY <1>1, <3>1, <3>4, SameRunContent
  <2>4. QED
    BY <1>1, <1>2, <2>2, <2>3 DEF Grouped
<1>15. QED
  BY <1>11, <1>12, <1>13, <1>14 DEF WellLaid, new

-----------------------------------------------------------------------------
(* The loop of build.                                                      *)

\* The list build works on has the contents it was given, in order.
LEMMA MarkLastSeenType ==
  ASSUME NEW old \in Seq(Message), NEW new \in Seq(Message)
  PROVE  /\ MarkLastSeen(old, new) \in Seq(Message)
         /\ Len(MarkLastSeen(old, new)) = Len(old) + Len(new)
         /\ \A k \in 1 .. Len(old) : Content(MarkLastSeen(old, new)[k]) = Content(old[k])
<1> DEFINE all == old \o new
           marked == [k \in DOMAIN all |-> [all[k] EXCEPT !.seen = (k = LastSeen(all))]]
<1>1. /\ Len(old) \in Nat /\ Len(new) \in Nat
      /\ all \in Seq(Message)
      /\ Len(all) = Len(old) + Len(new)
      /\ DOMAIN all = 1 .. Len(all)
      /\ \A k \in 1 .. Len(old) : all[k] = old[k]
  BY ConcatProperties, LenProperties
<1>2. \A k \in 1 .. Len(all) : all[k] \in Message
  BY <1>1, ElementOfSeq
<1> HIDE DEF all
<1>3. ASSUME NEW k \in 1 .. Len(all)
      PROVE  marked[k] \in Message /\ Content(marked[k]) = Content(all[k])
  <2>1. marked[k] = [all[k] EXCEPT !.seen = (k = LastSeen(all))]
    BY <1>1
  <2>2. (k = LastSeen(all)) \in BOOLEAN
    OBVIOUS
  <2>3. QED
    BY <1>2, <2>1, <2>2, FlaggedContent
<1>4. marked \in [1 .. Len(all) -> Message]
  BY <1>1, <1>3
<1>5. marked \in Seq(Message) /\ Len(marked) = Len(all)
  BY <1>1, <1>4, SeqDef
<1>6. MarkLastSeen(old, new) = IF SeenPositions(new) = {} THEN all ELSE marked
  BY DEF MarkLastSeen, all
<1>7. QED
  BY <1>1, <1>3, <1>5, <1>6

\* Under the loop invariant the test of the code (on the origin of the last
\* section, and on messages[k-1]) decides whether the message continues the
\* run of the last displayed item.
LEMMA JoinsIsSameRun ==
  ASSUME NEW snap \in Snapshot, NEW msgs \in Seq(Message), WellLaid(snap),
         HoldsPrefix(snap.items, msgs), Len(snap.items) < Len(msgs)
  PROVE  LET n == Len(snap.items)
         IN  Joins(snap, msgs, n) <=> snap.items # <<>> /\ SameRun(snap.items[n], msgs[n + 1])
<1> DEFINE n == Len(snap.items)
           q == Len(snap.sections)
<1>1. /\ n \in Nat /\ q \in Nat
      /\ n = 0 <=> q = 0
      /\ DOMAIN snap.sections = 1 .. q
      /\ \A s \in 1 .. q : snap.sections[s].first \in 1 .. n
  BY SnapshotFacts DEF WellLaid
<1>2. snap.items = <<>> <=> snap.sections = <<>>
  BY DEF WellLaid, Partitioned
<1>3. snap.items \in Seq(Message)
  BY DEF Snapshot
<1>4. snap.items # <<>> => n >= 1
  BY <1>1, <1>3, EmptySeq
<1>5. CASE snap.items = <<>>
  BY <1>2, <1>5 DEF Joins
<1>6. CASE snap.items # <<>>
  <2>1. q \in 1 .. q /\ n \in 1 .. n
    BY <1>1, <1>4, <1>6
  <2>2. n \in Positions(snap, q)
    BY <1>1, <2>1 DEF Positions, SectionEnd, LastPos
  <2>3. snap.items[n].origin = snap.sections[q].origin
    BY <1>1, <2>1, <2>2 DEF WellLaid, Grouped
  <2>4. Content(snap.items[n]) = Content(msgs[n])
    BY <2>1 DEF HoldsPrefix
  <2> HIDE DEF n, q
  <2>5. /\ snap.items[n].userId = msgs[n].userId
        /\ Delta(snap.items[n], msgs[n + 1]) = Delta(msgs[n], msgs[n + 1])
    BY <2>4 DEF Content, Delta
  <2>6. QED
    BY <1>2, <1>4, <1>6, <2>3, <2>5 DEF Joins, SameRun, n, q
<1>7. QED
  BY <1>5, <1>6

\* What one iteration does to the snapshot, under the loop invariant.
LEMMA PlaceStepCases ==
  ASSUME TypeOK, WellLaid(data), i <= Len(data.items), HoldsPrefix(data.items, messages),
         i <= LastIndex(messages), PlaceStep
  PROVE  LET n == Len(data.items)
         IN  /\ n \in Nat /\ n + 1 \in 1 .. Len(messages)
             /\ messages[n + 1] \in Message
             /\ i' = n + 1 /\ pc' = pc
             /\ \/ /\ data.items # <<>> /\ n \in 1 .. n
                   /\ messages[n] \in Message
                   /\ Content(messages[n]) = Content(data.items[n])
                   /\ SameRun(messages[n], messages[n + 1])
                   /\ data' = JoinSection(data, messages[n], messages[n + 1])
                \/ /\ data.items # <<>> => ~ SameRun(data.items[n], messages[n + 1])
                   /\ data' = StartSection(data, messages[n + 1])
<1> DEFINE n == Len(data.items)
<1>1. /\ data \in Snapshot /\ data.items \in Seq(Message) /\ messages \in Seq(Message)
      /\ n \in Nat /\ Len(messages) \in Nat /\ i \in Nat
  BY LenProperties DEF TypeOK, Snapshot
<1>2. i = n /\ n < Len(messages) /\ n + 1 \in 1 .. Len(messages)
  BY <1>1 DEF PlaceStep, LastIndex
<1>3. messages[n + 1] \in Message
  BY <1>1, <1>2, ElementOfSeq
<1>4. Joins(data, messages, n) <=> data.items # <<>> /\ SameRun(data.items[n], messages[n + 1])
  BY <1>1, <1>2, JoinsIsSameRun
<1>5. CASE Joins(data, messages, n)
  <2>1. data.items # <<>> /\ SameRun(data.items[n], messages[n + 1])
    BY <1>4, <1>5
  <2>2. n \in 1 .. n /\ n \in 1 .. Len(messages)
    BY <1>1, <1>2, <2>1, EmptySeq
  <2>3. messages[n] \in Message /\ Content(messages[n]) = Content(data.items[n])
    BY <1>1, <2>2, ElementOfSeq DEF HoldsPrefix
  <2>4. SameRun(messages[n], messages[n + 1])
    BY <2>1, <2>3, SameRunContent
  <2>5. /\ data' = JoinSection(data, messages[n], messages[n + 1])
        /\ i' = n + 1 /\ pc' = pc
    BY <1>1, <1>2, <1>5, <2>1 DEF PlaceStep
  <2>6. QED
    BY <1>1, <1>2, <1>3, <2>1, <2>2, <2>3, <2>4, <2>5
<1>6. CASE ~ Joins(data, messages, n)
  <2>1. data.items # <<>> => ~ SameRun(data.items[n], messages[n + 1])
    BY <1>4, <1>6
  <2>2. data' = StartSection(data, messages[n + 1]) /\ i' = n + 1 /\ pc' = pc
    BY <1>1, <1>2, <1>6 DEF PlaceStep
  <2>3. QED
    BY <1>1, <1>2, <1>3, <2>1, <2>2
<1>7. QED
  BY <1>5, <1>6

\* One iteration keeps the snapshot laid out and a prefix of the list.
LEMMA PlaceStepKeepsLayout ==
  ASSUME TypeOK, WellLaid(data), i <= Len(data.items), HoldsPrefix(data.items, messages),
         i <= LastIndex(messages), PlaceStep
  PROVE  /\ data' \in Snapshot
         /\ WellLaid(data')
         /\ HoldsPrefix(data'.items, messages)
         /\ i' \in Nat /\ i' <= Len(data'.items)
         /\ pc' = pc
<1> DEFINE n == Len(data.items)
<1>1. /\ data \in Snapshot /\ data.items \in Seq(Message) /\ messages \in Seq(Message)
      /\ n \in Nat /\ n + 1 \in 1 .. Len(messages) /\ Len(messages) \in Nat
      /\ messages[n + 1] \in Message
      /\ i' = n + 1 /\ pc' = pc
  BY PlaceStepCases, LenProperties DEF TypeOK, Snapshot
<1>2. ASSUME data.items # <<>>, n \in 1 .. n, messages[n] \in Message,
             Content(messages[n]) = Content(data.items[n]),
             SameRun(messages[n], messages[n + 1]),
             data' = JoinSection(data, messages[n], messages[n + 1])
      PROVE  data' \in Snapshot /\ WellLaid(data') /\ HoldsPrefix(data'.items, messages)
             /\ n + 1 <= Len(data'.items)
  <2> DEFINE new == JoinSection(data, messages[n], messages[n + 1])
  <2>1. WellLaid(new)
    BY <1>1, <1>2, JoinSectionLaid
  <2>2. /\ new \in Snapshot
        /\ Len(new.items) = n + 1
        /\ \A k \in 1 .. n - 1 : new.items[k] = data.items[k]
        /\ Content(new.items[n]) = Content(messages[n])
        /\ Content(new.items[n + 1]) = Content(messages[n + 1])
    <3>1. /\ new \in Snapshot
          /\ Len(new.items) = n + 1
          /\ \A k \in 1 .. n - 1 : new.items[k] = data.items[k]
          /\ new.items[n] = Rounded(messages[n], IF LastSectionCount(data) = 1
                                                   THEN "top" ELSE "middle")
          /\ new.items[n + 1] = Rounded(messages[n + 1], "bottom")
      BY <1>1, <1>2, JoinSectionShape
    <3>2. \A c \in {"top", "middle", "bottom"} :
             /\ Content(Rounded(messages[n], c)) = Content(messages[n])
             /\ Content(Rounded(messages[n + 1], c)) = Content(messages[n + 1])
      BY <1>1, <1>2, RoundedContent DEF Rounding
    <3>3. QED
      BY <3>1, <3>2
  <2>3. data' = new
    BY <1>2
  <2> HIDE DEF new
  <2>4. ASSUME NEW k \in 1 .. n + 1
        PROVE  Content(new.items[k]) = Content(messages[k])
    <3>1. CASE k \in 1 .. n - 1
      BY <1>1, <2>2, <3>1 DEF HoldsPrefix
    <3>2. CASE k = n \/ k = n + 1
      BY <2>2, <3>2
    <3>3. QED
      BY <1>1, <3>1, <3>2
  <2>5. QED
    BY <1>1, <2>1, <2>2, <2>3, <2>4 DEF HoldsPrefix
<1>3. ASSUME data.items # <<>> => ~ SameRun(data.items[n], messages[n + 1]),
             data' = StartSection(data, messages[n + 1])
      PROVE  data' \in Snapshot /\ WellLaid(data') /\ HoldsPrefix(data'.items, messages)
             /\ n + 1 <= Len(data'.items)
  <2> DEFINE new == StartSection(data, messages[n + 1])
  <2>1. WellLaid(new)
    BY <1>1, <1>3, StartSectionLaid
  <2>2. /\ new \in Snapshot
        /\ Len(new.items) = n + 1
        /\ \A k \in 1 .. n : new.items[k] = data.items[k]
        /\ Content(new.items[n + 1]) = Content(messages[n + 1])
    <3>1. /\ new \in Snapshot
          /\ Len(new.items) = n + 1
          /\ \A k \in 1 .. n : new.items[k] = data.items[k]
          /\ new.items[n + 1] = Rounded(messages[n + 1], "basic")
      BY <1>1, StartSectionShape
    <3>2. Content(Rounded(messages[n + 1], "basic")) = Content(messages[n + 1])
      BY <1>1, RoundedContent DEF Rounding
    <3>3. QED
      BY <3>1, <3>2
  <2>3. data' = new
    BY <1>3
  <2> HIDE DEF new
  <2>4. ASSUME NEW k \in 1 .. n + 1
        PROVE  Content(new.items[k]) = Content(messages[k])
    <3>1. CASE k \in 1 .. n
      BY <1>1, <2>2, <3>1 DEF HoldsPrefix
    <3>2. CASE k = n + 1
      BY <2>2, <3>2
    <3>3. QED
      BY <1>1, <3>1, <3>2
  <2>5. QED
    BY <1>1, <2>1, <2>2, <2>3, <2>4 DEF HoldsPrefix
<1>4. QED
  BY <1>1, <1>2, <1>3, PlaceStepCases

\* The empty snapshot is laid out.
LEMMA EmptySnapshotLaid == EmptySnapshot \in Snapshot /\ WellLaid(EmptySnapshot)
<1>1. <<>> \in Seq(Message) /\ <<>> \in Seq(Section) /\ DOMAIN <<>> = {}
  BY EmptySeq
<1>2. EmptySnapshot.items = <<>> /\ EmptySnapshot.sections = <<>> /\ EmptySnapshot \in Snapshot
  BY <1>1 DEF EmptySnapshot, Snapshot
<1>3. QED
  BY <1>1, <1>2 DEF WellLaid, Partitioned, Bounded, WellRounded, Grouped

\* Entering build on a laid out snapshot establishes the loop invariant.
LEMMA StartBuildLaid ==
  ASSUME NEW snap \in Snapshot, NEW batch \in Seq(Message), WellLaid(snap),
         TypeOK, scrolls < MaxScrolls, StartBuild(snap, batch)
  PROVE  /\ TypeOK'
         /\ WellLaid(data')
         /\ pc' = "building" => /\ i' <= Len(data'.items)
                                /\ HoldsPrefix(data'.items, messages')
                                /\ scrolls' < MaxScrolls
<1>1. snap.items \in Seq(Message) /\ Len(snap.items) \in Nat /\ Len(batch) \in Nat
  BY LenProperties DEF Snapshot
<1>2. /\ messages' = MarkLastSeen(snap.items, batch)
      /\ messages' \in Seq(Message)
      /\ Len(messages') = Len(snap.items) + Len(batch)
      /\ \A k \in 1 .. Len(snap.items) : Content(messages'[k]) = Content(snap.items[k])
  BY <1>1, MarkLastSeenType DEF StartBuild
<1>3. /\ data' = snap /\ i' = 0 /\ pc' \in {"trapped", "building"}
      /\ shown' = shown /\ scrolls' = scrolls /\ given' = batch
  BY DEF StartBuild
<1>4. QED
  BY <1>1, <1>2, <1>3 DEF TypeOK, HoldsPrefix

-----------------------------------------------------------------------------
(* The invariant.                                                          *)

LEMMA IInvInit == Init => IInv
<1> SUFFICES ASSUME Init PROVE IInv
  OBVIOUS
<1>1. EmptySnapshot \in Snapshot /\ WellLaid(EmptySnapshot) /\ <<>> \in Seq(Message)
  BY EmptySnapshotLaid, EmptySeq
<1>2. 0 \in 0 .. MaxScrolls
  BY ChatViewAssumption
<1>3. QED
  BY <1>1, <1>2 DEF Init, IInv, TypeOK

LEMMA IInvNext == IInv /\ [Next]_vars => IInv'
<1> SUFFICES ASSUME IInv, [Next]_vars PROVE IInv'
  OBVIOUS
<1>1. TypeOK /\ WellLaid(shown) /\ WellLaid(data) /\ shown \in Snapshot /\ data \in Snapshot
  BY DEF IInv, TypeOK
<1>2. ASSUME NEW batch \in Batches, AddMessages(batch)
      PROVE  IInv'
  <2>1. batch \in Seq(Message)
    BY <1>2, ChatViewAssumption
  <2>2. QED
    BY <1>1, <1>2, <2>1, StartBuildLaid DEF AddMessages, StartBuild, IInv
<1>3. ASSUME NEW batch \in Batches, DiffMessages(batch)
      PROVE  IInv'
  <2>1. batch \in Seq(Message)
    BY <1>3, ChatViewAssumption
  <2>2. QED
    BY <1>1, <1>3, <2>1, StartBuildLaid, EmptySnapshotLaid DEF DiffMessages, StartBuild, IInv
<1>4. CASE Clear
  BY <1>1, <1>4, EmptySnapshotLaid DEF Clear, IInv, TypeOK
<1>5. CASE BuildStep
  <2>1. /\ pc = "building" /\ i <= LastIndex(messages)
        /\ i <= Len(data.items) /\ HoldsPrefix(data.items, messages) /\ scrolls < MaxScrolls
        /\ shown' = shown /\ messages' = messages /\ scrolls' = scrolls /\ given' = given
    BY <1>5 DEF BuildStep, IInv
  <2>2. CASE SkipStep
    <3>1. Len(data.items) \in Nat /\ i \in Nat
      BY <1>1, LenProperties DEF TypeOK, Snapshot
    <3>2. i' \in Nat /\ i' <= Len(data.items) /\ pc' = pc /\ data' = data
      BY <2>2, <3>1 DEF SkipStep
    <3>3. QED
      BY <1>1, <2>1, <3>2 DEF IInv, TypeOK
  <2>3. CASE PlaceStep
    <3>1. /\ data' \in Snapshot /\ WellLaid(data') /\ HoldsPrefix(data'.items, messages)
          /\ i' \in Nat /\ i' <= Len(data'.items) /\ pc' = pc
      BY <1>1, <2>1, <2>3, PlaceStepKeepsLayout
    <3>2. QED
      BY <1>1, <2>1, <3>1 DEF IInv, TypeOK
  <2>4. QED
    BY <1>5, <2>2, <2>3 DEF BuildStep
<1>6. CASE ApplySnapshot
  <2>1. /\ pc' = "idle" /\ shown' = data /\ data' = EmptySnapshot /\ messages' = <<>> /\ i' = 0
        /\ given' = <<>> /\ scrolls < MaxScrolls
    BY <1>6 DEF ApplySnapshot, IInv
  <2>2. scrolls' \in 0 .. MaxScrolls
    BY <1>1, <1>6, <2>1, ChatViewAssumption DEF ApplySnapshot, ScrollToBottom, TypeOK
  <2>3. <<>> \in Seq(Message)
    BY EmptySeq
  <2>4. QED
    BY <1>1, <2>1, <2>2, <2>3, EmptySnapshotLaid DEF IInv, TypeOK
<1>7. CASE Scroll \/ ScrollFires
  <2>1. scrolls' \in 0 .. MaxScrolls
    BY <1>1, <1>7, ChatViewAssumption DEF Scroll, ScrollToBottom, ScrollFires, TypeOK
  <2>2. QED
    BY <1>1, <1>7, <2>1 DEF Scroll, ScrollFires, IInv, TypeOK
<1>8. CASE UNCHANGED vars
  BY <1>8 DEF vars, IInv, TypeOK
<1>9. QED
  BY <1>2, <1>3, <1>4, <1>5, <1>6, <1>7, <1>8 DEF Next

\* In every reachable state the inductive invariant holds.
THEOREM Invariance == Spec => []IInv
<1>1. Init => IInv
  BY IInvInit
<1>2. IInv /\ [Next]_vars => IInv'
  BY IInvNext
<1>3. QED
  BY <1>1, <1>2, PTL DEF Spec

\* ChatView's variables keep their types, for every mix of API calls.
THEOREM TypeCorrect == Spec => []TypeOK
<1>1. IInv => TypeOK
  BY DEF IInv
<1>2. QED
  BY <1>1, Invariance, PTL

\* The corners of the displayed bubbles always fit the sections they are in,
\* however addMessages, diffMessages and clear were mixed before.
THEOREM RoundingCorrect == Spec => []RoundingFollowsSections
<1>1. IInv => RoundingFollowsSections
  BY DEF IInv, WellLaid, RoundingFollowsSections
<1>2. QED
  BY <1>1, Invariance, PTL

\* Neighbours share a section exactly when they belong to one run: build splits
\* different users, and splits no run it should have continued.
THEOREM GroupingCorrect == Spec => []SectionsAreRuns
<1>1. IInv => SectionsAreRuns
  BY DEF IInv, WellLaid, SectionsAreRuns
<1>2. QED
  BY <1>1, Invariance, PTL
=============================================================================
