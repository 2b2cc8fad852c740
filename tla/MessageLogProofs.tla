-------------------------- MODULE MessageLogProofs --------------------------
(***************************************************************************)
(* Theorems about MessageLog for any rooms, page limit, retries, malformed *)
(* items, numbers of messages and kills.                                   *)
(*                                                                         *)
(* LossIsVisible speaks of what lies between two lines of a log.  It does  *)
(* not last by itself: the gap of an append is saved after its lines, and  *)
(* the saved record may be ahead of the file.  Accounted says it of all    *)
(* that lies between a line and the saved record, or the record about to   *)
(* be saved; PageFits and PendingFits say what append() may rely on        *)
(* between its steps.                                                      *)
(***************************************************************************)
EXTENDS MessageLog, SequenceLemmas

USE LogAssumption

TailsHaveLines == \A r \in RoomSet : tail[r] = "unended" => lines[r] # <<>>

(* A recorded gap is about messages the server had dropped from its answers. *)
SavedIsOld ==
    \A r \in RoomSet :
        /\ saved[r].last >= -1
        /\ \A s \in Covered(saved[r].gaps) : s \in Nat /\ s <= posted[r] - Limit

Saving(r) == phase = "written" /\ room = r

Passed(r, s) ==
    /\ \E x \in ToSet(lines[r]) : x <= s
    /\ \/ s <= saved[r].last
       \/ \E y \in ToSet(lines[r]) : s <= y
       \/ Saving(r) /\ s <= pending.last

Known(r, s) ==
    \/ s \in ToSet(lines[r]) \cup Malformed[r] \cup excused[r] \cup Covered(saved[r].gaps)
    \/ Saving(r) /\ s \in Covered(pending.gaps)

Accounted == \A r \in RoomSet : \A s \in Nat : Passed(r, s) => Known(r, s)

(* The page in hand holds the readable messages of an interval above the log. *)
Answered ==
    /\ Increasing(page.messages)
    /\ \E hi \in Nat : ToSet(page.messages) = (page.first .. hi) \ Malformed[room]
    /\ LastSeq(room) < page.first /\ page.first <= posted[room]
    /\ LastSeq(room) # -1 /\ page.first > LastSeq(room) + 1
          => page.first <= posted[room] - Limit + 1
    /\ \A s \in Covered(saved[room].gaps) : s < page.first

PageFits ==
    phase = "page" => IF page.first = NoSeq THEN page.messages = <<>> ELSE Answered

PendingFits ==
    phase = "written" =>
        /\ pending.last >= -1
        /\ saved[room].gaps \subseteq pending.gaps
        /\ \A s \in Covered(pending.gaps) :
              /\ s \in Nat /\ s <= posted[room] - Limit
              /\ s \notin ToSet(lines[room])
              /\ s \in Covered(saved[room].gaps) \/ s > saved[room].last

IInv ==
    /\ TypeOK
    /\ TailsHaveLines
    /\ LogIncreasing
    /\ SavedIsOld
    /\ GapsAreTrue
    /\ Accounted
    /\ PageFits
    /\ PendingFits

-----------------------------------------------------------------------------
LEMMA RoomsAreRooms ==
    /\ Len(Rooms) \in Nat /\ Len(Rooms) >= 1 /\ DOMAIN Rooms = 1 .. Len(Rooms)
    /\ \A i \in 1 .. Len(Rooms) : Rooms[i] \in RoomSet
<1>1. Rooms \in Seq(ToSet(Rooms)) /\ Rooms # <<>>
  OBVIOUS
<1>2. Len(Rooms) \in Nat /\ DOMAIN Rooms = 1 .. Len(Rooms)
  BY <1>1, LenProperties
<1>3. Len(Rooms) # 0
  BY <1>1, EmptySeq
<1> QED
  BY <1>2, <1>3 DEF RoomSet, ToSet

LEMMA RoomInHand == TypeOK => room \in RoomSet
BY RoomsAreRooms DEF TypeOK, room

LEMMA LinesAreNumbers ==
    ASSUME TypeOK, NEW r \in RoomSet
    PROVE  /\ lines[r] \in Seq(Nat) /\ lines[r] \in Seq(Int)
           /\ Len(lines[r]) \in Nat /\ DOMAIN lines[r] = 1 .. Len(lines[r])
           /\ ToSet(lines[r]) \subseteq Nat
<1>1. lines[r] \in Seq(Nat)
  BY DEF TypeOK
<1>2. lines[r] \in Seq(Int)
  BY <1>1, SeqMonotonic
<1>3. Len(lines[r]) \in Nat /\ DOMAIN lines[r] = 1 .. Len(lines[r])
  BY <1>1, LenProperties
<1> QED
  BY <1>1, <1>2, <1>3 DEF ToSet

LEMMA SavedIsRecord ==
    ASSUME TypeOK, NEW r \in RoomSet
    PROVE  /\ saved[r] \in Record /\ saved[r].last \in Int /\ saved[r].messages \in Nat
           /\ saved[r].gaps \subseteq Int \X Int
BY DEF TypeOK, Record

(* What the log of a room resumes from: the newest of its lines and its saved
   record. *)
LEMMA LastSeqFacts ==
    ASSUME TypeOK, NEW r \in RoomSet
    PROVE  /\ LastSeq(r) \in Int /\ LastSeq(r) >= -1 /\ LastSeq(r) >= saved[r].last
           /\ \A y \in ToSet(lines[r]) : y \in Nat /\ y <= LastSeq(r)
           /\ \/ LastSeq(r) = saved[r].last
              \/ LastSeq(r) = -1
              \/ LastSeq(r) \in ToSet(lines[r])
<1> DEFINE S == ToSet(lines[r]) \cup {-1}
           p == PhysicalLastSeq(r)
<1>1. ToSet(lines[r]) \subseteq Nat /\ IsFiniteSet(ToSet(lines[r]))
  BY LinesAreNumbers, FiniteRange
<1>2. S \subseteq Int /\ S # {} /\ IsFiniteSet(S)
  <2>1. IsFiniteSet(S)
    BY <1>1, FS_AddElement
  <2>2. S \subseteq Int /\ S # {}
    BY <1>1
  <2> QED
    BY <2>1, <2>2
<1>3. p \in S /\ \A x \in S : x <= p
  <2> HIDE DEF S
  <2>1. Max(S) \in S /\ \A x \in S : x <= Max(S)
    BY <1>2, MaxIsLargest
  <2> QED
    BY <2>1 DEF PhysicalLastSeq, S
<1>4. p \in Int /\ p >= -1 /\ (p = -1 \/ p \in ToSet(lines[r])) /\ \A y \in ToSet(lines[r]) : y <= p
  BY <1>1, <1>3
<1> HIDE DEF p
<1>5. saved[r].last \in Int
  BY SavedIsRecord
<1>6. LastSeq(r) = IF saved[r].last >= p THEN saved[r].last ELSE p
  <2>1. \E m \in {saved[r].last, p} : \A x \in {saved[r].last, p} : m >= x
    BY <1>4, <1>5
  <2>2. LastSeq(r) \in {saved[r].last, p} /\ \A x \in {saved[r].last, p} : LastSeq(r) >= x
    BY <2>1 DEF LastSeq, Max, p
  <2> QED
    BY <1>4, <1>5, <2>2
<1> QED
  BY <1>1, <1>4, <1>5, <1>6

LEMMA CoveredIs ==
    ASSUME NEW gaps, NEW s
    PROVE  s \in Covered(gaps) <=> \E g \in gaps : s \in g[1] .. g[2] - 1
BY DEF Covered

LEMMA CoveredUnion ==
    ASSUME NEW a, NEW b
    PROVE  Covered(a \cup b) = Covered(a) \cup Covered(b)
BY DEF Covered

(* The gap of an append, and what it covers. *)
LEMMA GapFacts ==
    ASSUME TypeOK
    PROVE  /\ Gap \subseteq Int \X Int
           /\ \A s : s \in Covered(Gap) <=>
                 /\ page.first # NoSeq /\ LastSeq(room) # -1
                 /\ page.first > LastSeq(room) + 1
                 /\ s \in LastSeq(room) + 1 .. page.first - 1
           /\ Covered(Gap) \subseteq Nat
<1>1. page.first \in Nat /\ LastSeq(room) \in Int /\ LastSeq(room) >= -1
  BY RoomInHand, LastSeqFacts DEF TypeOK
<1> DEFINE last == LastSeq(room)
           first == page.first
           due == first # NoSeq /\ last # -1 /\ first > last + 1
<1>2. Gap = IF due THEN {<<last + 1, first>>} ELSE {}
  BY DEF Gap
<1> HIDE DEF last
<1>3. Covered(Gap) = IF due THEN last + 1 .. first - 1 ELSE {}
  <2>1. CASE due
    <3>1. Gap = {<<last + 1, first>>}
      BY <1>2, <2>1
    <3>2. \A g \in Gap : g[1] = last + 1 /\ g[2] = first
      BY <3>1
    <3>3. \A s : s \in Covered(Gap) <=> s \in last + 1 .. first - 1
      BY <3>1, <3>2, CoveredIs
    <3> QED
      BY <2>1, <3>3
  <2>2. CASE ~due
    BY <1>2, <2>2 DEF Covered
  <2> QED
    BY <2>1, <2>2
<1>4. last \in Int /\ first \in Nat /\ last >= -1
  BY <1>1 DEF last
<1>5. Gap \subseteq Int \X Int
  BY <1>2, <1>4
<1>6. Covered(Gap) \subseteq Nat
  BY <1>3, <1>4
<1> QED
  BY <1>3, <1>5, <1>6 DEF last

(* The new messages of the page in hand. *)
LEMMA NewFacts ==
    ASSUME TypeOK, PageFits, phase = "page"
    PROVE  /\ New \in Seq(Nat) /\ New \in Seq(Int) /\ Increasing(New)
           /\ Len(New) \in Nat /\ ToSet(New) \subseteq Nat
           /\ ToSet(New) = {s \in ToSet(page.messages) : s > LastSeq(room)}
           /\ page.first = NoSeq => New = <<>>
<1>1. page.messages \in Seq(Nat)
  BY DEF TypeOK
<1>2. page.messages \in Seq(Int)
  BY <1>1, SeqMonotonic
<1>3. Increasing(page.messages)
  <2>1. CASE page.first = NoSeq
    BY <2>1 DEF PageFits, Increasing
  <2>2. CASE page.first # NoSeq
    BY <2>2 DEF PageFits, Answered
  <2> QED
    BY <2>1, <2>2
<1> DEFINE S == {s \in ToSet(page.messages) : s > LastSeq(room)}
<1>4. New = Kept(page.messages, S)
  BY DEF New
<1>5. New \in Seq(Nat) /\ ToSet(New) = ToSet(page.messages) \cap S
  BY <1>1, <1>4, KeptInOrder
<1>6. Increasing(New)
  BY <1>2, <1>3, <1>4, KeptIncreasing
<1>7. New \in Seq(Int) /\ Len(New) \in Nat /\ DOMAIN New = 1 .. Len(New)
  BY <1>5, SeqMonotonic, LenProperties
<1>8. ToSet(New) \subseteq Nat
  BY <1>5, <1>7 DEF ToSet
<1>9. ASSUME page.first = NoSeq PROVE New = <<>>
  <2>1. ToSet(page.messages) = {}
    BY <1>9 DEF PageFits, ToSet
  <2>2. \A i \in 1 .. Len(New) : New[i] \in ToSet(New)
    BY <1>7 DEF ToSet
  <2>3. ~(1 \in 1 .. Len(New))
    BY <1>5, <2>1, <2>2
  <2>4. Len(New) = 0
    BY <1>7, <2>3
  <2> QED
    BY <1>5, <2>4, EmptySeq
<1> QED
  BY <1>5, <1>6, <1>7, <1>8, <1>9
(* What the log file of a room becomes when the lines of `new` are written to
   it: see Joined. *)
Out(r, new) == Before(r) \o Readable(r, new)

LEMMA OutputFacts ==
    ASSUME TypeOK, TailsHaveLines, LogIncreasing, NEW r \in RoomSet,
           NEW new \in Seq(Nat), Increasing(new), \A s \in ToSet(new) : s > LastSeq(r)
    PROVE  /\ Out(r, new) \in Seq(Nat) /\ Increasing(Out(r, new))
           /\ ToSet(Out(r, new)) \subseteq ToSet(lines[r]) \cup ToSet(new)
           /\ ToSet(lines[r]) \cup ToSet(new) \subseteq ToSet(Out(r, new)) \cup Unreadable(r, new)
           /\ Unreadable(r, new) \subseteq Nat
           /\ Readable(r, new) = <<>> => ToSet(Out(r, new)) \subseteq ToSet(lines[r])
           /\ Readable(r, new) # <<>> => Out(r, new) # <<>>
<1> DEFINE b == Before(r)
           n == Readable(r, new)
           half == IF tail[r] = "unended" THEN {Last(lines[r])} ELSE {}
           joined == IF Joined(r) /\ new # <<>> THEN {Head(new)} ELSE {}
<1>1. lines[r] \in Seq(Nat) /\ Increasing(lines[r])
  BY LinesAreNumbers DEF LogIncreasing, Increasing
<1>2. b \in Seq(Nat) /\ Increasing(b) /\ half \subseteq Nat /\ ToSet(lines[r]) = ToSet(b) \cup half
  <2>1. CASE tail[r] = "unended"
    <3>1. lines[r] # <<>>
      BY <2>1 DEF TailsHaveLines
    <3>2. b = Front(lines[r]) /\ half = {Last(lines[r])}
      BY <2>1 DEF Before
    <3>3. /\ Front(lines[r]) \in Seq(Nat) /\ Increasing(Front(lines[r])) /\ Last(lines[r]) \in Nat
          /\ ToSet(lines[r]) = ToSet(Front(lines[r])) \cup {Last(lines[r])}
      <4>1. Nat \in SUBSET Int
        OBVIOUS
      <4> QED
        BY <1>1, <3>1, <4>1, FrontIncreasing, Zenon
    <3> HIDE DEF b, half
    <3> QED
      BY <3>2, <3>3
  <2>2. CASE tail[r] # "unended"
    BY <1>1, <2>2 DEF Before
  <2> QED
    BY <2>1, <2>2
<1>3. n \in Seq(Nat) /\ Increasing(n) /\ joined \subseteq Nat /\ ToSet(new) = ToSet(n) \cup joined
  <2>1. CASE Joined(r) /\ new # <<>>
    BY <2>1, TailIncreasing DEF Readable
  <2>2. CASE ~(Joined(r) /\ new # <<>>)
    BY <2>2 DEF Readable
  <2> QED
    BY <2>1, <2>2
<1>4. Unreadable(r, new) = half \cup joined
  BY DEF Unreadable
<1> HIDE DEF b, n, half, joined
<1>5. \A x \in ToSet(b), y \in ToSet(n) : x < y
  <2> SUFFICES ASSUME NEW x \in ToSet(b), NEW y \in ToSet(n) PROVE x < y
    OBVIOUS
  <2>1. x \in Nat /\ x <= LastSeq(r) /\ LastSeq(r) \in Int
    BY <1>2, LastSeqFacts
  <2>2. y > LastSeq(r) /\ y \in Int
    <3>1. y \in ToSet(new)
      BY <1>3
    <3>2. y \in Nat
      BY <1>3 DEF ToSet
    <3> QED
      BY <3>1, <3>2
  <2> QED
    BY <2>1, <2>2
<1>6. b \in Seq(Int) /\ n \in Seq(Int)
  BY <1>2, <1>3, SeqMonotonic
<1>7. Increasing(b \o n) /\ ToSet(b \o n) = ToSet(b) \cup ToSet(n)
  BY <1>2, <1>3, <1>5, <1>6, JoinedIncreasing
<1>8. b \o n \in Seq(Nat)
  BY <1>2, <1>3, ConcatProperties
<1>9. n = <<>> => ToSet(n) = {}
  BY DEF ToSet
<1>10. n # <<>> => b \o n # <<>>
  BY <1>2, <1>3, ConcatEmptySeq
<1>11. Out(r, new) = b \o n
  BY DEF Out, b, n
<1> HIDE DEF Out
<1> QED
  BY <1>2, <1>3, <1>4, <1>7, <1>8, <1>9, <1>10, <1>11 DEF n

LEMMA CursorFacts ==
    ASSUME TypeOK, PageFits, phase = "page"
    PROVE  /\ Cursor \in Int /\ Cursor >= LastSeq(room)
           /\ \A s \in ToSet(New) : s <= Cursor
           /\ Cursor = LastSeq(room) \/ Cursor \in ToSet(New)
<1> DEFINE S == ToSet(New) \cup {LastSeq(room)}
<1>1. New \in Seq(Nat) /\ ToSet(New) \subseteq Nat /\ LastSeq(room) \in Int
  BY NewFacts, LastSeqFacts, RoomInHand
<1>2. IsFiniteSet(S)
  BY <1>1, FiniteRange, FS_AddElement
<1>3. S \subseteq Int /\ S # {}
  BY <1>1
<1> HIDE DEF S
<1>4. Max(S) \in S /\ \A x \in S : x <= Max(S)
  BY <1>2, <1>3, MaxIsLargest
<1>5. Cursor = Max(S)
  BY DEF Cursor, S
<1> QED
  BY <1>1, <1>3, <1>4, <1>5 DEF S

(* A part of the new messages, as much of them as was written. *)
LEMMA PartOfNew ==
    ASSUME TypeOK, PageFits, phase = "page", NEW n \in 0 .. Len(New)
    PROVE  LET new == SubSeq(New, 1, n)
           IN  /\ new \in Seq(Nat) /\ Increasing(new) /\ Len(new) = n
               /\ ToSet(new) \subseteq ToSet(New)
               /\ \A s \in ToSet(new) : s \in Nat /\ s > LastSeq(room)
               /\ \A x \in ToSet(New), y \in ToSet(new) : x <= y => x \in ToSet(new)
<1>1. /\ New \in Seq(Int) /\ New \in Seq(Nat) /\ Increasing(New) /\ Len(New) \in Nat
      /\ \A s \in ToSet(New) : s \in Nat /\ s > LastSeq(room)
  BY NewFacts
<1>2. SubSeq(New, 1, n) \in Seq(Nat)
  <2>1. 1 \in Int /\ n \in Int /\ \A i \in 1 .. n : New[i] \in Nat
    BY <1>1
  <2> QED
    BY <1>1, <2>1, SubSeqProperties
<1>3. LET new == SubSeq(New, 1, n)
      IN  /\ Increasing(new) /\ Len(new) = n /\ ToSet(new) \subseteq ToSet(New)
          /\ \A x \in ToSet(New), y \in ToSet(new) : x <= y => x \in ToSet(new)
  BY <1>1, PrefixIncreasing
<1> QED
  BY <1>1, <1>2, <1>3
(* Whatever part of the new messages append() wrote: what then lies between a
   line of the log and the newest known message is logged, or was missed for a
   reason that is on record, or lies in the gap of this append. *)
LEMMA AppendKnown ==
    ASSUME IInv, phase = "page", NEW n \in 0 .. Len(New), NEW new, new = SubSeq(New, 1, n),
           NEW s \in Nat, NEW x \in ToSet(Out(room, new)), x <= s,
           \/ s <= LastSeq(room)
           \/ \E y \in ToSet(Out(room, new)) \cup ToSet(new) : s <= y
    PROVE  \/ s \in ToSet(Out(room, new)) \cup Unreadable(room, new) \cup Malformed[room]
                    \cup excused[room] \cup Covered(saved[room].gaps)
           \/ s \in Covered(Gap) /\ s > LastSeq(room)
<1> DEFINE last == LastSeq(room)
           out == Out(room, new)
<1>1. /\ TypeOK /\ TailsHaveLines /\ LogIncreasing /\ PageFits /\ Accounted
      /\ room \in RoomSet
  BY RoomInHand DEF IInv
<1>2. /\ new \in Seq(Nat) /\ Increasing(new) /\ ToSet(new) \subseteq ToSet(New)
      /\ \A y \in ToSet(new) : y \in Nat /\ y > last
      /\ \A z \in ToSet(New), y \in ToSet(new) : z <= y => z \in ToSet(new)
  BY <1>1, PartOfNew
<1>3. /\ ToSet(out) \subseteq ToSet(lines[room]) \cup ToSet(new)
      /\ ToSet(lines[room]) \cup ToSet(new) \subseteq ToSet(out) \cup Unreadable(room, new)
  BY <1>1, <1>2, OutputFacts
<1>4. /\ last \in Int /\ last >= saved[room].last /\ saved[room].last \in Int
      /\ \A y \in ToSet(lines[room]) : y \in Nat /\ y <= last
      /\ last = saved[room].last \/ last = -1 \/ last \in ToSet(lines[room])
  BY <1>1, LastSeqFacts, SavedIsRecord
<1>5. x \in Nat /\ (x \in ToSet(lines[room]) \/ x \in ToSet(new))
  BY <1>2, <1>3, <1>4
<1> HIDE DEF last, out
<1>6. CASE s <= last
  <2>1. x \in ToSet(lines[room])
    BY <1>2, <1>4, <1>5, <1>6
  <2>2. s <= saved[room].last \/ \E y \in ToSet(lines[room]) : s <= y
    BY <1>4, <1>6
  <2>3. Known(room, s)
    BY <1>1, <2>1, <2>2 DEF Accounted, Passed
  <2> QED
    BY <1>3, <2>3 DEF Known, Saving, out
<1>7. CASE s > last
  <2>1. PICK y \in ToSet(new) : s <= y
    BY <1>2, <1>3, <1>4, <1>7 DEF last, out
  <2>2. y \in ToSet(New) /\ New # <<>>
    BY <1>2, <2>1 DEF ToSet
  <2>3. /\ ToSet(New) = {z \in ToSet(page.messages) : z > last} /\ page.first # NoSeq
        /\ page.first \in Nat
    BY <1>1, <2>2, NewFacts DEF last, TypeOK
  <2>4. PICK hi \in Nat : ToSet(page.messages) = (page.first .. hi) \ Malformed[room]
    BY <1>1, <2>3 DEF PageFits, Answered
  <2>5. CASE s >= page.first
    <3>1. s \in page.first .. hi
      BY <2>1, <2>2, <2>3, <2>4, <2>5
    <3>2. s \in Malformed[room] \/ s \in ToSet(new)
      BY <1>2, <1>7, <2>1, <2>3, <2>4, <3>1
    <3> QED
      BY <1>3, <3>2 DEF out
  <2>6. CASE s < page.first
    <3>1. x \in ToSet(lines[room])
      BY <1>2, <1>5, <2>3, <2>4, <2>6
    <3>2. last # -1
      BY <1>4, <3>1
    <3>3. page.first > last + 1 /\ s \in last + 1 .. page.first - 1
      BY <1>4, <1>7, <2>3, <2>6
    <3> QED
      BY <1>1, <1>7, <2>3, <3>2, <3>3, GapFacts DEF last
  <2> QED
    BY <2>3, <2>5, <2>6
<1> QED
  BY <1>4, <1>6, <1>7

(* No gap on record, nor that of the append in hand, claims what the log then
   has. *)
LEMMA GapsMissOutput ==
    ASSUME IInv, phase = "page", NEW n \in 0 .. Len(New), NEW new, new = SubSeq(New, 1, n),
           NEW s \in Covered(saved[room].gaps) \cup Covered(Gap)
    PROVE  s \notin ToSet(Out(room, new))
<1>1. /\ TypeOK /\ TailsHaveLines /\ LogIncreasing /\ PageFits /\ GapsAreTrue /\ SavedIsOld
      /\ room \in RoomSet
  BY RoomInHand DEF IInv
<1>2. /\ new \in Seq(Nat) /\ Increasing(new) /\ ToSet(new) \subseteq ToSet(New)
      /\ \A y \in ToSet(new) : y \in Nat /\ y > LastSeq(room)
  BY <1>1, PartOfNew
<1>3. ToSet(Out(room, new)) \subseteq ToSet(lines[room]) \cup ToSet(new)
  BY <1>1, <1>2, OutputFacts
<1>4. LastSeq(room) \in Int /\ \A y \in ToSet(lines[room]) : y \in Nat /\ y <= LastSeq(room)
  BY <1>1, LastSeqFacts
<1>5. s \in Nat
  BY <1>1, GapFacts DEF SavedIsOld
<1>6. s \notin ToSet(lines[room])
  <2>1. CASE s \in Covered(saved[room].gaps)
    BY <1>1, <2>1 DEF GapsAreTrue
  <2>2. CASE s \in Covered(Gap)
    <3>1. s \in LastSeq(room) + 1 .. page.first - 1
      BY <1>1, <2>2, GapFacts
    <3> QED
      BY <1>4, <3>1
  <2> QED
    BY <2>1, <2>2
<1>7. ASSUME s \in ToSet(new) PROVE FALSE
  <2>1. New # <<>> /\ s \in ToSet(New)
    BY <1>2, <1>7 DEF ToSet
  <2>2. page.first # NoSeq /\ s \in ToSet(page.messages) /\ page.first \in Nat
    BY <1>1, <2>1, NewFacts DEF TypeOK
  <2>3. Answered
    BY <1>1, <2>2 DEF PageFits
  <2>4. s >= page.first
    BY <2>2, <2>3 DEF Answered
  <2>5. CASE s \in Covered(saved[room].gaps)
    BY <1>5, <2>2, <2>3, <2>4, <2>5 DEF Answered
  <2>6. CASE s \in Covered(Gap)
    <3>1. s \in LastSeq(room) + 1 .. page.first - 1
      BY <1>1, <2>6, GapFacts
    <3> QED
      BY <1>4, <2>2, <2>4, <3>1
  <2> QED
    BY <2>5, <2>6
<1> QED
  BY <1>3, <1>6, <1>7
-----------------------------------------------------------------------------
LEMMA InitIInv == Init => IInv
<1> SUFFICES ASSUME Init PROVE IInv
  OBVIOUS
<1>1. TypeOK
  <2>1. Unseen \in Record /\ NoPage \in [first : Nat, messages : Seq(Nat)]
    BY DEF Unseen, Record, NoPage, NoSeq
  <2>2. \A r \in RoomSet : MaxSeq[r] \in Nat
    BY DEF RoomSet
  <2> QED
    BY <2>1, <2>2, RoomsAreRooms DEF Init, TypeOK, Phases, Tails
<1>2. \A r \in RoomSet : ToSet(lines[r]) = {} /\ Len(lines[r]) = 0
  BY DEF Init, ToSet
<1>3. \A r \in RoomSet : saved[r].last = -1 /\ Covered(saved[r].gaps) = {}
  BY DEF Init, Unseen, Covered
<1>4. TailsHaveLines /\ PageFits /\ PendingFits
  BY DEF Init, TailsHaveLines, PageFits, PendingFits
<1>5. LogIncreasing /\ SavedIsOld
  <2>1. LogIncreasing
    <3> SUFFICES ASSUME NEW r \in RoomSet, NEW i \in 1 .. Len(lines[r]) PROVE FALSE
      BY DEF LogIncreasing
    <3>1. i \in 1 .. 0
      BY <1>2
    <3> QED
      BY <3>1
  <2>2. SavedIsOld
    <3> SUFFICES ASSUME NEW r \in RoomSet
                 PROVE  /\ saved[r].last >= -1
                        /\ \A s \in Covered(saved[r].gaps) : s \in Nat /\ s <= posted[r] - Limit
      BY DEF SavedIsOld
    <3>1. saved[r].last = -1 /\ Covered(saved[r].gaps) = {}
      BY <1>3
    <3>2. saved[r].last >= -1
      BY <3>1
    <3> QED
      BY <3>1, <3>2
  <2> QED
    BY <2>1, <2>2
<1>6. GapsAreTrue /\ Accounted
  BY <1>2, <1>3 DEF GapsAreTrue, Accounted, Passed
<1> QED
  BY <1>1, <1>4, <1>5, <1>6 DEF IInv

LEMMA NextRoomFacts ==
    ASSUME TypeOK, NextRoom
    PROVE  pos' \in 1 .. Len(Rooms) /\ attempt' \in 0 .. Retries /\ phase' \in {"swept", "request"}
<1>1. pos \in 1 .. Len(Rooms) /\ Len(Rooms) \in Nat /\ Retries \in Nat
  BY RoomsAreRooms DEF TypeOK
<1>2. CASE pos = Len(Rooms)
  BY <1>1, <1>2 DEF NextRoom
<1>3. CASE pos # Len(Rooms)
  BY <1>1, <1>3 DEF NextRoom
<1> QED
  BY <1>2, <1>3

(* A step that leaves the files alone. *)
LEMMA QuietStep ==
    ASSUME IInv, TypeOK', UNCHANGED files,
           \A r \in RoomSet : posted[r] <= posted'[r] /\ excused[r] \subseteq excused'[r],
           phase' = "written" => phase = "written" /\ pos' = pos /\ pending' = pending,
           \A r \in RoomSet, s \in Nat :
              Saving(r) /\ s \in Covered(pending.gaps) /\ Passed(r, s) /\ ~Saving(r)' => Known(r, s)',
           PageFits'
    PROVE  IInv'
<1>1. lines' = lines /\ tail' = tail /\ saved' = saved
  BY DEF files
<1>2. \A r \in RoomSet : posted[r] \in Int /\ posted'[r] \in Int
  BY DEF IInv, TypeOK
<1>3. \A r \in RoomSet : Saving(r)' => Saving(r) /\ pending' = pending
  BY DEF Saving, room
<1>4. TailsHaveLines' /\ LogIncreasing' /\ GapsAreTrue'
  BY <1>1 DEF IInv, TailsHaveLines, LogIncreasing, GapsAreTrue
<1>5. SavedIsOld'
  <2> SUFFICES ASSUME NEW r \in RoomSet
               PROVE  /\ saved[r].last >= -1
                      /\ \A s \in Covered(saved[r].gaps) : s \in Nat /\ s <= posted'[r] - Limit
    BY <1>1 DEF SavedIsOld
  <2>1. /\ saved[r].last >= -1
        /\ \A s \in Covered(saved[r].gaps) : s \in Nat /\ s <= posted[r] - Limit
    BY DEF IInv, SavedIsOld
  <2>2. posted[r] \in Int /\ posted'[r] \in Int /\ posted[r] <= posted'[r] /\ Limit \in Nat
    BY <1>2
  <2> QED
    BY ONLY <2>1, <2>2
<1>6. Accounted'
  <2> SUFFICES ASSUME NEW r \in RoomSet, NEW s \in Nat, Passed(r, s)' PROVE Known(r, s)'
    BY DEF Accounted
  <2>1. Passed(r, s)
    BY <1>1, <1>3 DEF Passed
  <2>2. Known(r, s)
    BY <2>1 DEF IInv, Accounted
  <2>3. CASE s \in ToSet(lines[r]) \cup Malformed[r] \cup excused[r] \cup Covered(saved[r].gaps)
    BY <1>1, <2>3 DEF Known
  <2>4. CASE Saving(r) /\ s \in Covered(pending.gaps)
    <3>1. CASE Saving(r)'
      BY <1>3, <2>4, <3>1 DEF Known
    <3>2. CASE ~Saving(r)'
      BY <2>1, <2>4, <3>2
    <3> QED
      BY <3>1, <3>2
  <2> QED
    BY <2>2, <2>3, <2>4 DEF Known
<1>7. PendingFits'
  <2> SUFFICES ASSUME phase' = "written" PROVE PendingFits'
    BY DEF PendingFits
  <2>1. phase = "written" /\ room' = room /\ pending' = pending
    BY DEF room
  <2>2. room \in RoomSet
    BY RoomInHand DEF IInv
  <2>3. \A s \in Nat : s <= posted[room] - Limit => s <= posted'[room] - Limit
    BY <1>2, <2>2
  <2> QED
    BY <1>1, <2>1, <2>2, <2>3 DEF IInv, PendingFits
<1> QED
  BY <1>4, <1>5, <1>6, <1>7 DEF IInv

LEMMA PostStep ==
    ASSUME IInv, NEW r \in RoomSet, Post(r)
    PROVE  IInv'
<1>1. /\ posted' = [posted EXCEPT ![r] = @ + 1] /\ posted[r] < MaxSeq[r]
      /\ lines' = lines /\ tail' = tail /\ saved' = saved /\ phase' = phase /\ pos' = pos
      /\ attempt' = attempt /\ page' = page /\ pending' = pending
      /\ polled' = polled /\ excused' = excused /\ kills' = kills
  BY DEF Post, files, history
<1>2. TypeOK /\ PageFits
  BY DEF IInv
<1>3. \A q \in RoomSet : posted[q] \in Nat /\ MaxSeq[q] \in Nat
  BY <1>2 DEF TypeOK, RoomSet
<1>4. posted' \in [RoomSet -> Nat] /\ \A q \in RoomSet : posted[q] <= posted'[q] /\ posted'[q] <= MaxSeq[q]
  <2>1. posted \in [RoomSet -> Nat] /\ \A q \in RoomSet : posted[q] <= MaxSeq[q]
    BY <1>2 DEF TypeOK
  <2> QED
    BY ONLY <1>1, <1>3, <2>1
<1>5. TypeOK'
  BY <1>1, <1>2, <1>4 DEF TypeOK
<1>6. PageFits'
  <2> SUFFICES ASSUME phase = "page", page.first # NoSeq PROVE Answered'
    BY <1>1, <1>2 DEF PageFits
  <2>1. Answered /\ room' = room /\ room \in RoomSet /\ page.first \in Nat
    BY <1>1, <1>2, RoomInHand DEF PageFits, room, TypeOK
  <2>2. LastSeq(room)' = LastSeq(room)
    BY <1>1, <2>1 DEF LastSeq, PhysicalLastSeq
  <2>3. posted[room] \in Nat /\ posted'[room] \in Nat /\ posted[room] <= posted'[room]
    BY <1>3, <1>4, <2>1
  <2>4. /\ page.first <= posted[room] => page.first <= posted'[room]
        /\ page.first <= posted[room] - Limit + 1 => page.first <= posted'[room] - Limit + 1
    BY <2>1, <2>3
  <2> QED
    BY <1>1, <2>1, <2>2, <2>4 DEF Answered
<1>7. \A q \in RoomSet : Saving(q)' = Saving(q)
  BY <1>1 DEF Saving, room
<1> QED
  BY <1>1, <1>4, <1>5, <1>6, <1>7, QuietStep DEF files

(* The steps between the polls. *)
LEMMA ControlStep ==
    ASSUME IInv, BeginSweep \/ Stop \/ Retry \/ GiveUp \/ KillBetween
    PROVE  IInv'
<1>1. TypeOK /\ PageFits
  BY DEF IInv
<1>2. /\ UNCHANGED files /\ posted' = posted /\ excused' = excused
      /\ phase # "written" /\ phase' # "written" /\ phase' # "page"
  BY DEF BeginSweep, Stop, Retry, GiveUp, NextRoom, KillBetween, Die, history, files
<1>3. \A r \in RoomSet : posted[r] \in Nat
  BY <1>1 DEF TypeOK
<1>4. TypeOK'
  <2>1. Unseen \in Record /\ NoPage \in [first : Nat, messages : Seq(Nat)]
    BY DEF Unseen, Record, NoPage, NoSeq
  <2>2. CASE BeginSweep \/ Stop \/ Retry
    <3>1. pos' \in 1 .. Len(Rooms) /\ attempt' \in 0 .. Retries /\ phase' \in Phases
      <4>1. CASE BeginSweep
        BY <4>1, RoomsAreRooms DEF BeginSweep, Phases
      <4>2. CASE Stop
        BY <1>1, <4>2 DEF Stop, TypeOK, Phases
      <4>3. CASE Retry
        BY <1>1, <4>3 DEF Retry, TypeOK
      <4> QED
        BY <2>2, <4>1, <4>2, <4>3
    <3>2. UNCHANGED <<posted, lines, tail, saved, page, pending, polled, excused, kills>>
      BY <2>2 DEF BeginSweep, Stop, Retry, history, files
    <3> QED
      BY <1>1, <3>1, <3>2 DEF TypeOK
  <2>3. CASE GiveUp
    <3>1. pos' \in 1 .. Len(Rooms) /\ attempt' \in 0 .. Retries /\ phase' \in Phases
      BY <1>1, <2>3, NextRoomFacts DEF GiveUp, Phases
    <3> QED
      BY <1>1, <2>3, <3>1 DEF GiveUp, TypeOK, history, files
  <2>4. CASE KillBetween
    <3>1. pos' \in 1 .. Len(Rooms) /\ attempt' \in 0 .. Retries /\ kills' \in 0 .. MaxKills
      BY <1>1, <2>4, RoomsAreRooms DEF KillBetween, Die, TypeOK
    <3> QED
      BY <1>1, <2>1, <2>4, <3>1 DEF KillBetween, Die, TypeOK, Phases
  <2> QED
    BY <2>2, <2>3, <2>4
<1>5. PageFits'
  BY <1>2 DEF PageFits
<1>6. \A r \in RoomSet : ~Saving(r)
  BY <1>2 DEF Saving
<1> QED
  BY <1>2, <1>3, <1>4, <1>5, <1>6, QuietStep
(* Ascending lists an interval without the malformed items. *)
LEMMA AscendingFacts ==
    ASSUME NEW lo \in Nat, NEW hi \in Nat, lo <= hi, NEW except
    PROVE  LET s == Ascending(lo, hi, except)
           IN  s \in Seq(Nat) /\ Increasing(s) /\ ToSet(s) = (lo .. hi) \ except
<1> DEFINE all == [i \in 1 .. hi - lo + 1 |-> lo + i - 1]
           S == (lo .. hi) \ except
           s == Ascending(lo, hi, except)
<1>1. hi - lo + 1 \in Nat /\ \A i \in 1 .. hi - lo + 1 : lo + i - 1 \in Nat
  OBVIOUS
<1>2. all \in Seq(Nat) /\ Len(all) = hi - lo + 1
  BY <1>1, IsASeq, LenProperties
<1>3. DOMAIN all = 1 .. hi - lo + 1 /\ \A i \in 1 .. hi - lo + 1 : all[i] = lo + i - 1
  OBVIOUS
<1>4. all \in Seq(Int)
  BY <1>2, SeqMonotonic
<1>5. s = Kept(all, S)
  BY DEF Ascending
<1> HIDE DEF all
<1>6. Increasing(all)
  <2> SUFFICES ASSUME NEW i \in 1 .. Len(all), NEW j \in 1 .. Len(all), i < j
               PROVE  all[i] < all[j]
    BY DEF Increasing
  <2>1. all[i] = lo + i - 1 /\ all[j] = lo + j - 1
    BY <1>2, <1>3
  <2> QED
    BY <1>1, <1>2, <2>1
<1>7. lo .. hi \subseteq ToSet(all)
  <2> SUFFICES ASSUME NEW x \in lo .. hi PROVE x \in ToSet(all)
    OBVIOUS
  <2>1. x - lo + 1 \in 1 .. hi - lo + 1 /\ lo + (x - lo + 1) - 1 = x
    OBVIOUS
  <2>2. x - lo + 1 \in DOMAIN all /\ all[x - lo + 1] = x
    BY <1>3, <2>1
  <2> QED
    BY <2>2 DEF ToSet
<1>8. s \in Seq(Nat) /\ ToSet(s) = ToSet(all) \cap S
  BY <1>2, <1>5, KeptInOrder
<1>9. Increasing(s)
  BY <1>4, <1>5, <1>6, KeptIncreasing
<1>10. ToSet(s) = S
  BY <1>7, <1>8
<1> QED
  BY <1>8, <1>9, <1>10 DEF s, S

LEMMA AnswerStep ==
    ASSUME IInv, NEW r \in RoomSet, Answer(r)
    PROVE  IInv'
<1> DEFINE S == Served(r, LastSeq(r))
           last == LastSeq(r)
<1>1. /\ phase = "request" /\ room = r /\ phase' = "page" /\ pos' = pos
      /\ page' = IF S = {} THEN NoPage
                 ELSE [first |-> Min(S), messages |-> Ascending(Min(S), Max(S), Malformed[r])]
      /\ UNCHANGED files /\ posted' = posted /\ attempt' = attempt /\ pending' = pending
      /\ UNCHANGED history
  BY DEF Answer
<1>2. TypeOK
  BY DEF IInv
<1>3. posted[r] \in Nat /\ Limit \in Nat \ {0} /\ last \in Int /\ last >= -1
  BY <1>2, LastSeqFacts DEF TypeOK
<1> HIDE DEF last
<1>4. S = {s \in 1 .. posted[r] : s > last /\ s > posted[r] - Limit}
  BY DEF Served, last
<1> HIDE DEF S
<1>5. \A r2 \in RoomSet : posted[r2] \in Nat
  BY <1>2 DEF TypeOK
<1>6. LastSeq(r)' = last /\ room' = r
  BY <1>1 DEF LastSeq, PhysicalLastSeq, files, room, last
<1>7. CASE S = {}
  <2>1. page' = NoPage
    BY <1>1, <1>7
  <2>2. TypeOK'
    <3>1. NoPage \in [first : Nat, messages : Seq(Nat)]
      BY DEF NoPage, NoSeq
    <3> QED
      BY <1>1, <1>2, <2>1, <3>1 DEF TypeOK, files, history, Phases
  <2>3. PageFits'
    BY <2>1 DEF PageFits, NoPage
  <2> QED
    BY <1>1, <1>5, <2>2, <2>3, QuietStep DEF Saving, history
<1>8. CASE S # {}
  <2> DEFINE lo == Min(S)
             hi == Max(S)
             m == Ascending(lo, hi, Malformed[r])
  <2>1. S \subseteq Nat /\ S \subseteq Int /\ IsFiniteSet(S)
    <3>1. IsFiniteSet(1 .. posted[r])
      <4>1. 1 \in Int /\ posted[r] \in Int
        BY <1>3
      <4> QED
        BY <4>1, FS_Interval
    <3>2. S \subseteq 1 .. posted[r]
      BY <1>4
    <3>3. IsFiniteSet(S)
      BY <3>1, <3>2, FS_Subset
    <3>4. 1 .. posted[r] \subseteq Nat /\ 1 .. posted[r] \subseteq Int
      BY <1>3
    <3> QED
      BY <3>2, <3>3, <3>4
  <2>2. lo \in S /\ hi \in S /\ \A s \in S : lo <= s /\ s <= hi
    BY <1>8, <2>1, MinIsLeast, MaxIsLargest
  <2>3. page' = [first |-> lo, messages |-> m]
    BY <1>1, <1>8
  <2> HIDE DEF lo, hi
  <2>4. lo \in Nat /\ hi \in Nat /\ lo <= hi /\ lo >= 1
    BY <1>3, <1>4, <2>1, <2>2
  <2>5. m \in Seq(Nat) /\ Increasing(m) /\ ToSet(m) = (lo .. hi) \ Malformed[r]
    BY <2>4, AscendingFacts
  <2> HIDE DEF m
  <2>6. TypeOK'
    <3>1. page' \in [first : Nat, messages : Seq(Nat)]
      BY ONLY <2>3, <2>4, <2>5
    <3> QED
      BY <1>1, <1>2, <3>1 DEF TypeOK, files, history, Phases
  <2>7. /\ last < lo /\ lo <= posted[r] /\ lo > posted[r] - Limit
    BY <1>3, <1>4, <2>2
  <2>8. ASSUME last # -1, lo > last + 1 PROVE lo <= posted[r] - Limit + 1
    <3>1. lo - 1 \in 1 .. posted[r] /\ lo - 1 > last /\ ~(lo <= lo - 1)
      BY <1>3, <2>4, <2>7, <2>8
    <3>2. ~(lo - 1 > posted[r] - Limit)
      BY <1>4, <2>2, <3>1
    <3> QED
      BY <1>3, <2>4, <3>2
  <2>9. \A s \in Covered(saved[r].gaps) : s < lo
    <3>1. \A s \in Covered(saved[r].gaps) : s \in Nat /\ s <= posted[r] - Limit
      BY DEF IInv, SavedIsOld
    <3> QED
      BY <1>3, <2>4, <2>7, <3>1
  <2>10. page'.first = lo /\ page'.messages = m
    BY <2>3
  <2>11. Answered'
    BY <1>1, <1>6, <2>4, <2>5, <2>7, <2>8, <2>9, <2>10 DEF Answered, files
  <2>12. PageFits'
    BY <2>4, <2>10, <2>11 DEF PageFits, NoSeq
  <2> QED
    BY <1>1, <1>5, <2>6, <2>12, QuietStep DEF Saving, history
<1> QED
  BY <1>7, <1>8
(* Lines were written, all of the new messages or some. *)
LEMMA OutputStep ==
    ASSUME IInv, phase = "page", NEW n \in 0 .. Len(New), NEW new, new = SubSeq(New, 1, n),
           NEW end \in Tails, Output(room, new, end),
           end = "unended" => Readable(room, new) # <<>>,
           saved' = saved, posted' = posted
    PROVE  /\ lines' \in [RoomSet -> Seq(Nat)] /\ tail' \in [RoomSet -> Tails]
           /\ lines'[room] = Out(room, new)
           /\ \A r \in RoomSet : r # room => lines'[r] = lines[r]
           /\ Unreadable(room, new) \subseteq Nat
           /\ TailsHaveLines' /\ LogIncreasing' /\ SavedIsOld' /\ GapsAreTrue'
<1>1. /\ TypeOK /\ TailsHaveLines /\ LogIncreasing /\ PageFits /\ GapsAreTrue /\ SavedIsOld
      /\ room \in RoomSet
  BY RoomInHand DEF IInv
<1>2. new \in Seq(Nat) /\ Increasing(new) /\ \A s \in ToSet(new) : s > LastSeq(room)
  BY <1>1, PartOfNew
<1>3. /\ Out(room, new) \in Seq(Nat) /\ Increasing(Out(room, new))
      /\ Unreadable(room, new) \subseteq Nat
      /\ Readable(room, new) # <<>> => Out(room, new) # <<>>
  BY <1>1, <1>2, OutputFacts
<1>4. /\ lines' = [lines EXCEPT ![room] = Out(room, new)]
      /\ tail' = [tail EXCEPT ![room] = end]
  BY DEF Output, Out
<1> HIDE DEF room, Out
<1>5. lines \in [RoomSet -> Seq(Nat)] /\ tail \in [RoomSet -> Tails]
  BY <1>1 DEF TypeOK
<1>6. /\ lines' \in [RoomSet -> Seq(Nat)] /\ tail' \in [RoomSet -> Tails]
      /\ lines'[room] = Out(room, new) /\ tail'[room] = end
      /\ \A r \in RoomSet : r # room => lines'[r] = lines[r] /\ tail'[r] = tail[r]
  BY <1>1, <1>3, <1>4, <1>5
<1>7. TailsHaveLines'
  BY <1>1, <1>3, <1>6 DEF TailsHaveLines
<1>8. LogIncreasing'
  <2> SUFFICES ASSUME NEW r \in RoomSet
               PROVE  \A i, j \in 1 .. Len(lines'[r]) : i < j => lines'[r][i] < lines'[r][j]
    BY DEF LogIncreasing
  <2>1. CASE r = room
    BY <1>3, <1>6, <2>1 DEF Increasing
  <2>2. CASE r # room
    BY <1>1, <1>6, <2>2 DEF LogIncreasing
  <2> QED
    BY <2>1, <2>2
<1>9. SavedIsOld'
  BY <1>1 DEF SavedIsOld
<1>10. GapsAreTrue'
  <2> SUFFICES ASSUME NEW r \in RoomSet, NEW s \in Covered(saved[r].gaps), s \in ToSet(lines'[r])
               PROVE  FALSE
    BY DEF GapsAreTrue
  <2>1. CASE r = room
    BY <1>6, <2>1, GapsMissOutput
  <2>2. CASE r # room
    BY <1>1, <1>6, <2>2 DEF GapsAreTrue
  <2> QED
    BY <2>1, <2>2
<1> QED
  BY <1>3, <1>6, <1>7, <1>8, <1>9, <1>10

LEMMA AllOfNew ==
    ASSUME TypeOK, PageFits, phase = "page"
    PROVE  Len(New) \in 0 .. Len(New) /\ New = SubSeq(New, 1, Len(New))
<1>1. New \in Seq(Nat) /\ Len(New) \in Nat
  BY NewFacts
<1>2. SubSeq(New, 1, Len(New)) = New
  BY <1>1, SubSeqFull
<1> QED
  BY <1>1, <1>2

(* What the record that append() is about to save says is missing was missed. *)
LEMMA GapIsOld ==
    ASSUME IInv, phase = "page", NEW s \in Covered(saved[room].gaps \cup Gap)
    PROVE  /\ s \in Nat /\ s <= posted[room] - Limit
           /\ s \in Covered(saved[room].gaps) \/ s > saved[room].last
<1>1. TypeOK /\ PageFits /\ SavedIsOld /\ room \in RoomSet
  BY RoomInHand DEF IInv
<1>2. CASE s \in Covered(saved[room].gaps)
  BY <1>1, <1>2 DEF SavedIsOld
<1>3. CASE s \in Covered(Gap)
  <2>1. /\ page.first # NoSeq /\ LastSeq(room) # -1 /\ page.first > LastSeq(room) + 1
        /\ s \in LastSeq(room) + 1 .. page.first - 1 /\ s \in Nat
    BY <1>1, <1>3, GapFacts
  <2>2. page.first <= posted[room] - Limit + 1
    BY <1>1, <2>1 DEF PageFits, Answered
  <2>3. LastSeq(room) \in Int /\ LastSeq(room) >= saved[room].last /\ saved[room].last \in Int
    BY <1>1, LastSeqFacts, SavedIsRecord
  <2>4. posted[room] \in Nat /\ page.first \in Nat /\ Limit \in Nat
    BY <1>1 DEF TypeOK
  <2>5. s <= posted[room] - Limit
    BY <2>1, <2>2, <2>3, <2>4
  <2>6. s > saved[room].last
    BY <2>1, <2>3
  <2> QED
    BY <2>1, <2>5, <2>6
<1> QED
  BY <1>2, <1>3, CoveredUnion
LEMMA WriteStep ==
    ASSUME IInv, Write
    PROVE  IInv'
<1>1. /\ phase = "page" /\ phase' = "written"
      /\ pending' = [last |-> Cursor, messages |-> saved[room].messages + Len(New),
                     gaps |-> saved[room].gaps \cup Gap]
      /\ posted' = posted /\ saved' = saved /\ pos' = pos /\ attempt' = attempt
      /\ page' = page /\ polled' = polled /\ kills' = kills
  BY DEF Write
<1>2. /\ TypeOK /\ TailsHaveLines /\ LogIncreasing /\ PageFits /\ GapsAreTrue /\ SavedIsOld
      /\ Accounted /\ room \in RoomSet /\ room' = room
  BY <1>1, RoomInHand DEF IInv, room
<1>3. pending' \in Record /\ pending'.last = Cursor /\ pending'.gaps = saved[room].gaps \cup Gap
  <2>1. Cursor \in Int /\ Len(New) \in Nat /\ Gap \subseteq Int \X Int
    BY <1>1, <1>2, CursorFacts, NewFacts, GapFacts
  <2>2. saved[room].messages \in Nat /\ saved[room].gaps \subseteq Int \X Int
    BY <1>2, SavedIsRecord
  <2>3. saved[room].messages + Len(New) \in Nat /\ saved[room].gaps \cup Gap \in SUBSET (Int \X Int)
    BY <2>1, <2>2
  <2> QED
    BY <1>1, <2>1, <2>3 DEF Record
<1>4. /\ Cursor \in Int /\ Cursor >= LastSeq(room)
      /\ Cursor = LastSeq(room) \/ Cursor \in ToSet(New)
  BY <1>1, <1>2, CursorFacts
<1>5. /\ LastSeq(room) \in Int /\ LastSeq(room) >= -1 /\ LastSeq(room) >= saved[room].last
      /\ \A y \in ToSet(lines[room]) : y \in Nat /\ y <= LastSeq(room)
      /\ LastSeq(room) = saved[room].last \/ LastSeq(room) = -1 \/ LastSeq(room) \in ToSet(lines[room])
      /\ saved[room].last \in Int
  BY <1>2, LastSeqFacts, SavedIsRecord
<1>6. \A r \in RoomSet : Saving(r)' <=> r = room
  BY <1>1, <1>2 DEF Saving
<1>7. ASSUME NEW r \in RoomSet, r # room, lines'[r] = lines[r], excused'[r] = excused[r],
             NEW s \in Nat, Passed(r, s)'
      PROVE  Known(r, s)'
  <2>1. Passed(r, s) /\ ~Saving(r)
    BY <1>1, <1>6, <1>7 DEF Passed, Saving
  <2>2. Known(r, s)
    BY <1>2, <2>1 DEF Accounted
  <2> QED
    BY <1>1, <1>7, <2>1, <2>2 DEF Known
<1>8. CASE New = <<>>
  <2>1. lines' = lines /\ tail' = tail /\ excused' = excused
    BY <1>8 DEF Write
  <2>2. TypeOK'
    BY <1>1, <1>2, <1>3, <2>1 DEF TypeOK, Phases
  <2>3. TailsHaveLines' /\ LogIncreasing' /\ SavedIsOld' /\ GapsAreTrue' /\ PageFits'
    BY <1>1, <1>2, <2>1 DEF TailsHaveLines, LogIncreasing, SavedIsOld, GapsAreTrue, PageFits
  <2>4. PendingFits'
    <3>1. ASSUME NEW s \in Covered(saved[room].gaps \cup Gap)
          PROVE  s \notin ToSet(lines[room])
      <4>1. CASE s \in Covered(saved[room].gaps)
        BY <1>2, <4>1 DEF GapsAreTrue
      <4>2. CASE s \in Covered(Gap)
        <5>1. s \in LastSeq(room) + 1 .. page.first - 1
          BY <1>2, <4>2, GapFacts
        <5> QED
          BY <1>5, <5>1
      <4> QED
        BY <3>1, <4>1, <4>2, CoveredUnion
    <3>2. pending'.last >= -1 /\ saved[room].gaps \subseteq pending'.gaps
      BY <1>3, <1>4, <1>5
    <3> QED
      BY <1>1, <1>2, <1>3, <2>1, <3>1, <3>2, GapIsOld DEF PendingFits
  <2>5. Accounted'
    <3> SUFFICES ASSUME NEW r \in RoomSet, NEW s \in Nat, Passed(r, s)' PROVE Known(r, s)'
      BY DEF Accounted
    <3>1. CASE r # room
      BY <1>7, <2>1, <3>1
    <3>2. CASE r = room
      <4>1. ToSet(New) = {}
        BY <1>8 DEF ToSet
      <4>2. /\ \E x \in ToSet(lines[room]) : x <= s
            /\ s <= saved[room].last \/ (\E y \in ToSet(lines[room]) : s <= y) \/ s <= LastSeq(room)
        BY <1>1, <1>3, <1>4, <2>1, <3>2, <4>1 DEF Passed
      <4>3. s <= saved[room].last \/ \E y \in ToSet(lines[room]) : s <= y
        BY <1>5, <4>2
      <4>4. Known(room, s)
        BY <1>2, <4>2, <4>3 DEF Accounted, Passed
      <4> QED
        BY <1>1, <2>1, <3>2, <4>4 DEF Known, Saving
    <3> QED
      BY <3>1, <3>2
  <2> QED
    BY <2>2, <2>3, <2>4, <2>5 DEF IInv
<1>9. CASE New # <<>>
  <2> DEFINE n == Len(New)
  <2>1. Output(room, New, "ended") /\ excused' = [excused EXCEPT ![room] = @ \cup Unreadable(room, New)]
    BY <1>9 DEF Write
  <2>2. n \in 0 .. Len(New) /\ New = SubSeq(New, 1, n)
    BY <1>1, <1>2, AllOfNew
  <2> HIDE DEF n
  <2>3. "ended" \in Tails /\ "ended" # "unended"
    BY DEF Tails
  <2>4. /\ lines' \in [RoomSet -> Seq(Nat)] /\ tail' \in [RoomSet -> Tails]
        /\ lines'[room] = Out(room, New)
        /\ \A r \in RoomSet : r # room => lines'[r] = lines[r]
        /\ Unreadable(room, New) \subseteq Nat
        /\ TailsHaveLines' /\ LogIncreasing' /\ SavedIsOld' /\ GapsAreTrue'
    BY <1>1, <2>1, <2>2, <2>3, OutputStep
  <2>5. excused \in [RoomSet -> SUBSET Nat]
    BY <1>2 DEF TypeOK
  <2>6. /\ excused' \in [RoomSet -> SUBSET Nat]
        /\ excused'[room] = excused[room] \cup Unreadable(room, New)
        /\ \A r \in RoomSet : r # room => excused'[r] = excused[r]
    BY <1>2, <2>1, <2>4, <2>5
  <2>7. TypeOK'
    BY <1>1, <1>2, <1>3, <2>4, <2>6 DEF TypeOK, Phases
  <2>8. PageFits'
    BY <1>1 DEF PageFits
  <2>9. PendingFits'
    <3>1. ASSUME NEW s \in Covered(saved[room].gaps \cup Gap)
          PROVE  s \notin ToSet(Out(room, New))
      BY <1>1, <2>2, <3>1, CoveredUnion, GapsMissOutput
    <3>2. pending'.last >= -1 /\ saved[room].gaps \subseteq pending'.gaps
      BY <1>3, <1>4, <1>5
    <3> QED
      BY <1>1, <1>2, <1>3, <2>4, <3>1, <3>2, GapIsOld DEF PendingFits
  <2>10. Accounted'
    <3> SUFFICES ASSUME NEW r \in RoomSet, NEW s \in Nat, Passed(r, s)' PROVE Known(r, s)'
      BY DEF Accounted
    <3>1. CASE r # room
      BY <1>7, <2>4, <2>6, <3>1
    <3>2. CASE r = room
      <4>1. PICK x \in ToSet(Out(room, New)) : x <= s
        BY <2>4, <3>2 DEF Passed
      <4>2. \/ s <= LastSeq(room)
            \/ \E y \in ToSet(Out(room, New)) \cup ToSet(New) : s <= y
        BY <1>1, <1>3, <1>4, <1>5, <2>4, <3>2 DEF Passed
      <4>3. \/ s \in ToSet(Out(room, New)) \cup Unreadable(room, New) \cup Malformed[room]
                     \cup excused[room] \cup Covered(saved[room].gaps)
            \/ s \in Covered(Gap)
        BY <1>1, <2>2, <4>1, <4>2, AppendKnown
      <4>4. s \in Covered(Gap) => s \in Covered(pending'.gaps)
        BY <1>3, CoveredUnion
      <4> QED
        BY <1>1, <1>6, <2>4, <2>6, <3>2, <4>3, <4>4 DEF Known
    <3> QED
      BY <3>1, <3>2
  <2> QED
    BY <2>4, <2>7, <2>8, <2>9, <2>10 DEF IInv
<1> QED
  BY <1>8, <1>9

LEMMA ReplaceStep ==
    ASSUME IInv, ReplaceState
    PROVE  IInv'
<1>1. /\ phase = "written" /\ NextRoom
      /\ saved' = [saved EXCEPT ![room] = pending]
      /\ polled' = [polled EXCEPT ![room] = IF @ = -1 THEN Max({pending.last, 0}) ELSE @]
      /\ page' = NoPage /\ pending' = Unseen
      /\ posted' = posted /\ lines' = lines /\ tail' = tail /\ excused' = excused /\ kills' = kills
  BY DEF ReplaceState
<1>2. /\ TypeOK /\ TailsHaveLines /\ LogIncreasing /\ GapsAreTrue /\ SavedIsOld
      /\ Accounted /\ PendingFits /\ room \in RoomSet
  BY RoomInHand DEF IInv
<1>3. /\ pending.last >= -1 /\ saved[room].gaps \subseteq pending.gaps
      /\ \A s \in Covered(pending.gaps) :
            s \in Nat /\ s <= posted[room] - Limit /\ s \notin ToSet(lines[room])
  BY <1>1, <1>2 DEF PendingFits
<1>4. pos' \in 1 .. Len(Rooms) /\ attempt' \in 0 .. Retries /\ phase' \in {"swept", "request"}
  BY <1>1, <1>2, NextRoomFacts
<1>5. saved \in [RoomSet -> Record] /\ pending \in Record /\ polled \in [RoomSet -> Nat \cup {-1}]
  BY <1>2 DEF TypeOK
<1>6. Max({pending.last, 0}) \in Nat
  <2>1. pending.last \in Int
    BY <1>5 DEF Record
  <2>2. \E m \in {pending.last, 0} : \A x \in {pending.last, 0} : m >= x
    BY <2>1
  <2>3. Max({pending.last, 0}) \in {pending.last, 0} /\ Max({pending.last, 0}) >= 0
    BY <2>2 DEF Max
  <2> QED
    BY <2>1, <2>3
<1> HIDE DEF room
<1>7. /\ saved' \in [RoomSet -> Record] /\ saved'[room] = pending
      /\ \A r \in RoomSet : r # room => saved'[r] = saved[r]
  BY <1>1, <1>2, <1>5
<1>8. polled' \in [RoomSet -> Nat \cup {-1}]
  BY <1>1, <1>5, <1>6
<1>9. TypeOK'
  <2>1. Unseen \in Record /\ NoPage \in [first : Nat, messages : Seq(Nat)]
    BY DEF Unseen, Record, NoPage, NoSeq
  <2> QED
    BY <1>1, <1>2, <1>4, <1>7, <1>8, <2>1 DEF TypeOK, Phases
<1>10. TailsHaveLines' /\ LogIncreasing' /\ PageFits' /\ PendingFits'
  BY <1>1, <1>2, <1>4 DEF TailsHaveLines, LogIncreasing, PageFits, PendingFits
<1>11. SavedIsOld'
  BY <1>1, <1>2, <1>3, <1>7 DEF SavedIsOld
<1>12. GapsAreTrue'
  BY <1>1, <1>2, <1>3, <1>7 DEF GapsAreTrue
<1>13. Accounted'
  <2> SUFFICES ASSUME NEW r \in RoomSet, NEW s \in Nat, Passed(r, s)' PROVE Known(r, s)'
    BY DEF Accounted
  <2>1. ~Saving(r)'
    BY <1>4 DEF Saving
  <2>2. CASE r # room
    <3>1. Passed(r, s) /\ ~Saving(r)
      BY <1>1, <1>7, <2>1, <2>2 DEF Passed, Saving
    <3>2. Known(r, s)
      BY <1>2, <3>1 DEF Accounted
    <3> QED
      BY <1>1, <1>7, <2>2, <3>1, <3>2 DEF Known
  <2>3. CASE r = room
    <3>1. Saving(room) /\ Passed(room, s)
      BY <1>1, <1>7, <2>1, <2>3 DEF Passed, Saving
    <3>2. Known(room, s)
      BY <1>2, <3>1 DEF Accounted
    <3>3. Covered(saved[room].gaps) \subseteq Covered(pending.gaps)
      BY <1>3 DEF Covered
    <3> QED
      BY <1>1, <1>7, <2>3, <3>2, <3>3 DEF Known
  <2> QED
    BY <2>2, <2>3
<1> QED
  BY <1>9, <1>10, <1>11, <1>12, <1>13 DEF IInv

LEMMA KillWritingStep ==
    ASSUME IInv, NEW n \in 0 .. Limit, NEW end \in Tails, KillWriting(n, end)
    PROVE  IInv'
<1> DEFINE new == SubSeq(New, 1, n)
           taken == Unreadable(room, new)
                       \cup (IF Readable(room, new) # <<>> THEN Covered(Gap) ELSE {})
<1>1. /\ phase = "page" /\ New # <<>> /\ n \in 0 .. Len(New)
      /\ end = "unended" => n >= 1 /\ (Joined(room) => n >= 2)
      /\ Output(room, new, end)
      /\ excused' = [excused EXCEPT ![room] = @ \cup taken]
      /\ kills < MaxKills /\ kills' = kills + 1
      /\ phase' = "off" /\ pos' = 1 /\ attempt' = 0
      /\ page' = NoPage /\ pending' = Unseen
      /\ posted' = posted /\ saved' = saved /\ polled' = polled
  BY Zenon DEF KillWriting, Die
<1>2. /\ TypeOK /\ TailsHaveLines /\ LogIncreasing /\ PageFits /\ Accounted
      /\ room \in RoomSet
  BY RoomInHand DEF IInv
<1>3. /\ new \in Seq(Nat) /\ Increasing(new) /\ Len(new) = n
      /\ \A s \in ToSet(new) : s \in Nat /\ s > LastSeq(room)
  BY <1>1, <1>2, PartOfNew
<1> HIDE DEF new
<1>5. ASSUME end = "unended" PROVE Readable(room, new) # <<>>
  <2>1. new # <<>>
    BY <1>1, <1>3, <1>5
  <2>2. CASE Joined(room)
    <3>1. Tail(new) \in Seq(Nat) /\ Len(Tail(new)) = n - 1
      BY <1>3, <2>1, HeadTailProperties
    <3>2. n - 1 # 0
      BY <1>1, <1>5, <2>2
    <3>3. Tail(new) # <<>>
      BY <3>1, <3>2
    <3> QED
      BY <2>1, <2>2, <3>3 DEF Readable
  <2>3. CASE ~Joined(room)
    BY <2>1, <2>3 DEF Readable
  <2> QED
    BY <2>2, <2>3
<1>6. new = SubSeq(New, 1, n)
  BY DEF new
<1>7. /\ lines' \in [RoomSet -> Seq(Nat)] /\ tail' \in [RoomSet -> Tails]
      /\ lines'[room] = Out(room, new)
      /\ \A r \in RoomSet : r # room => lines'[r] = lines[r]
      /\ Unreadable(room, new) \subseteq Nat
      /\ TailsHaveLines' /\ LogIncreasing' /\ SavedIsOld' /\ GapsAreTrue'
  BY <1>1, <1>5, <1>6, OutputStep
<1>8. taken \subseteq Nat
  BY <1>2, <1>7, GapFacts
<1> HIDE DEF taken
<1>9. /\ excused' \in [RoomSet -> SUBSET Nat]
      /\ excused'[room] = excused[room] \cup taken
      /\ \A r \in RoomSet : r # room => excused'[r] = excused[r]
  <2>1. excused \in [RoomSet -> SUBSET Nat]
    BY <1>2 DEF TypeOK
  <2> HIDE DEF room
  <2> QED
    BY <1>1, <1>2, <1>8, <2>1
<1>10. TypeOK'
  <2>1. Unseen \in Record /\ NoPage \in [first : Nat, messages : Seq(Nat)]
    BY DEF Unseen, Record, NoPage, NoSeq
  <2>2. 1 \in 1 .. Len(Rooms) /\ 0 \in 0 .. Retries /\ kills' \in 0 .. MaxKills
    BY <1>1, <1>2, RoomsAreRooms DEF TypeOK
  <2> QED
    BY <1>1, <1>2, <1>7, <1>9, <2>1, <2>2 DEF TypeOK, Phases
<1>11. PageFits' /\ PendingFits'
  BY <1>1 DEF PageFits, PendingFits
<1>12. Accounted'
  <2> SUFFICES ASSUME NEW r \in RoomSet, NEW s \in Nat, Passed(r, s)' PROVE Known(r, s)'
    BY DEF Accounted
  <2>1. ~Saving(r)'
    BY <1>1 DEF Saving
  <2>2. CASE r # room
    <3>1. Passed(r, s) /\ ~Saving(r)
      BY <1>1, <1>7, <2>1, <2>2 DEF Passed, Saving
    <3>2. Known(r, s)
      BY <1>2, <3>1 DEF Accounted
    <3> QED
      BY <1>1, <1>7, <1>9, <2>2, <3>1, <3>2 DEF Known
  <2>3. CASE r = room
    <3>1. PICK x \in ToSet(Out(room, new)) : x <= s
      BY <1>7, <2>3 DEF Passed
    <3>2. s <= saved[room].last \/ \E y \in ToSet(Out(room, new)) : s <= y
      BY <1>1, <1>7, <2>1, <2>3 DEF Passed
    <3>3. /\ LastSeq(room) \in Int /\ LastSeq(room) >= saved[room].last /\ saved[room].last \in Int
          /\ \A y \in ToSet(lines[room]) : y \in Nat /\ y <= LastSeq(room)
      BY <1>2, LastSeqFacts, SavedIsRecord
    <3>4. \/ s \in ToSet(Out(room, new)) \cup Unreadable(room, new) \cup Malformed[room]
                   \cup excused[room] \cup Covered(saved[room].gaps)
          \/ s \in Covered(Gap) /\ s > LastSeq(room)
      <4>1. s <= LastSeq(room) \/ \E y \in ToSet(Out(room, new)) \cup ToSet(new) : s <= y
        BY <3>2, <3>3
      <4> QED
        BY <1>1, <1>6, <3>1, <4>1, AppendKnown
    <3>5. ASSUME s > LastSeq(room) PROVE Readable(room, new) # <<>>
      <4>1. PICK y \in ToSet(Out(room, new)) : s <= y
        BY <3>2, <3>3, <3>5
      <4>2. y \notin ToSet(lines[room])
        BY <3>3, <3>5, <4>1
      <4> QED
        BY <1>2, <1>3, <4>2, OutputFacts
    <3> QED
      BY <1>1, <1>7, <1>9, <2>3, <3>4, <3>5 DEF Known, taken
  <2> QED
    BY <2>2, <2>3
<1> QED
  BY <1>7, <1>10, <1>11, <1>12 DEF IInv

LEMMA KillWrittenStep ==
    ASSUME IInv, KillWritten
    PROVE  IInv'
<1> DEFINE taken == IF LastSeq(room) = saved[room].last THEN {}
                    ELSE Covered(pending.gaps \ saved[room].gaps)
<1>1. /\ phase = "written"
      /\ excused' = [excused EXCEPT ![room] = @ \cup taken]
      /\ kills < MaxKills /\ kills' = kills + 1
      /\ phase' = "off" /\ pos' = 1 /\ attempt' = 0
      /\ page' = NoPage /\ pending' = Unseen
      /\ posted' = posted /\ saved' = saved /\ polled' = polled
      /\ lines' = lines /\ tail' = tail
  BY DEF KillWritten, Die
<1>2. /\ TypeOK /\ TailsHaveLines /\ LogIncreasing /\ SavedIsOld /\ GapsAreTrue
      /\ Accounted /\ PendingFits /\ room \in RoomSet
  BY RoomInHand DEF IInv
<1>3. \A s \in Covered(pending.gaps) :
         s \in Nat /\ (s \in Covered(saved[room].gaps) \/ s > saved[room].last)
  BY <1>1, <1>2 DEF PendingFits
<1>4. Covered(pending.gaps) \subseteq
         Covered(saved[room].gaps) \cup Covered(pending.gaps \ saved[room].gaps)
  BY DEF Covered
<1>5. taken \subseteq Nat
  <2>1. Covered(pending.gaps \ saved[room].gaps) \subseteq Covered(pending.gaps)
    BY DEF Covered
  <2> QED
    BY <1>3, <2>1
<1> HIDE DEF taken
<1>6. /\ excused' \in [RoomSet -> SUBSET Nat]
      /\ excused'[room] = excused[room] \cup taken
      /\ \A r \in RoomSet : r # room => excused'[r] = excused[r]
  <2>1. excused \in [RoomSet -> SUBSET Nat]
    BY <1>2 DEF TypeOK
  <2> HIDE DEF room
  <2> QED
    BY <1>1, <1>2, <1>5, <2>1
<1>7. TypeOK'
  <2>1. Unseen \in Record /\ NoPage \in [first : Nat, messages : Seq(Nat)]
    BY DEF Unseen, Record, NoPage, NoSeq
  <2>2. 1 \in 1 .. Len(Rooms) /\ 0 \in 0 .. Retries /\ kills' \in 0 .. MaxKills
    BY <1>1, <1>2, RoomsAreRooms DEF TypeOK
  <2> QED
    BY <1>1, <1>2, <1>6, <2>1, <2>2 DEF TypeOK, Phases
<1>8. TailsHaveLines' /\ LogIncreasing' /\ SavedIsOld' /\ GapsAreTrue' /\ PageFits' /\ PendingFits'
  BY <1>1, <1>2 DEF TailsHaveLines, LogIncreasing, SavedIsOld, GapsAreTrue, PageFits, PendingFits
<1>9. Accounted'
  <2> SUFFICES ASSUME NEW r \in RoomSet, NEW s \in Nat, Passed(r, s)' PROVE Known(r, s)'
    BY DEF Accounted
  <2>1. ~Saving(r)'
    BY <1>1 DEF Saving
  <2>2. /\ Passed(r, s)
        /\ s <= saved[r].last \/ \E y \in ToSet(lines[r]) : s <= y
    BY <1>1, <2>1 DEF Passed
  <2>3. Known(r, s)
    BY <1>2, <2>2 DEF Accounted
  <2>4. CASE s \in ToSet(lines[r]) \cup Malformed[r] \cup excused[r] \cup Covered(saved[r].gaps)
    BY <1>1, <1>6, <2>4 DEF Known
  <2>5. CASE Saving(r) /\ s \in Covered(pending.gaps)
    <3>1. r = room
      BY <2>5 DEF Saving
    <3>2. CASE LastSeq(room) = saved[room].last
      <4>1. \A y \in ToSet(lines[room]) : y \in Nat /\ y <= saved[room].last
        BY <1>2, <3>2, LastSeqFacts
      <4>2. saved[room].last \in Int
        BY <1>2, SavedIsRecord
      <4>3. s <= saved[room].last
        BY <2>2, <3>1, <4>1, <4>2
      <4>4. s \in Covered(saved[room].gaps)
        BY <1>3, <2>5, <4>2, <4>3
      <4> QED
        BY <1>1, <3>1, <4>4 DEF Known
    <3>3. CASE LastSeq(room) # saved[room].last
      BY <1>1, <1>4, <1>6, <2>5, <3>1, <3>3 DEF Known, taken
    <3> QED
      BY <3>2, <3>3
  <2> QED
    BY <2>3, <2>4, <2>5 DEF Known
<1> QED
  BY <1>7, <1>8, <1>9 DEF IInv

LEMMA NextIInv == IInv /\ [Next]_vars => IInv'
<1> SUFFICES ASSUME IInv, [Next]_vars PROVE IInv'
  OBVIOUS
<1>1. ASSUME NEW r \in RoomSet, Post(r) PROVE IInv'
  BY <1>1, PostStep
<1>2. CASE BeginSweep \/ Stop \/ KillBetween
  BY <1>2, ControlStep
<1>3. CASE Work
  <2>1. ASSUME NEW r \in RoomSet, Answer(r) PROVE IInv'
    BY <2>1, AnswerStep
  <2> QED
    BY <1>3, <2>1, ControlStep, WriteStep, ReplaceStep DEF Work
<1>4. ASSUME NEW n \in 0 .. Limit, NEW end \in Tails, KillWriting(n, end) PROVE IInv'
  BY <1>4, KillWritingStep
<1>5. CASE KillWritten
  BY <1>5, KillWrittenStep
<1>6. CASE UNCHANGED vars
  <2>1. /\ lines' = lines /\ tail' = tail /\ saved' = saved /\ posted' = posted
        /\ phase' = phase /\ pos' = pos /\ attempt' = attempt /\ page' = page
        /\ pending' = pending /\ polled' = polled /\ excused' = excused /\ kills' = kills
    BY <1>6 DEF vars
  <2>2. TypeOK' /\ TailsHaveLines' /\ LogIncreasing' /\ SavedIsOld' /\ GapsAreTrue'
    BY <2>1 DEF IInv, TypeOK, TailsHaveLines, LogIncreasing, SavedIsOld, GapsAreTrue
  <2>3. Accounted'
    BY <2>1 DEF IInv, Accounted, Passed, Known, Saving, room
  <2>4. PageFits'
    BY <2>1 DEF IInv, PageFits, Answered, LastSeq, PhysicalLastSeq, room
  <2>5. PendingFits'
    BY <2>1 DEF IInv, PendingFits, room
  <2> QED
    BY <2>2, <2>3, <2>4, <2>5 DEF IInv
<1> QED
  BY <1>1, <1>2, <1>3, <1>4, <1>5, <1>6 DEF Next

(* What lies between two lines of a log is accounted for. *)
LEMMA LossOnRecord == IInv => GapsAreExact
<1> SUFFICES ASSUME IInv PROVE GapsAreExact
  OBVIOUS
<1>1. TypeOK /\ GapsAreTrue /\ Accounted
  BY DEF IInv
<1>2. LossIsVisible
  <2> SUFFICES ASSUME NEW r \in RoomSet, NEW i \in 1 .. Len(lines[r]), NEW j \in 1 .. Len(lines[r]),
                      NEW s \in lines[r][i] .. lines[r][j]
               PROVE  \/ s \in ToSet(lines[r]) \cup Malformed[r] \cup excused[r]
                      \/ s \in Covered(saved[r].gaps)
                      \/ phase = "written" /\ room = r /\ s \in Covered(pending.gaps)
    BY DEF LossIsVisible
  <2>1. lines[r][i] \in ToSet(lines[r]) /\ lines[r][j] \in ToSet(lines[r])
    BY <1>1, LinesAreNumbers DEF ToSet
  <2>2. lines[r][i] \in Nat /\ lines[r][j] \in Nat
    BY <1>1, <2>1, LinesAreNumbers
  <2>3. s \in Nat /\ lines[r][i] <= s /\ s <= lines[r][j]
    BY <2>2
  <2>4. Passed(r, s)
    BY <2>1, <2>3 DEF Passed
  <2>5. Known(r, s)
    BY <1>1, <2>3, <2>4 DEF Accounted
  <2> QED
    BY <2>5 DEF Known, Saving
<1> QED
  BY <1>1, <1>2 DEF GapsAreExact

-----------------------------------------------------------------------------
(* The log, its state file and the poller stay in agreement: IInv holds in
   every state of every behaviour of the poller and its kills. *)
THEOREM Invariance == Spec => []IInv
<1>1. Init => IInv
  BY InitIInv
<1>2. IInv /\ [Next]_vars => IInv'
  BY NextIInv
<1> QED
  BY <1>1, <1>2, PTL DEF Spec

(* The variables of the message log keep their types. *)
THEOREM WellTyped == Spec => []TypeOK
<1>1. IInv => TypeOK
  BY DEF IInv
<1> QED
  BY <1>1, Invariance, PTL

(* "this can never duplicate a message physically": the readable lines of a
   room are in strictly ascending order, whatever the kills left behind. *)
THEOREM LogStaysIncreasing == Spec => []LogIncreasing
<1>1. IInv => LogIncreasing
  BY DEF IInv
<1> QED
  BY <1>1, Invariance, PTL

(* The gaps of message-log-state.json say exactly what a log misses between
   its lines, up to what a kill took. *)
THEOREM GapsStayExact == Spec => []GapsAreExact
BY LossOnRecord, Invariance, PTL
=============================================================================
