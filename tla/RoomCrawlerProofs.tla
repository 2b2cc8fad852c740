------------------------- MODULE RoomCrawlerProofs --------------------------
(***************************************************************************)
(* Theorems about RoomCrawler for any rooms, creation log, mentions,       *)
(* windows, max_new, caps and number of faults.                            *)
(*                                                                         *)
(* What the files promise after a crash rests on what memory holds before  *)
(* it: rooms.jsonl is written from memory, so the inductive invariant says *)
(* of the memory, in every phase, what RefsFollowed and EventsFollowed say *)
(* of the files, and which phases may still hold unregistered rooms.       *)
(***************************************************************************)
EXTENDS RoomCrawler, TLAPS

(* Rooms mentioned up to the last_seq in memory are in memory or in hand, those
   that an answer did not hold excepted. *)
RefsKnown ==
    \A r \in DOMAIN known :
        Mentioned(r, (1 .. known[r]) \ unserved[r])
            \subseteq DOMAIN known \cup excused \cup refs

(* Only FollowRefs' phase has rooms in hand: no flush happens meanwhile. *)
RefsInHand == refs # {} => phase = "refs"

(* Every line read is behind the cursor, and its room in memory. *)
EventsKnown ==
    phase # "off" =>
        /\ savedCursor <= cursor
        /\ \A i \in read : i <= cursor /\ Creation[i] \in DOMAIN known \cup excused

(* Rooms are stranded only while rooms.jsonl is behind cursor.json. *)
StrandedWhileBehind ==
    ~behind \/ phase = "off" => Stranded \subseteq excused

(* SweepIsThorough, through the flushes and registrations of a pass. *)
InPass ==
    \/ phase \in {"harvest", "refs"}
    \/ phase \in {"cursor", "rooms"} /\ after = "harvest"
Thorough == InPass /\ mode = "once" => DOMAIN known \subseteq visited \cup pending

IInv ==
    /\ TypeOK
    /\ RefsKnown
    /\ RefsInHand
    /\ RefsFollowed
    /\ EventsKnown
    /\ StrandedWhileBehind
    /\ Thorough
    /\ CapOvershoot

-----------------------------------------------------------------------------
(* The newest line of an answer is the newest line there is. *)
LEMMA NewestLine ==
    ASSUME TypeOK
    PROVE  /\ Max(Lines \cup {cursor}) \in Nat
           /\ Max(Lines \cup {cursor}) >= cursor
           /\ \A i \in Lines : i <= Max(Lines \cup {cursor})
<1> DEFINE S == Lines \cup {cursor}
<1>1. cursor \in Nat /\ created \in Nat /\ EventWindow \in Nat \ {0}
  BY CrawlerAssumption DEF TypeOK
<1>2. S \subseteq Nat /\ cursor \in S
  BY <1>1 DEF Lines
<1>3. PICK m \in S : \A i \in S : m >= i
  <2>1. CASE cursor < created
    BY <1>1, <2>1 DEF Lines
  <2>2. CASE ~(cursor < created)
    BY <1>1, <2>2 DEF Lines
  <2> QED
    BY <2>1, <2>2
<1>4. Max(S) \in S /\ \A i \in S : Max(S) >= i
  BY <1>3 DEF Max
<1> HIDE DEF S
<1>5. Max(S) \in Nat /\ Max(S) >= cursor
  BY <1>1, <1>2, <1>4
<1>6. \A i \in Lines : i \in S /\ i \in Nat /\ i <= Max(S)
  <2> TAKE i \in Lines
  <2>1. i \in S
    BY DEF S
  <2> QED
    BY <2>1, <1>2, <1>4, <1>5
<1> QED
  BY <1>5, <1>6 DEF S

LEMMA AnnouncedAreRooms ==
    ASSUME TypeOK
    PROVE  /\ Lines \subseteq 1 .. Len(Creation)
           /\ Announced(Lines) \subseteq Rooms
<1>1. cursor \in Nat /\ created \in 0 .. Len(Creation) /\ Creation \in Seq(Rooms)
  BY CrawlerAssumption DEF TypeOK
<1>2. Lines \subseteq 1 .. Len(Creation)
  BY <1>1 DEF Lines
<1> QED
  BY <1>1, <1>2 DEF Announced

LEMMA StrandedAreRooms == TypeOK => Stranded \subseteq Rooms
<1>1. \A i \in 1 .. Len(Creation) : Creation[i] \in Rooms
  BY CrawlerAssumption
<1>2. TypeOK => read \subseteq 1 .. Len(Creation)
  BY DEF TypeOK
<1> QED
  BY <1>1, <1>2 DEF Stranded

LEMMA ExistingAreRooms == TypeOK => Existing \subseteq Rooms
<1>1. \A i \in 1 .. Len(Creation) : Creation[i] \in Rooms
  BY CrawlerAssumption
<1>2. TypeOK => 1 .. created \subseteq 1 .. Len(Creation)
  BY DEF TypeOK
<1> QED
  BY <1>1, <1>2 DEF Existing, OldRooms

(* ensure_room adds rooms and leaves the records of known ones alone. *)
LEMMA EnsuredRecords ==
    ASSUME NEW S, S \subseteq Rooms, IsRecords(known)
    PROVE  /\ IsRecords(Ensured(S))
           /\ DOMAIN Ensured(S) = DOMAIN known \cup S
           /\ \A r \in DOMAIN known : Ensured(S)[r] = known[r]
           /\ \A r \in S \ DOMAIN known : Ensured(S)[r] = 0
BY DEF Ensured, IsRecords

LEMMA NothingMentioned ==
    ASSUME NEW r, NEW U
    PROVE  Mentioned(r, (1 .. 0) \ U) = {}
BY DEF Mentioned

LEMMA MentionedInParts ==
    ASSUME NEW r, NEW S, NEW A, NEW B, S \subseteq A \cup B
    PROVE  Mentioned(r, S) \subseteq Mentioned(r, A) \cup Mentioned(r, B)
BY DEF Mentioned

LEMMA MentionedAreRooms ==
    ASSUME TypeOK, NEW r \in Rooms, NEW S, S \subseteq 1 .. posted[r]
    PROVE  Mentioned(r, S) \subseteq Rooms
<1>1. Mentions[r] \in Seq(SUBSET Rooms) /\ posted[r] \in Nat /\ posted[r] <= Len(Mentions[r])
  BY CrawlerAssumption DEF TypeOK
<1>2. \A i \in S : Mentions[r][i] \subseteq Rooms
  BY <1>1
<1> QED
  BY <1>2 DEF Mentioned

(* Up to the last_seq that one harvest leaves, every message was there before,
   was read in this answer, or was too old for it. *)
LEMMA BatchAccounts ==
    ASSUME TypeOK, NEW r \in Rooms, r \in DOMAIN known
    PROVE  /\ Batch(r) \subseteq 1 .. posted[r]
           /\ TooOld(r) \subseteq Nat
           /\ Max(Batch(r) \cup {known[r]}) \in Nat
           /\ \A i \in 1 .. Max(Batch(r) \cup {known[r]}) :
                 i \in 1 .. known[r] \/ i \in Batch(r) \/ i \in TooOld(r)
<1> DEFINE k == known[r]
           n == posted[r]
           w == n - MessageWindow
           S == Batch(r) \cup {k}
<1>1. k \in Nat /\ n \in Nat /\ w \in Int /\ MaxNew \in Nat \ {0}
  BY CrawlerAssumption DEF TypeOK, IsRecords
<1>2. Passed(r) \in {k, w} /\ Passed(r) >= k /\ Passed(r) >= w
  <2>1. \E m \in {k, w} : \A i \in {k, w} : m >= i
    BY <1>1
  <2>2. Max({k, w}) \in {k, w} /\ \A i \in {k, w} : Max({k, w}) >= i
    BY <2>1 DEF Max
  <2> HIDE DEF k, w
  <2>3. Passed(r) = Max({k, w})
    BY DEF Passed, k, w, n
  <2> QED
    BY <2>2, <2>3
<1>3. Passed(r) \in Nat
  BY <1>1, <1>2
<1>4. \A i : i \in Batch(r) <=> i \in Passed(r) + 1 .. n /\ i <= Passed(r) + MaxNew
  BY DEF Batch
<1>5. PICK m \in S : \A i \in S : m >= i
  <2>1. CASE Passed(r) >= n
    <3>1. S = {k}
      BY <1>1, <1>3, <1>4, <2>1
    <3> QED
      BY <1>1, <3>1
  <2>2. CASE Passed(r) < n /\ Passed(r) + MaxNew >= n
    <3>1. n \in S /\ \A i \in S : n >= i
      BY <1>1, <1>2, <1>3, <1>4, <2>2
    <3> QED
      BY <3>1
  <2>3. CASE Passed(r) < n /\ Passed(r) + MaxNew < n
    <3>1. /\ Passed(r) + MaxNew \in S
          /\ \A i \in S : Passed(r) + MaxNew >= i
      BY <1>1, <1>2, <1>3, <1>4, <2>3
    <3> QED
      BY <3>1
  <2> QED
    BY <1>1, <1>3, <2>1, <2>2, <2>3
<1>6. Max(S) \in S /\ \A i \in S : Max(S) >= i
  BY <1>5 DEF Max
<1> HIDE DEF S
<1>7. Batch(r) \subseteq 1 .. n /\ TooOld(r) \subseteq Nat
  BY <1>1, <1>3, <1>4 DEF TooOld
<1>8. Max(S) \in Nat /\ (Max(S) = k \/ Max(S) \in Batch(r))
  BY <1>1, <1>6, <1>7 DEF S
<1>9. ASSUME NEW i \in 1 .. Max(S), i > k, i \notin Batch(r)
      PROVE  i \in TooOld(r)
  <2>1. Max(S) \in Passed(r) + 1 .. n /\ Max(S) <= Passed(r) + MaxNew /\ i <= Max(S) /\ i \in Nat
    BY <1>1, <1>4, <1>8, <1>9
  <2>2. i <= Passed(r)
    BY <1>1, <1>3, <1>4, <1>9, <2>1
  <2>3. i <= w
    BY <1>1, <1>2, <1>9, <2>1, <2>2
  <2> QED
    BY <1>1, <1>9, <2>1, <2>3 DEF TooOld
<1>10. \A i \in 1 .. Max(S) : i \in 1 .. k \/ i \in Batch(r) \/ i \in TooOld(r)
  <2> TAKE i \in 1 .. Max(S)
  <2>1. i \in Nat /\ i >= 1
    OBVIOUS
  <2>2. CASE i > k
    BY <1>9, <2>2
  <2>3. CASE ~(i > k)
    BY <1>1, <2>1, <2>3
  <2> QED
    BY <2>2, <2>3
<1> QED
  BY <1>7, <1>8, <1>10 DEF S

(* ensure_room keeps what RefsKnown says, and settles the rooms it adds. *)
LEMMA EnsuredKeepsRefs ==
    ASSUME NEW S, S \subseteq Rooms, IsRecords(known), RefsKnown
    PROVE  \A r \in DOMAIN Ensured(S) :
             Mentioned(r, (1 .. Ensured(S)[r]) \ unserved[r])
                \subseteq (DOMAIN known \cup S) \cup excused \cup refs
<1> TAKE r \in DOMAIN Ensured(S)
<1>1. CASE r \in DOMAIN known
  BY <1>1, EnsuredRecords DEF RefsKnown
<1>2. CASE r \notin DOMAIN known
  BY <1>2, EnsuredRecords, NothingMentioned
<1> QED
  BY <1>1, <1>2

-----------------------------------------------------------------------------
THEOREM InitIInv == Init => IInv
<1> SUFFICES ASSUME Init PROVE IInv
  OBVIOUS
<1> USE CrawlerAssumption
<1>1. IsRecords(NoRooms) /\ DOMAIN NoRooms = {}
  BY DEF NoRooms, IsRecords
<1>2. TypeOK
  <2>1. Len(Creation) \in Nat /\ \A r \in Rooms : Len(Mentions[r]) \in Nat
    OBVIOUS
  <2>2. created \in 0 .. Len(Creation) /\ posted \in [Rooms -> Nat]
    BY <2>1 DEF Init
  <2>3. \A r \in Rooms : posted[r] <= Len(Mentions[r])
    BY <2>1 DEF Init
  <2>4. IsRecords(known) /\ IsRecords(saved)
    BY <1>1 DEF Init
  <2>5. faults \in 0 .. MaxFaults
    BY DEF Init
  <2> QED
    BY <2>2, <2>3, <2>4, <2>5 DEF Init, TypeOK, Phases
<1>3. RefsKnown /\ RefsFollowed /\ RefsInHand
  BY <1>1 DEF Init, RefsKnown, RefsFollowed, RefsInHand
<1>4. EventsKnown /\ StrandedWhileBehind /\ Thorough
  BY <1>1 DEF Init, EventsKnown, StrandedWhileBehind, Stranded, Thorough, InPass
<1>5. CapOvershoot
  BY DEF Init, CapOvershoot
<1> QED
  BY <1>2, <1>3, <1>4, <1>5 DEF IInv

(* The steps that change what memory knows. *)
LEMMA PollEventsStep == IInv /\ PollEvents => IInv'
<1> SUFFICES ASSUME IInv, PollEvents PROVE IInv'
  OBVIOUS
<1> USE CrawlerAssumption
<1> DEFINE A == Announced(Lines)
<1>1. TypeOK /\ IsRecords(known)
  BY DEF IInv, TypeOK
<1>2. A \subseteq Rooms /\ Lines \subseteq 1 .. Len(Creation)
  BY <1>1, AnnouncedAreRooms
<1>3. known' = Ensured(A) /\ IsRecords(known') /\ DOMAIN known' = DOMAIN known \cup A
  BY <1>1, <1>2, EnsuredRecords DEF PollEvents
<1>4. /\ cursor' \in Nat /\ cursor' >= cursor /\ cursor \in Nat
      /\ \A i \in Lines : i <= cursor'
  <2>1. cursor \in Nat /\ cursor' = Max(Lines \cup {cursor})
    BY <1>1 DEF PollEvents, TypeOK
  <2> QED
    BY <1>1, <2>1, NewestLine
<1>5. count' \in Nat /\ count' < MaxRequests + MaxAttempts
  <2>1. count \in Nat /\ MaxRequests \in Nat /\ MaxAttempts \in Nat
    BY <1>1 DEF TypeOK
  <2>2. count < MaxRequests /\ \E k \in 1 .. MaxAttempts : count' = count + k
    BY <2>1 DEF PollEvents, Answers, Exhausted, Spend
  <2> QED
    BY <2>1, <2>2
<1>6. phase = "events" /\ phase' \in {"listing", "cursor"}
      /\ after' \in {after, "top"} /\ (phase' = "cursor" => after' = "top")
  BY DEF PollEvents, EventsDone, FlushThen
<1>7. UNCHANGED <<created, posted, mode, pending, visited, refs, savedCursor,
                  saved, behind, excused, unserved, faults>>
  BY DEF PollEvents, server, pass, disk
<1>8. read' = read \cup Lines
  BY DEF PollEvents
<1>9. TypeOK'
  BY <1>1, <1>2, <1>3, <1>4, <1>5, <1>6, <1>7, <1>8 DEF TypeOK, Phases, IsRecords
<1>10. RefsKnown'
  <2>1. RefsKnown
    BY DEF IInv
  <2>2. \A r \in DOMAIN Ensured(A) :
           Mentioned(r, (1 .. Ensured(A)[r]) \ unserved[r])
              \subseteq (DOMAIN known \cup A) \cup excused \cup refs
    BY <1>1, <1>2, <2>1, EnsuredKeepsRefs
  <2> QED
    BY <1>3, <1>7, <2>2 DEF RefsKnown
<1>11. RefsInHand' /\ RefsFollowed'
  BY <1>6, <1>7 DEF IInv, RefsInHand, RefsFollowed
<1>12. EventsKnown'
  <2>1. \A i \in Lines : Creation[i] \in A
    BY DEF Announced
  <2>2. /\ savedCursor <= cursor /\ savedCursor \in Nat
        /\ \A i \in read : i <= cursor /\ Creation[i] \in DOMAIN known \cup excused
    BY <1>1, <1>6 DEF IInv, EventsKnown, TypeOK
  <2>3. read \subseteq Nat
    BY <1>1 DEF TypeOK
  <2> QED
    BY <1>3, <1>4, <1>7, <1>8, <2>1, <2>2, <2>3 DEF EventsKnown
<1>13. StrandedWhileBehind'
  <2>1. savedCursor <= cursor /\ savedCursor \in Nat
    BY <1>1, <1>6 DEF IInv, EventsKnown, TypeOK
  <2>2. Lines \cap (1 .. savedCursor) = {}
    BY <1>4, <2>1 DEF Lines
  <2>3. read' \cap (1 .. savedCursor) = read \cap (1 .. savedCursor)
    BY <1>8, <2>2
  <2>4. Stranded' = Stranded
    BY <1>7, <2>3 DEF Stranded
  <2> QED
    BY <1>6, <1>7, <2>4 DEF IInv, StrandedWhileBehind
<1>14. Thorough' /\ CapOvershoot'
  BY <1>5, <1>6 DEF Thorough, InPass, CapOvershoot
<1> QED
  BY <1>9, <1>10, <1>11, <1>12, <1>13, <1>14 DEF IInv

(* The process only moves on: memory and files stay, refs is empty before and
   after, and a harvest pass neither begins nor loses a room. *)
LEMMA MovingOn ==
    ASSUME IInv, refs = {},
           UNCHANGED <<progress, disk, history>>,
           UNCHANGED <<mode, pending, visited, refs>>,
           /\ created' \in 0 .. Len(Creation)
           /\ posted' \in [Rooms -> Nat] /\ \A r \in Rooms : posted'[r] <= Len(Mentions[r]),
           phase' \in Phases, after' \in {"top", "harvest", "exit", "off"},
           phase = "off" <=> phase' = "off",
           InPass' => InPass,
           count' \in Nat, count' < MaxRequests + MaxAttempts
    PROVE  IInv'
<1> USE CrawlerAssumption DEF progress, disk, history
<1>1. TypeOK'
  BY DEF IInv, TypeOK, IsRecords
<1>2. RefsKnown' /\ RefsInHand' /\ RefsFollowed'
  BY DEF IInv, RefsKnown, RefsInHand, RefsFollowed
<1>3. EventsKnown' /\ StrandedWhileBehind'
  BY DEF IInv, EventsKnown, StrandedWhileBehind, Stranded
<1>4. Thorough' /\ CapOvershoot'
  BY DEF IInv, Thorough, CapOvershoot
<1> QED
  BY <1>1, <1>2, <1>3, <1>4 DEF IInv

(* A get() counts at most MaxAttempts requests, and none once the cap is
   reached. *)
LEMMA Counting ==
    ASSUME IInv, Fails \/ Answers
    PROVE  count' \in Nat /\ count' < MaxRequests + MaxAttempts
BY CrawlerAssumption DEF IInv, TypeOK, CapOvershoot, Fails, Answers, Exhausted, Spend

LEMMA ControlSteps ==
    IInv /\ (Leave \/ Proceed \/ EventsUnanswered \/ EndPass \/ Finally) => IInv'
<1> SUFFICES ASSUME IInv, Leave \/ Proceed \/ EventsUnanswered \/ EndPass \/ Finally
             PROVE  IInv'
  OBVIOUS
<1> USE DEF server, memory, progress, pass, disk, history
<1>1. refs = {} /\ TypeOK /\ CapOvershoot /\ count \in Nat
  BY DEF IInv, RefsInHand, TypeOK, Leave, Proceed, EventsUnanswered, EndPass, Finally
<1>2. CASE Leave \/ Proceed
  <2>1. phase = "top" /\ phase' \in {"exit", "events"}
    BY <1>2 DEF Leave, Proceed
  <2>2. UNCHANGED <<created, posted, mode, cursor, known, count, pending, visited,
                    refs, after, savedCursor, saved, behind, read, excused, unserved, faults>>
    BY <1>2 DEF Leave, Proceed
  <2>3. count' \in Nat /\ count' < MaxRequests + MaxAttempts
    BY <1>1, <2>2 DEF CapOvershoot
  <2>4. ~InPass'
    BY <2>1 DEF InPass
  <2> QED
    BY <1>1, <2>1, <2>2, <2>3, <2>4, MovingOn DEF TypeOK, Phases
<1>4. CASE EventsUnanswered
  <2>1. count' \in Nat /\ count' < MaxRequests + MaxAttempts
    BY <1>4, Counting DEF EventsUnanswered
  <2>2. phase' \in {"listing", "cursor"} /\ after' \in {after, "top"}
        /\ (phase' = "cursor" => after' = "top")
    BY <1>4 DEF EventsUnanswered, EventsDone, FlushThen
  <2> QED
    BY <1>1, <1>4, <2>1, <2>2, MovingOn DEF EventsUnanswered, TypeOK, Phases, InPass
<1>5. CASE EndPass
  BY <1>1, <1>5, MovingOn DEF EndPass, FlushThen, TypeOK, Phases, InPass, CapOvershoot
<1>6. CASE Finally
  BY <1>1, <1>6, MovingOn DEF Finally, FlushThen, TypeOK, Phases, InPass, CapOvershoot
<1> QED
  BY <1>2, <1>4, <1>5, <1>6

(* The server's own steps touch nothing the invariant speaks of. *)
LEMMA ServerSteps ==
    IInv /\ (Create \/ \E r \in Rooms : Post(r)) => IInv'
<1> USE CrawlerAssumption DEF progress, pass, disk, history
<1>1. CASE IInv /\ Create
  <2>1. TypeOK'
    <3>1. created' \in 0 .. Len(Creation)
      <4> Len(Creation) \in Nat
        OBVIOUS
      <4> QED
        BY <1>1 DEF IInv, Create, TypeOK
    <3> QED
      BY <1>1, <3>1 DEF IInv, Create, TypeOK, IsRecords
  <2>2. UNCHANGED <<phase, mode, cursor, known, count, pending, visited, refs,
                    after, savedCursor, saved, behind, read, excused, unserved, faults>>
    BY <1>1 DEF Create
  <2>3. RefsKnown' /\ RefsInHand' /\ RefsFollowed' /\ EventsKnown'
    BY <1>1, <2>2 DEF IInv, RefsKnown, RefsInHand, RefsFollowed, EventsKnown
  <2>4. StrandedWhileBehind' /\ Thorough' /\ CapOvershoot'
    BY <1>1, <2>2 DEF IInv, StrandedWhileBehind, Stranded, Thorough, InPass, CapOvershoot
  <2> QED
    BY <2>1, <2>3, <2>4 DEF IInv
<1>2. CASE IInv /\ \E r \in Rooms : Post(r)
  <2>1. UNCHANGED <<created, phase, mode, cursor, known, count, pending, visited,
                    refs, after, savedCursor, saved, behind, read, excused, unserved, faults>>
    BY <1>2 DEF Post
  <2>2. posted' \in [Rooms -> Nat] /\ \A q \in Rooms : posted'[q] <= Len(Mentions[q])
    <3>1. PICK r \in Rooms : posted[r] < Len(Mentions[r]) /\ posted' = [posted EXCEPT ![r] = @ + 1]
      BY <1>2 DEF Post
    <3>2. Len(Mentions[r]) \in Nat
      OBVIOUS
    <3>3. posted \in [Rooms -> Nat] /\ \A q \in Rooms : posted[q] <= Len(Mentions[q])
      BY <1>2 DEF IInv, TypeOK
    <3> QED
      BY <3>1, <3>2, <3>3
  <2>3. TypeOK'
    BY <1>2, <2>1, <2>2 DEF IInv, TypeOK, IsRecords
  <2>4. RefsKnown' /\ RefsInHand' /\ RefsFollowed' /\ EventsKnown'
    BY <1>2, <2>1 DEF IInv, RefsKnown, RefsInHand, RefsFollowed, EventsKnown
  <2>5. StrandedWhileBehind' /\ Thorough' /\ CapOvershoot'
    BY <1>2, <2>1 DEF IInv, StrandedWhileBehind, Stranded, Thorough, InPass, CapOvershoot
  <2> QED
    BY <2>3, <2>4, <2>5 DEF IInv
<1> QED
  BY <1>1, <1>2

(* State.load: the files' promises become the memory's. *)
LEMMA StartStep ==
    ASSUME NEW m \in {"once", "follow"}, IInv, Start(m)
    PROVE  IInv'
<1> USE CrawlerAssumption
<1>1. TypeOK /\ RefsFollowed /\ Stranded \subseteq excused
  BY DEF IInv, StrandedWhileBehind, Start
<1>2. /\ phase' = "top" /\ mode' = m /\ count' = 0 /\ cursor' = savedCursor
      /\ known' = saved /\ pending' = {} /\ visited' = {} /\ refs' = {} /\ after' = "top"
      /\ read' = {i \in read : i <= savedCursor}
      /\ UNCHANGED <<created, posted, savedCursor, saved, behind, excused, unserved, faults>>
  BY DEF Start, server, disk
<1>3. TypeOK'
  BY <1>1, <1>2 DEF TypeOK, Phases, IsRecords
<1>4. RefsKnown' /\ RefsInHand' /\ RefsFollowed'
  BY <1>1, <1>2 DEF RefsKnown, RefsInHand, RefsFollowed
<1>5. \A i \in read' : i \in read \cap (1 .. savedCursor)
  <2>1. savedCursor \in Nat /\ \A i \in read : i \in Nat /\ i >= 1
    BY <1>1 DEF TypeOK
  <2> QED
    BY <1>2, <2>1
<1>6. EventsKnown'
  <2>1. savedCursor \in Nat /\ \A i \in 1 .. savedCursor : i <= savedCursor
    BY <1>1 DEF TypeOK
  <2>2. \A i \in read' : Creation[i] \in DOMAIN saved \cup excused
    BY <1>1, <1>5 DEF Stranded
  <2> QED
    BY <1>2, <1>5, <2>1, <2>2 DEF EventsKnown
<1>7. Stranded' \subseteq Stranded
  BY <1>2, <1>5 DEF Stranded
<1>8. StrandedWhileBehind' /\ Thorough' /\ CapOvershoot'
  BY <1>1, <1>2, <1>7 DEF StrandedWhileBehind, Thorough, InPass, CapOvershoot
<1> QED
  BY <1>3, <1>4, <1>6, <1>8 DEF IInv

(* The listing only adds rooms, and begins a pass over all that are known. *)
LEMMA ListingStep ==
    IInv /\ (SweepListing \/ ListingUnanswered) => IInv'
<1> SUFFICES ASSUME IInv, SweepListing \/ ListingUnanswered PROVE IInv'
  OBVIOUS
<1> USE CrawlerAssumption
<1>1. TypeOK /\ IsRecords(known) /\ RefsKnown
  BY DEF IInv, TypeOK
<1>2. Existing \subseteq Rooms
  BY <1>1, ExistingAreRooms
<1>3. /\ IsRecords(known') /\ DOMAIN known \subseteq DOMAIN known'
      /\ \A r \in DOMAIN known' :
            Mentioned(r, (1 .. known'[r]) \ unserved[r])
               \subseteq DOMAIN known' \cup excused \cup refs
  <2>1. CASE SweepListing
    <3>1. PICK S \in SUBSET Existing : known' = Ensured(S)
      BY <2>1 DEF SweepListing
    <3>2. S \subseteq Rooms
      BY <1>2
    <3> QED
      BY <1>1, <3>1, <3>2, EnsuredRecords, EnsuredKeepsRefs
  <2>2. CASE ListingUnanswered
    BY <1>1, <2>2 DEF ListingUnanswered, RefsKnown
  <2> QED
    BY <2>1, <2>2
<1>4. /\ phase = "listing" /\ pending' = DOMAIN known' /\ visited' = {}
      /\ phase' \in {"cursor", "harvest"} /\ after' \in {after, "harvest"}
  BY DEF SweepListing, ListingUnanswered, ListingDone, FlushThen
<1>5. UNCHANGED <<created, posted, mode, cursor, refs, savedCursor, saved, behind,
                  read, excused, unserved, faults>>
  BY DEF SweepListing, ListingUnanswered, server, disk, history
<1>6. count' \in Nat /\ count' < MaxRequests + MaxAttempts
  BY Counting DEF SweepListing, ListingUnanswered
<1>7. TypeOK'
  BY <1>1, <1>3, <1>4, <1>5, <1>6 DEF TypeOK, Phases, IsRecords
<1>8. RefsKnown' /\ RefsInHand' /\ RefsFollowed'
  BY <1>3, <1>4, <1>5 DEF IInv, RefsKnown, RefsInHand, RefsFollowed
<1>9. EventsKnown'
  BY <1>3, <1>4, <1>5 DEF IInv, EventsKnown
<1>10. StrandedWhileBehind' /\ Thorough' /\ CapOvershoot'
  BY <1>4, <1>5, <1>6 DEF IInv, StrandedWhileBehind, Stranded, Thorough, CapOvershoot
<1> QED
  BY <1>7, <1>8, <1>9, <1>10 DEF IInv

(* last_seq moves, and what was mentioned on the way is in hand. *)
LEMMA HarvestStep ==
    ASSUME NEW r \in Rooms, IInv, HarvestRoom(r)
    PROVE  IInv'
<1> USE CrawlerAssumption
<1>1. TypeOK /\ IsRecords(known) /\ RefsKnown /\ Thorough
  BY DEF IInv, TypeOK
<1>2. /\ phase = "harvest" /\ phase' = "refs" /\ r \in pending
      /\ pending' = pending \ {r} /\ visited' = visited \cup {r}
      /\ UNCHANGED <<created, posted, mode, cursor, after, savedCursor, saved, behind,
                     read, excused, faults>>
  BY DEF HarvestRoom, server, disk
<1>3. r \in DOMAIN known /\ known[r] \in Nat /\ posted[r] \in Nat /\ refs = {}
  BY <1>1, <1>2 DEF TypeOK, IsRecords, IInv, RefsInHand
<1>4. count' \in Nat /\ count' < MaxRequests + MaxAttempts
  BY Counting DEF HarvestRoom
<1>5. /\ IsRecords(known') /\ DOMAIN known' = DOMAIN known /\ refs' \subseteq Rooms
      /\ unserved' \in [Rooms -> SUBSET Nat] /\ \A q \in Rooms : unserved[q] \subseteq unserved'[q]
      /\ \A q \in DOMAIN known :
            Mentioned(q, (1 .. known'[q]) \ unserved'[q])
               \subseteq DOMAIN known \cup excused \cup refs'
  <2> DEFINE last == Max(Batch(r) \cup {known[r]})
  <2>1. CASE /\ known' = [known EXCEPT ![r] = last]
             /\ refs' = Mentioned(r, Batch(r)) \ DOMAIN known
             /\ unserved' = [unserved EXCEPT ![r] = @ \cup TooOld(r)]
    <3>1. /\ Batch(r) \subseteq 1 .. posted[r] /\ TooOld(r) \subseteq Nat /\ last \in Nat
          /\ \A i \in 1 .. last : i \in 1 .. known[r] \/ i \in Batch(r) \/ i \in TooOld(r)
      BY <1>1, <1>3, BatchAccounts
    <3> HIDE DEF last
    <3>2. IsRecords(known') /\ DOMAIN known' = DOMAIN known
      BY <1>1, <1>3, <2>1, <3>1 DEF IsRecords
    <3>3. refs' \subseteq Rooms
      BY <1>1, <2>1, <3>1, MentionedAreRooms
    <3>4. unserved \in [Rooms -> SUBSET Nat]
      BY <1>1 DEF TypeOK
    <3>5. unserved' \in [Rooms -> SUBSET Nat] /\ \A q \in Rooms : unserved[q] \subseteq unserved'[q]
      BY <2>1, <3>1, <3>4
    <3>6. \A q \in DOMAIN known \ {r} : known'[q] = known[q] /\ unserved'[q] = unserved[q]
      BY <1>1, <2>1, <3>4 DEF IsRecords
    <3>7. known'[r] = last /\ unserved'[r] = unserved[r] \cup TooOld(r)
      BY <1>3, <2>1, <3>4
    <3>8. (1 .. known'[r]) \ unserved'[r] \subseteq ((1 .. known[r]) \ unserved[r]) \cup Batch(r)
      BY <3>1, <3>7
    <3>9. Mentioned(r, (1 .. known'[r]) \ unserved'[r])
             \subseteq Mentioned(r, (1 .. known[r]) \ unserved[r]) \cup Mentioned(r, Batch(r))
      <4> DEFINE N == (1 .. known'[r]) \ unserved'[r]
                 A == (1 .. known[r]) \ unserved[r]
                 B == Batch(r)
      <4>1. N \subseteq A \cup B
        BY <3>8
      <4> HIDE DEF N, A, B
      <4>2. Mentioned(r, N) \subseteq Mentioned(r, A) \cup Mentioned(r, B)
        BY <4>1, MentionedInParts
      <4> QED
        BY <4>2 DEF N, A, B
    <3> QED
      BY <1>1, <1>3, <2>1, <3>2, <3>3, <3>5, <3>6, <3>9 DEF RefsKnown
  <2>2. CASE refs' = {} /\ UNCHANGED <<known, unserved>>
    BY <1>1, <1>3, <2>2 DEF RefsKnown, TypeOK
  <2> QED
    BY <2>1, <2>2 DEF HarvestRoom
<1>6. TypeOK'
  BY <1>1, <1>2, <1>3, <1>4, <1>5 DEF TypeOK, Phases, IsRecords
<1>7. RefsKnown' /\ RefsInHand' /\ RefsFollowed'
  <2>1. RefsKnown' /\ RefsInHand'
    BY <1>2, <1>5 DEF RefsKnown, RefsInHand
  <2>2. \A q \in DOMAIN saved :
          Mentioned(q, (1 .. saved[q]) \ unserved'[q])
             \subseteq Mentioned(q, (1 .. saved[q]) \ unserved[q])
    <3> TAKE q \in DOMAIN saved
    <3>1. unserved[q] \subseteq unserved'[q]
      BY <1>1, <1>5 DEF TypeOK, IsRecords
    <3> QED
      BY <3>1 DEF Mentioned
  <2> QED
    BY <1>2, <2>1, <2>2 DEF IInv, RefsFollowed
<1>8. EventsKnown'
  BY <1>2, <1>5 DEF IInv, EventsKnown
<1>9. StrandedWhileBehind' /\ Thorough' /\ CapOvershoot'
  BY <1>1, <1>2, <1>4, <1>5 DEF IInv, StrandedWhileBehind, Stranded, Thorough, InPass, CapOvershoot
<1> QED
  BY <1>6, <1>7, <1>8, <1>9 DEF IInv

(* The rooms in hand join the known ones before anything can be written. *)
LEMMA FollowRefsStep == IInv /\ FollowRefs => IInv'
<1> SUFFICES ASSUME IInv, FollowRefs PROVE IInv'
  OBVIOUS
<1> USE CrawlerAssumption
<1>1. TypeOK /\ IsRecords(known) /\ RefsKnown /\ Thorough /\ refs \subseteq Rooms
  BY DEF IInv, TypeOK
<1>2. /\ phase = "refs" /\ known' = Ensured(refs) /\ pending' = pending \cup Queued
      /\ refs' = {}
      /\ UNCHANGED <<created, posted, mode, cursor, count, visited, savedCursor,
                     saved, behind, read, excused, unserved, faults>>
  BY DEF FollowRefs, server, disk, history
<1>3. phase' \in {"cursor", "harvest"} /\ after' \in {after, "harvest"}
  BY DEF FollowRefs, FlushThen
<1>4. /\ IsRecords(known') /\ DOMAIN known' = DOMAIN known \cup refs
      /\ \A r \in DOMAIN known' :
            Mentioned(r, (1 .. known'[r]) \ unserved[r])
               \subseteq DOMAIN known' \cup excused
  BY <1>1, <1>2, EnsuredRecords, EnsuredKeepsRefs
<1>5. Queued \subseteq refs /\ (mode = "once" => refs \subseteq visited \cup Queued)
  BY DEF Queued
<1>6. TypeOK'
  BY <1>1, <1>2, <1>3, <1>4, <1>5 DEF TypeOK, Phases, IsRecords
<1>7. RefsKnown' /\ RefsInHand' /\ RefsFollowed'
  BY <1>2, <1>4 DEF IInv, RefsKnown, RefsInHand, RefsFollowed
<1>8. EventsKnown'
  BY <1>2, <1>3, <1>4 DEF IInv, EventsKnown
<1>9. StrandedWhileBehind' /\ CapOvershoot'
  BY <1>2, <1>3 DEF IInv, StrandedWhileBehind, Stranded, CapOvershoot
<1>10. Thorough'
  BY <1>1, <1>2, <1>4, <1>5 DEF Thorough, InPass
<1> QED
  BY <1>6, <1>7, <1>8, <1>9, <1>10 DEF IInv

(* cursor.json is replaced first: from here on rooms may be stranded. *)
LEMMA WriteCursorStep == IInv /\ WriteCursor => IInv'
<1> SUFFICES ASSUME IInv, WriteCursor PROVE IInv'
  OBVIOUS
<1>1. /\ phase = "cursor" /\ phase' = "rooms" /\ savedCursor' = cursor /\ behind' = TRUE
      /\ UNCHANGED <<created, posted, mode, cursor, known, count, pending, visited, refs,
                     after, saved, read, excused, unserved, faults>>
  BY DEF WriteCursor, server, memory, progress, pass
<1>2. TypeOK'
  BY <1>1 DEF IInv, TypeOK, Phases, IsRecords
<1>3. RefsKnown' /\ RefsInHand' /\ RefsFollowed'
  BY <1>1 DEF IInv, RefsKnown, RefsInHand, RefsFollowed
<1>4. EventsKnown'
  BY <1>1 DEF IInv, EventsKnown, TypeOK
<1>5. StrandedWhileBehind' /\ Thorough' /\ CapOvershoot'
  BY <1>1 DEF IInv, StrandedWhileBehind, Thorough, InPass, CapOvershoot
<1> QED
  BY <1>2, <1>3, <1>4, <1>5 DEF IInv

(* Without a process there is nothing to say of its memory. *)
LEMMA Forgotten ==
    ASSUME Forget
    PROVE  /\ mode' = "once" /\ count' = 0 /\ cursor' = 0 /\ pending' = {} /\ visited' = {}
           /\ refs' = {} /\ after' = "top" /\ IsRecords(known') /\ DOMAIN known' = {}
BY DEF Forget, NoRooms, IsRecords

(* rooms.jsonl catches up with memory, where no room is in hand; or the file
   was busy, and whoever ends now leaves rooms stranded. *)
LEMMA WriteRoomsStep ==
    ASSUME NEW busy \in BOOLEAN, IInv, WriteRooms(busy)
    PROVE  IInv'
<1> USE CrawlerAssumption
<1>1. TypeOK /\ refs = {} /\ RefsKnown /\ RefsFollowed /\ EventsKnown /\ StrandedWhileBehind
  BY DEF IInv, RefsInHand, WriteRooms
<1>2. /\ phase = "rooms" /\ phase' = after
      /\ IF busy THEN UNCHANGED <<saved, behind>> ELSE saved' = known /\ behind' = FALSE
      /\ excused' = IF busy /\ after = "off" THEN excused \cup Stranded ELSE excused
      /\ UNCHANGED <<created, posted, savedCursor, read, unserved, faults>>
  BY DEF WriteRooms, server
<1>3. /\ mode' \in {"once", "follow"} /\ count' \in Nat /\ count' < MaxRequests + MaxAttempts
      /\ cursor' \in Nat /\ IsRecords(known')
      /\ pending' \subseteq DOMAIN known' /\ visited' \subseteq DOMAIN known'
      /\ refs' = {} /\ after' \in {"top", "harvest", "exit", "off"}
      /\ \A r \in DOMAIN known' :
            Mentioned(r, (1 .. known'[r]) \ unserved[r]) \subseteq DOMAIN known' \cup excused
  <2>1. CASE after = "off"
    BY <2>1, Forgotten DEF WriteRooms
  <2>2. CASE after # "off"
    <3>1. UNCHANGED <<mode, cursor, known, count, pending, visited, refs, after>>
      BY <2>2 DEF WriteRooms, memory, progress, pass
    <3> QED
      BY <1>1, <3>1 DEF IInv, TypeOK, CapOvershoot, RefsKnown, IsRecords
  <2> QED
    BY <2>1, <2>2
<1>4. IsRecords(saved') /\ behind' \in BOOLEAN
  BY <1>1, <1>2 DEF TypeOK, IsRecords
<1>5. Stranded \subseteq Rooms /\ excused' \subseteq Rooms /\ excused \subseteq excused'
  <2>1. excused \subseteq Rooms
    BY <1>1 DEF TypeOK
  <2> QED
    BY <1>1, <1>2, <2>1, StrandedAreRooms
<1>6. TypeOK'
  BY <1>1, <1>2, <1>3, <1>4, <1>5 DEF TypeOK, Phases
<1>7. RefsFollowed'
  BY <1>1, <1>2, <1>5 DEF RefsKnown, RefsFollowed
<1>8. RefsKnown' /\ RefsInHand'
  BY <1>2, <1>3, <1>5 DEF RefsKnown, RefsInHand
<1>9. EventsKnown'
  <2>1. CASE after = "off"
    BY <1>2, <2>1 DEF EventsKnown
  <2>2. CASE after # "off"
    <3>1. UNCHANGED <<cursor, known>>
      BY <2>2 DEF WriteRooms, memory, progress
    <3> QED
      BY <1>1, <1>2, <1>5, <3>1 DEF EventsKnown
  <2> QED
    BY <2>1, <2>2
<1>10. StrandedWhileBehind'
  <2>1. CASE busy
    <3>1. Stranded' = Stranded
      BY <1>2, <2>1 DEF Stranded
    <3> QED
      BY <1>1, <1>2, <2>1, <3>1 DEF StrandedWhileBehind
  <2>2. CASE ~busy
    <3>1. \A i \in read : Creation[i] \in DOMAIN known \cup excused
      BY <1>1, <1>2 DEF EventsKnown
    <3>2. Stranded' \subseteq excused
      BY <1>2, <2>2, <3>1 DEF Stranded
    <3> QED
      BY <1>5, <3>2 DEF StrandedWhileBehind
  <2> QED
    BY <2>1, <2>2
<1>11. Thorough' /\ CapOvershoot'
  <2>1. CASE after = "off"
    BY <1>2, <1>3, <2>1 DEF Thorough, InPass, CapOvershoot
  <2>2. CASE after # "off"
    <3>1. UNCHANGED <<mode, known, pending, visited, after>>
      BY <2>2 DEF WriteRooms, memory, progress, pass
    <3> QED
      BY <1>1, <1>2, <1>3, <2>2, <3>1 DEF IInv, TypeOK, Thorough, InPass, CapOvershoot
  <2> QED
    BY <2>1, <2>2
<1> QED
  BY <1>6, <1>7, <1>8, <1>9, <1>10, <1>11 DEF IInv

(* Faults: what they lose is excused. *)
LEMMA InterruptStep == IInv /\ Interrupt => IInv'
<1> SUFFICES ASSUME IInv, Interrupt PROVE IInv'
  OBVIOUS
<1> USE CrawlerAssumption
<1>1. /\ phase # "off" /\ phase' = "exit" /\ refs' = {} /\ excused' = excused \cup refs
      /\ faults' = faults + 1 /\ faults < MaxFaults
      /\ UNCHANGED <<created, posted, mode, cursor, known, count, pending, visited,
                     after, savedCursor, saved, behind, read, unserved>>
  BY DEF Interrupt, server, progress, disk
<1>2. TypeOK'
  <2>1. TypeOK
    BY DEF IInv
  <2>2. faults' \in 0 .. MaxFaults
    <3>1. faults \in 0 .. MaxFaults /\ MaxFaults \in Nat
      BY <2>1 DEF TypeOK
    <3> QED
      BY <1>1, <3>1
  <2> QED
    BY <1>1, <2>1, <2>2 DEF TypeOK, Phases, IsRecords
<1>3. RefsKnown' /\ RefsInHand' /\ RefsFollowed'
  BY <1>1 DEF IInv, RefsKnown, RefsInHand, RefsFollowed
<1>4. EventsKnown'
  BY <1>1 DEF IInv, EventsKnown
<1>5. StrandedWhileBehind' /\ Thorough' /\ CapOvershoot'
  BY <1>1 DEF IInv, StrandedWhileBehind, Stranded, Thorough, InPass, CapOvershoot
<1> QED
  BY <1>2, <1>3, <1>4, <1>5 DEF IInv

LEMMA KillStep == IInv /\ Kill => IInv'
<1> SUFFICES ASSUME IInv, Kill PROVE IInv'
  OBVIOUS
<1> USE CrawlerAssumption
<1>1. /\ phase' = "off" /\ Forget
      /\ excused' = IF behind THEN excused \cup Stranded ELSE excused
      /\ faults' = faults + 1 /\ faults < MaxFaults
      /\ UNCHANGED <<created, posted, savedCursor, saved, behind, read, unserved>>
  BY DEF Kill, server, disk
<1>2. TypeOK /\ Stranded' = Stranded
  BY <1>1 DEF IInv, Stranded
<1>3. excused' \subseteq Rooms
  <2>1. Stranded \subseteq Rooms
    BY <1>2, StrandedAreRooms
  <2>2. excused' \subseteq excused \cup Stranded
    BY <1>1
  <2> QED
    BY <1>2, <2>1, <2>2 DEF TypeOK
<1>4. TypeOK'
  <2>1. faults' \in 0 .. MaxFaults
    <3>1. faults \in 0 .. MaxFaults /\ MaxFaults \in Nat
      BY <1>2 DEF TypeOK
    <3> QED
      BY <1>1, <3>1
  <2>2. /\ mode' \in {"once", "follow"} /\ cursor' \in Nat /\ count' \in Nat
        /\ IsRecords(known') /\ pending' \subseteq DOMAIN known'
        /\ visited' \subseteq DOMAIN known' /\ refs' \subseteq Rooms
        /\ after' \in {"top", "harvest", "exit", "off"}
    BY <1>1, Forgotten
  <2>3. IsRecords(saved') /\ phase' \in Phases
    BY <1>1, <1>2 DEF TypeOK, Phases, IsRecords
  <2> QED
    BY <1>1, <1>2, <1>3, <2>1, <2>2, <2>3 DEF TypeOK
<1>5. RefsKnown' /\ RefsInHand' /\ RefsFollowed'
  BY <1>1, Forgotten DEF IInv, RefsKnown, RefsInHand, RefsFollowed
<1>6. EventsKnown' /\ StrandedWhileBehind'
  BY <1>1, <1>2 DEF IInv, EventsKnown, StrandedWhileBehind
<1>7. Thorough' /\ CapOvershoot'
  BY <1>1, Forgotten DEF Thorough, InPass, CapOvershoot
<1> QED
  BY <1>4, <1>5, <1>6, <1>7 DEF IInv

-----------------------------------------------------------------------------
(* The inductive invariant holds whatever the server announces and answers,
   and whenever the process is interrupted, killed and started again. *)
THEOREM Invariance == Spec => []IInv
<1>1. IInv /\ [Next]_vars => IInv'
  <2> SUFFICES ASSUME IInv, [Next]_vars PROVE IInv'
    OBVIOUS
  <2>1. CASE UNCHANGED vars
    BY <2>1 DEF vars, IInv, TypeOK, IsRecords, RefsKnown, RefsInHand, RefsFollowed,
       EventsKnown, StrandedWhileBehind, Stranded, Thorough, InPass, CapOvershoot
  <2>2. CASE Create \/ \E r \in Rooms : Post(r)
    BY <2>2, ServerSteps
  <2>3. CASE \E m \in {"once", "follow"} : Start(m)
    BY <2>3, StartStep
  <2>4. CASE Work
    <3>1. CASE Leave \/ Proceed \/ EventsUnanswered \/ EndPass \/ Finally
      BY <3>1, ControlSteps
    <3>2. CASE PollEvents \/ SweepListing \/ ListingUnanswered
      BY <3>2, PollEventsStep, ListingStep
    <3>3. CASE \E r \in Rooms : HarvestRoom(r)
      BY <3>3, HarvestStep
    <3>4. CASE FollowRefs \/ WriteCursor
      BY <3>4, FollowRefsStep, WriteCursorStep
    <3>5. CASE \E busy \in BOOLEAN : WriteRooms(busy)
      BY <3>5, WriteRoomsStep
    <3> QED
      BY <2>4, <3>1, <3>2, <3>3, <3>4, <3>5 DEF Work
  <2>5. CASE Interrupt \/ Kill
    BY <2>5, InterruptStep, KillStep
  <2> QED
    BY <2>1, <2>2, <2>3, <2>4, <2>5 DEF Next
<1> QED
  BY <1>1, InitIInv, PTL DEF Spec

(* rooms.jsonl never holds a room's last_seq without the rooms mentioned up to
   there, for harvesting is incremental and would not find them again: the only
   exceptions are messages that had left the window of newest messages when the
   room was asked, and the rooms an interrupted run had in hand. *)
THEOREM RefsAreFollowed == Spec => []RefsFollowed
<1>1. IInv => RefsFollowed
  BY DEF IInv
<1> QED
  BY <1>1, Invariance, PTL

(* A room whose creation cursor.json has passed is saved, in memory, or lost in
   the window between the two writes of a flush. *)
THEOREM EventsAreFollowed == Spec => []EventsFollowed
<1>1. IInv => EventsFollowed
  <2> SUFFICES ASSUME IInv PROVE EventsFollowed
    OBVIOUS
  <2>1. CASE phase = "off"
    BY <2>1 DEF IInv, StrandedWhileBehind, EventsFollowed
  <2>2. CASE phase # "off"
    BY <2>2 DEF IInv, EventsKnown, Stranded, EventsFollowed
  <2> QED
    BY <2>1, <2>2
<1> QED
  BY <1>1, Invariance, PTL

(* A sweep leaves no room unharvested that it knew or came to know, unless it
   stops early. *)
THEOREM SweepsAreThorough == Spec => []SweepIsThorough
<1>1. IInv => SweepIsThorough
  BY DEF IInv, Thorough, InPass, SweepIsThorough
<1> QED
  BY <1>1, Invariance, PTL

(* No run makes more requests than its cap and the retries of one request: the
   cap is looked at before each request and not inside its retries. *)
THEOREM CapsHold == Spec => []CapOvershoot
<1>1. IInv => CapOvershoot
  BY DEF IInv
<1> QED
  BY <1>1, Invariance, PTL

(* rooms.jsonl and the crawl in memory keep their types through every fault. *)
THEOREM WellTyped == Spec => []TypeOK
<1>1. IInv => TypeOK
  BY DEF IInv
<1> QED
  BY <1>1, Invariance, PTL

=============================================================================
