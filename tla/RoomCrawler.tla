---------------------------- MODULE RoomCrawler -----------------------------
(***************************************************************************)
(* The room directory crawler src/bin/crawl.py: it learns of public rooms  *)
(* from the creation log /r/events, from the listing /rooms and from the   *)
(* rooms that messages mention, harvests every room it knows, and keeps    *)
(* cursor.json and rooms.jsonl so that the next run goes on from there.    *)
(*                                                                         *)
(* A room's record is its last_seq; what a message says is the set of      *)
(* public rooms it mentions.  The server is external.  STOP may be there   *)
(* or not each time the code looks; a request is one step, its retries     *)
(* included.                                                               *)
(***************************************************************************)
EXTENDS Integers, Sequences, SequencesExt, FiniteSets, FiniteSetsExt, Functions

CONSTANTS
    Rooms,           \* public room ids
    Creation,        \* the rooms that /r/events will announce, in order
    Mentions,        \* per room, what its messages will mention, in order
    EventWindow,     \* newest lines of /r/events that one answer holds
    MessageWindow,   \* newest messages of a room that one answer holds
    MaxNew,          \* max_new of harvest_room
    ListWindow,      \* newest rooms that /rooms lists
    MaxRequests,     \* --max-requests
    MaxAttempts,     \* MAX_BACKOFF_ATTEMPTS + 1
    CheckpointEvery, \* rooms harvested between two flushes
    MaxFaults        \* bound: kills and interrupts

ASSUME CrawlerAssumption ==
    /\ Creation \in Seq(Rooms)
    /\ Mentions \in [Rooms -> Seq(SUBSET Rooms)]
    /\ {EventWindow, MessageWindow, MaxNew, ListWindow, MaxAttempts,
        CheckpointEvery} \subseteq Nat \ {0}
    /\ {MaxRequests, MaxFaults} \subseteq Nat

VARIABLES
    created,      \* how many of Creation exist
    posted,       \* per room, how many of its messages exist
    phase,        \* "off", or where the process is: see Phases
    mode,         \* "once" or "follow"
    cursor,       \* state.events_cursor; 0 for None
    known,        \* state.rooms: last_seq of each known room, 0 for None
    count,        \* fetcher.count
    pending,      \* rooms still to harvest in this pass
    visited,      \* rooms harvested in this pass
    refs,         \* what harvest_room returned
    after,        \* where the flush under way returns to
    savedCursor,  \* cursor.json
    saved,        \* rooms.jsonl
    behind,       \* history: rooms.jsonl is older than cursor.json
    read,         \* history: lines of /r/events parsed before cursor got there
    excused,      \* history: rooms lost in the two windows described below
    unserved,     \* history: messages too old for the answers that passed them
    faults        \* history: kills and interrupts so far

vars == <<created, posted, phase, mode, cursor, known, count, pending, visited,
          refs, after, savedCursor, saved, behind, read, excused, unserved, faults>>

server == <<created, posted>>
progress == <<cursor, known>>
pass == <<pending, visited, refs>>
disk == <<savedCursor, saved>>
history == <<behind, read, excused, unserved, faults>>
memory == <<mode, progress, count, pass, after>>

(* "top" is before a sweep or at the head of the follow loop; "refs" is after
   harvest_room returned; "cursor" and "rooms" are the two writes of flush;
   "exit" is the finally clause of main. *)
Phases == {"off", "top", "events", "listing", "harvest", "refs",
           "cursor", "rooms", "exit"}

IsRecords(f) == DOMAIN f \subseteq Rooms /\ f \in [DOMAIN f -> Nat]

TypeOK ==
    /\ created \in 0 .. Len(Creation)
    /\ posted \in [Rooms -> Nat] /\ \A r \in Rooms : posted[r] <= Len(Mentions[r])
    /\ phase \in Phases /\ mode \in {"once", "follow"}
    /\ cursor \in Nat /\ savedCursor \in Nat /\ count \in Nat
    /\ IsRecords(known) /\ IsRecords(saved)
    /\ pending \subseteq DOMAIN known /\ visited \subseteq DOMAIN known
    /\ refs \subseteq Rooms
    /\ after \in {"top", "harvest", "exit", "off"}
    /\ behind \in BOOLEAN /\ faults \in 0 .. MaxFaults
    /\ read \subseteq 1 .. Len(Creation) /\ excused \subseteq Rooms
    /\ unserved \in [Rooms -> SUBSET Nat]

NoRooms == [r \in {} |-> 0]

Init ==
    /\ created = 0 /\ posted = [r \in Rooms |-> 0]
    /\ phase = "off" /\ mode = "once"
    /\ cursor = 0 /\ known = NoRooms /\ count = 0
    /\ pending = {} /\ visited = {} /\ refs = {} /\ after = "top"
    /\ savedCursor = 0 /\ saved = NoRooms
    /\ behind = FALSE /\ read = {} /\ excused = {} /\ faults = 0
    /\ unserved = [r \in Rooms |-> {}]

-----------------------------------------------------------------------------
(* The server *)

OldRooms == Rooms \ ToSet(Creation)
Existing == OldRooms \cup {Creation[i] : i \in 1 .. created}

Create ==
    /\ created < Len(Creation)
    /\ created' = created + 1
    /\ UNCHANGED <<posted, phase, mode, progress, count, pass, after, disk, history>>

Post(r) ==
    /\ r \in Existing /\ posted[r] < Len(Mentions[r])
    /\ posted' = [posted EXCEPT ![r] = @ + 1]
    /\ UNCHANGED <<created, phase, mode, progress, count, pass, after, disk, history>>

-----------------------------------------------------------------------------
(* The process *)

(* What the process held in memory goes with it. *)
Forget ==
    /\ mode' = "once" /\ count' = 0
    /\ cursor' = 0 /\ known' = NoRooms
    /\ pending' = {} /\ visited' = {} /\ refs' = {} /\ after' = "top"

(* main, and State.load: two files, each read as it is. *)
Start(m) ==
    /\ phase = "off"
    /\ mode' = m /\ phase' = "top" /\ count' = 0
    /\ cursor' = savedCursor /\ known' = saved
    /\ pending' = {} /\ visited' = {} /\ refs' = {} /\ after' = "top"
    /\ read' = {i \in read : i <= savedCursor}
    /\ UNCHANGED <<server, disk, behind, excused, unserved, faults>>

FlushThen(next) == phase' = "cursor" /\ after' = next

(* budget_exhausted, looked at once for each get(); then up to MaxAttempts
   requests are made and counted. *)
ExhaustedLate == count > MaxRequests
Exhausted == count >= MaxRequests
SpendRetries == \E k \in 1 .. MaxAttempts : count' = count + k - 1
Spend == \E k \in 1 .. MaxAttempts : count' = count + k

Fails == IF Exhausted THEN count' = count ELSE Spend
Answers == ~Exhausted /\ Spend

(* STOP, or for --follow an exhausted budget, at the top. *)
Leave ==
    /\ phase = "top"
    /\ phase' = "exit"
    /\ UNCHANGED <<server, memory, disk, history>>

Proceed ==
    /\ phase = "top"
    /\ mode = "follow" => ~Exhausted
    /\ phase' = "events"
    /\ UNCHANGED <<server, memory, disk, history>>

(* ensure_room for each of S: a known room keeps its record. *)
Ensured(S) == [r \in DOMAIN known \cup S |-> IF r \in DOMAIN known THEN known[r] ELSE 0]

(* After poll_events, --follow lists and harvests only when five minutes have
   passed. *)
EventsDone ==
    \/ phase' = "listing" /\ after' = after
    \/ mode = "follow" /\ FlushThen("top")

Lines == {i \in cursor + 1 .. created : i > created - EventWindow}

AnnouncedAfterNext(S) == {Creation[i] : i \in S \ {cursor + 1}}
Announced(S) == {Creation[i] : i \in S}

PollEvents ==
    /\ phase = "events" /\ Answers
    /\ known' = Ensured(Announced(Lines))
    /\ cursor' = Max(Lines \cup {cursor})
    /\ read' = read \cup Lines
    /\ EventsDone
    /\ UNCHANGED <<server, mode, pass, disk, behind, excused, unserved, faults>>

EventsUnanswered ==
    /\ phase = "events" /\ Fails
    /\ EventsDone
    /\ UNCHANGED <<server, mode, progress, pass, disk, history>>

(* run_sweep flushes before it harvests, run_follow does not. *)
ListingDone ==
    /\ pending' = DOMAIN known' /\ visited' = {}
    /\ IF mode = "once" THEN FlushThen("harvest")
                        ELSE phase' = "harvest" /\ after' = after

SweepListing ==
    /\ phase = "listing" /\ Answers
    /\ \E S \in SUBSET Existing :
        Cardinality(S) <= ListWindow /\ known' = Ensured(S)
    /\ ListingDone
    /\ UNCHANGED <<server, mode, cursor, refs, disk, history>>

ListingUnanswered ==
    /\ phase = "listing" /\ Fails
    /\ known' = known
    /\ ListingDone
    /\ UNCHANGED <<server, mode, cursor, refs, disk, history>>

(* Nothing left, STOP, or no budget left: the pass is over. *)
EndPass ==
    /\ phase = "harvest"
    /\ FlushThen(IF mode = "once" THEN "exit" ELSE "top")
    /\ UNCHANGED <<server, mode, progress, count, pass, disk, history>>

Mentioned(r, S) == UNION {Mentions[r][i] : i \in S} \ {r}

(* An answer holds the newest messages after last_seq, oldest first; those
   before them are not in it, whatever last_seq is. *)
TooOld(r) == known[r] + 1 .. posted[r] - MessageWindow
Passed(r) == Max({known[r], posted[r] - MessageWindow})

(* The messages that the loop of harvest_room reads before it breaks. *)
Batch(r) == {i \in Passed(r) + 1 .. posted[r] : i <= Passed(r) + MaxNew}

HarvestRoom(r) ==
    /\ phase = "harvest" /\ ~Exhausted /\ r \in pending
    /\ pending' = pending \ {r} /\ visited' = visited \cup {r}
    /\ phase' = "refs"
    /\ \/ /\ Answers
          /\ known' = [known EXCEPT ![r] = Max(Batch(r) \cup {@})]
          /\ refs' = Mentioned(r, Batch(r)) \ DOMAIN known
          /\ unserved' = [unserved EXCEPT ![r] = @ \cup TooOld(r)]
       \/ Fails /\ refs' = {} /\ UNCHANGED <<known, unserved>>
    /\ UNCHANGED <<server, mode, cursor, after, disk, behind, read, excused, faults>>

CheckpointDue == Cardinality(visited) % CheckpointEvery = 0

QueuedNone == {}
Queued == IF mode = "once" THEN refs \ visited ELSE {}

FollowRefsUnlessDue ==
    /\ phase = "refs"
    /\ known' = IF CheckpointDue THEN known ELSE Ensured(refs)
    /\ pending' = IF CheckpointDue THEN pending ELSE pending \cup Queued
    /\ refs' = {}
    /\ IF CheckpointDue THEN FlushThen("harvest")
                        ELSE phase' = "harvest" /\ after' = after
    /\ UNCHANGED <<server, mode, cursor, count, visited, disk, history>>

FollowRefsUnensured ==
    /\ phase = "refs"
    /\ known' = known
    /\ pending' = pending \cup Queued
    /\ refs' = {}
    /\ IF CheckpointDue THEN FlushThen("harvest")
                        ELSE phase' = "harvest" /\ after' = after
    /\ UNCHANGED <<server, mode, cursor, count, visited, disk, history>>

FollowRefs ==
    /\ phase = "refs"
    /\ known' = Ensured(refs)
    /\ pending' = pending \cup Queued
    /\ refs' = {}
    /\ IF CheckpointDue THEN FlushThen("harvest")
                        ELSE phase' = "harvest" /\ after' = after
    /\ UNCHANGED <<server, mode, cursor, count, visited, disk, history>>

-----------------------------------------------------------------------------
(* State.flush *)

WriteCursor ==
    /\ phase = "cursor"
    /\ savedCursor' = cursor /\ behind' = TRUE
    /\ phase' = "rooms"
    /\ UNCHANGED <<server, memory, saved, read, excused, unserved, faults>>

(* The rooms whose creation cursor.json has passed and rooms.jsonl lacks. *)
Stranded == {Creation[i] : i \in read \cap (1 .. savedCursor)} \ DOMAIN saved

(* On Windows another process may hold rooms.jsonl through all six tries: the
   flush then returns as if it had worked, the last one included. *)
WriteRooms(busy) ==
    /\ phase = "rooms"
    /\ IF busy THEN UNCHANGED <<saved, behind>> ELSE saved' = known /\ behind' = FALSE
    /\ phase' = after
    /\ excused' = IF busy /\ after = "off" THEN excused \cup Stranded ELSE excused
    /\ IF after = "off" THEN Forget ELSE UNCHANGED memory
    /\ UNCHANGED <<server, savedCursor, read, unserved, faults>>

(* The finally clause of main. *)
Finally ==
    /\ phase = "exit"
    /\ FlushThen("off")
    /\ UNCHANGED <<server, mode, progress, count, pass, disk, history>>

(* KeyboardInterrupt, or an exception, inside the try of main: what
   harvest_room returned is lost although last_seq has moved. *)
Interrupt ==
    /\ faults < MaxFaults
    /\ phase \notin {"off", "exit"} /\ after # "off"
    /\ faults' = faults + 1
    /\ excused' = excused \cup refs
    /\ phase' = "exit" /\ refs' = {}
    /\ UNCHANGED <<server, mode, progress, count, pending, visited, after, disk,
                   behind, read, unserved>>

(* The process is killed; between the two writes, the rooms that only
   cursor.json accounts for are lost. *)
Kill ==
    /\ faults < MaxFaults
    /\ phase # "off"
    /\ faults' = faults + 1
    /\ excused' = IF behind THEN excused \cup Stranded ELSE excused
    /\ phase' = "off" /\ Forget
    /\ UNCHANGED <<server, disk, behind, read, unserved>>

-----------------------------------------------------------------------------

Work ==
    \/ Leave \/ Proceed
    \/ PollEvents \/ EventsUnanswered
    \/ SweepListing \/ ListingUnanswered
    \/ \E r \in Rooms : HarvestRoom(r)
    \/ EndPass \/ FollowRefs
    \/ WriteCursor
    \/ \E busy \in BOOLEAN : WriteRooms(busy)
    \/ Finally

Next ==
    \/ Create
    \/ \E r \in Rooms : Post(r)
    \/ \E m \in {"once", "follow"} : Start(m)
    \/ Work
    \/ Interrupt
    \/ Kill

(* A process that was started goes on until it ends. *)
Spec == Init /\ [][Next]_vars /\ WF_vars(Work)

-----------------------------------------------------------------------------

(* A room that a run read off the creation log, and that cursor.json has
   passed, is in rooms.jsonl, in the memory of the process, or was lost between
   the two writes of a flush: /r/events will not announce it again. *)
EventsFollowed ==
    Stranded \subseteq excused \cup (IF phase = "off" THEN {} ELSE DOMAIN known)

(* rooms.jsonl never holds the last_seq of a room without the rooms mentioned
   up to there: the next run asks only for later messages.  Excepted by name
   are the rooms of an interrupted run (`excused`) and the messages that were
   older than the window of the answer (`unserved`; docs/message-log.md:138-151
   has the poller record such a loss as a gap, harvest_room records nothing).  A
   message that the answer held is no exception, nor is one beyond max_new. *)
RefsFollowed ==
    \A r \in DOMAIN saved :
        Mentioned(r, (1 .. saved[r]) \ unserved[r]) \subseteq DOMAIN saved \cup excused

(* run_sweep: "Harvest every known room; queue newly discovered ids within
   this pass" (bin/crawl.py:688). *)
SweepIsThorough ==
    phase = "harvest" /\ mode = "once" => DOMAIN known \subseteq visited \cup pending

(* The cap is looked at once per get(): a run exceeds it by the retries of one
   request at most. *)
CapOvershoot == count < MaxRequests + MaxAttempts

(* With --max-requests every run ends, --follow included, whatever the server
   answers. *)
CappedRunsEnd == phase # "off" ~> phase = "off"

(* poll_events: "the index is complete for rooms seen from first run onward"
   (bin/crawl.py:514-515). *)
SeenRoomsAreIndexed == phase = "off" => Stranded = {}

=============================================================================
