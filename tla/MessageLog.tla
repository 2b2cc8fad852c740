----------------------------- MODULE MessageLog -----------------------------
(***************************************************************************)
(* The per-room message log: bin/message_log.py sweeps over a list of      *)
(* rooms and polls each one for what is newer than its own log;            *)
(* MessageLog.append of                                                    *)
(* src/src/openagentsearch/sources/technocore_messages.py adds the new     *)
(* messages to messages/<room>.jsonl and then replaces                     *)
(* message-log-state.json.  The two are separate writes, and the process   *)
(* may be killed at any point, in the middle of a line included.           *)
(*                                                                         *)
(* A message is its seq.  The room server is external: it numbers a room's *)
(* messages 1, 2, ... and answers with the newest Limit of those asked     *)
(* for.  One process runs on a root at a time.                             *)
(***************************************************************************)
EXTENDS Selection, SequencesExt, FiniteSets, FiniteSetsExt

CONSTANTS
    Rooms,      \* the rooms of a sweep, in order, as select_rooms returned them
    Limit,      \* --limit
    Retries,    \* --retries
    Malformed,  \* per room, the seqs of items parse_room_page cannot read
    MaxSeq,     \* bound: per room, the messages posted to it
    MaxKills    \* bound: times the process is killed

ASSUME LogAssumption ==
    /\ Rooms \in Seq(ToSet(Rooms)) /\ IsInjective(Rooms) /\ Rooms # <<>>
    /\ Limit \in Nat \ {0}
    /\ Retries \in Nat
    /\ Malformed \in [ToSet(Rooms) -> SUBSET Nat]
    /\ MaxSeq \in [ToSet(Rooms) -> Nat] /\ MaxKills \in Nat

VARIABLES
    posted,    \* per room, how many messages the server has
    lines,     \* per room, the seqs of the readable lines of its .jsonl
    tail,      \* per room, how its .jsonl ends: see Tails
    saved,     \* per room, its record in message-log-state.json
    phase,     \* "off", or where the process is: see Phases
    pos,       \* the room being polled: Rooms[pos]
    attempt,   \* retries made of the request in hand
    page,      \* the parsed page in hand
    pending,   \* the record append() is about to save
    polled,    \* history: per room, what it had at its first finished poll
    excused,   \* history: per room, the seqs a kill made unaccountable
    kills      \* history: kills so far

vars == <<posted, lines, tail, saved, phase, pos, attempt, page, pending,
          polled, excused, kills>>

files == <<lines, tail, saved>>
history == <<polled, excused, kills>>

RoomSet == ToSet(Rooms)
room == Rooms[pos]

Phases == {"off", "request", "page", "written", "swept"}

(* After a kill the last line may be "cut" inside its JSON text, so that it
   cannot be read, or whole but "unended": only its newline is missing. *)
Tails == {"ended", "cut", "unended"}

NoSeq == 0            \* first_seq null: a page without messages

Record == [last : Int, messages : Nat, gaps : SUBSET (Int \X Int)]
Unseen == [last |-> -1, messages |-> 0, gaps |-> {}]

TypeOK ==
    /\ posted \in [RoomSet -> Nat] /\ \A r \in RoomSet : posted[r] <= MaxSeq[r]
    /\ lines \in [RoomSet -> Seq(Nat)]
    /\ tail \in [RoomSet -> Tails]
    /\ saved \in [RoomSet -> Record]
    /\ phase \in Phases
    /\ pos \in 1 .. Len(Rooms) /\ attempt \in 0 .. Retries
    /\ page \in [first : Nat, messages : Seq(Nat)]
    /\ pending \in Record
    /\ polled \in [RoomSet -> Nat \cup {-1}]
    /\ excused \in [RoomSet -> SUBSET Nat]
    /\ kills \in 0 .. MaxKills

NoPage == [first |-> NoSeq, messages |-> <<>>]

Init ==
    /\ posted = [r \in RoomSet |-> 0]
    /\ lines = [r \in RoomSet |-> <<>>]
    /\ tail = [r \in RoomSet |-> "ended"]
    /\ saved = [r \in RoomSet |-> Unseen]
    /\ phase = "off" /\ pos = 1 /\ attempt = 0
    /\ page = NoPage /\ pending = Unseen
    /\ polled = [r \in RoomSet |-> -1]
    /\ excused = [r \in RoomSet |-> {}]
    /\ kills = 0

-----------------------------------------------------------------------------

(* The server answers with the newest Limit messages after `since`. *)
Served(r, since) ==
    {s \in 1 .. posted[r] : s > since /\ s > posted[r] - Limit}

Ascending(lo, hi, except) ==
    Kept([i \in 1 .. hi - lo + 1 |-> lo + i - 1], (lo .. hi) \ except)

Post(r) ==
    /\ posted[r] < MaxSeq[r]
    /\ posted' = [posted EXCEPT ![r] = @ + 1]
    /\ UNCHANGED <<files, phase, pos, attempt, page, pending, history>>

(* _physical_last_seq and last_seq: the file outvotes an older state. *)
PhysicalLastSeq(r) == Max(ToSet(lines[r]) \cup {-1})
LastSeqStateOnly(r) == saved[r].last
LastSeq(r) == Max({saved[r].last, PhysicalLastSeq(r)})

-----------------------------------------------------------------------------

(* A run, or another sweep of --loop, asks for its first room. *)
BeginSweep ==
    /\ phase \in {"off", "swept"}
    /\ phase' = "request" /\ pos' = 1 /\ attempt' = 0
    /\ UNCHANGED <<posted, files, page, pending, history>>

(* --once, --max-runtime or a STOP file: looked at after a whole sweep. *)
Stop ==
    /\ phase = "swept"
    /\ phase' = "off"
    /\ UNCHANGED <<posted, files, pos, attempt, page, pending, history>>

NextRoomOnce == phase' = "swept" /\ pos' = pos /\ attempt' = 0
NextRoomOver ==
    /\ IF pos > Len(Rooms) THEN phase' = "swept" /\ pos' = pos
                           ELSE phase' = "request" /\ pos' = pos + 1
    /\ attempt' = 0
NextRoom ==
    /\ IF pos = Len(Rooms) THEN phase' = "swept" /\ pos' = pos
                           ELSE phase' = "request" /\ pos' = pos + 1
    /\ attempt' = 0

(* _fetch_with_retries: a transport failure, a 5xx or a 429 is tried again. *)
RetryForever ==
    /\ phase = "request"
    /\ attempt' = (attempt + 1) % (Retries + 1)
    /\ UNCHANGED <<posted, files, phase, pos, page, pending, history>>
Retry ==
    /\ phase = "request" /\ attempt < Retries
    /\ attempt' = attempt + 1
    /\ UNCHANGED <<posted, files, phase, pos, page, pending, history>>

(* The last attempt failed, another status came back, or the body was refused
   by parse_room_page: an error of this room only. *)
GiveUp ==
    /\ phase = "request"
    /\ NextRoom
    /\ UNCHANGED <<posted, files, page, pending, history>>

(* A 200 answer to ?since=LastSeq, parsed: malformed items are skipped, the
   server's first_seq still counts them. *)
Answer(r) ==
    /\ phase = "request" /\ room = r
    /\ LET S == Served(r, LastSeq(r)) IN
       page' = IF S = {} THEN NoPage
               ELSE [first |-> Min(S),
                     messages |-> Ascending(Min(S), Max(S), Malformed[r])]
    /\ phase' = "page"
    /\ UNCHANGED <<posted, files, pos, attempt, pending, history>>

-----------------------------------------------------------------------------
(* MessageLog.append *)

New == Kept(page.messages, {s \in ToSet(page.messages) : s > LastSeq(room)})

Cursor == Max(ToSet(New) \cup {LastSeq(room)})

GapLate ==
    IF page.first # NoSeq /\ LastSeq(room) # -1 /\ page.first > LastSeq(room) + 2
    THEN {<<LastSeq(room) + 1, page.first>>} ELSE {}
Gap ==
    IF page.first # NoSeq /\ LastSeq(room) # -1 /\ page.first > LastSeq(room) + 1
    THEN {<<LastSeq(room) + 1, page.first>>} ELSE {}

Covered(gaps) == UNION {g[1] .. g[2] - 1 : g \in gaps}

(* The file after the lines of the messages `new`, then `end`, were written to
   it: the first bytes join an unended line, and whatever shares that line is
   unreadable. *)
Joined(r) == tail[r] # "ended"
Before(r) == IF tail[r] = "unended" THEN Front(lines[r]) ELSE lines[r]
Readable(r, new) == IF Joined(r) /\ new # <<>> THEN Tail(new) ELSE new
Unreadable(r, new) ==
    (IF tail[r] = "unended" THEN {Last(lines[r])} ELSE {})
    \cup (IF Joined(r) /\ new # <<>> THEN {Head(new)} ELSE {})

Output(r, new, end) ==
    /\ lines' = [lines EXCEPT ![r] = Before(r) \o Readable(r, new)]
    /\ tail' = [tail EXCEPT ![r] = end]

Write ==
    /\ phase = "page"
    /\ IF New = <<>>
       THEN UNCHANGED <<lines, tail, excused>>
       ELSE /\ Output(room, New, "ended")
            /\ excused' = [excused EXCEPT ![room] = @ \cup Unreadable(room, New)]
    /\ pending' = [last |-> Cursor, messages |-> saved[room].messages + Len(New),
                   gaps |-> saved[room].gaps \cup Gap]
    /\ phase' = "written"
    /\ UNCHANGED <<posted, saved, pos, attempt, page, polled, kills>>

(* The atomic replace of message-log-state.json ends append() and the poll. *)
ReplaceState ==
    /\ phase = "written"
    /\ saved' = [saved EXCEPT ![room] = pending]
    /\ polled' = [polled EXCEPT ![room] = IF @ = -1 THEN Max({pending.last, 0}) ELSE @]
    /\ NextRoom
    /\ page' = NoPage /\ pending' = Unseen
    /\ UNCHANGED <<posted, lines, tail, excused, kills>>

-----------------------------------------------------------------------------
(* Kills.  What append() held in memory is lost, its gap included. *)

Die ==
    /\ kills < MaxKills
    /\ kills' = kills + 1
    /\ phase' = "off" /\ pos' = 1 /\ attempt' = 0
    /\ page' = NoPage /\ pending' = Unseen
    /\ UNCHANGED <<posted, saved, polled>>

KillBetween ==
    /\ phase \in {"request", "page", "swept"}
    /\ Die
    /\ UNCHANGED <<lines, tail, excused>>

(* Some of the buffered text reached the file: n whole lines, the last one
   perhaps without its newline, or a piece of the line after them. *)
KillWriting(n, end) ==
    /\ phase = "page" /\ New # <<>>
    /\ n \in 0 .. Len(New)
    /\ CASE end = "ended"   -> n >= 1
         [] end = "unended" -> n >= 1 /\ (Joined(room) => n >= 2)
         [] end = "cut"     -> n < Len(New)
    /\ LET new == SubSeq(New, 1, n)
           seen == Readable(room, new) # <<>>
       IN /\ Output(room, new, end)
          /\ excused' = [excused EXCEPT ![room] = @
                \cup Unreadable(room, new) \cup (IF seen THEN Covered(Gap) ELSE {})]
    /\ Die

KillWritten ==
    /\ phase = "written"
    /\ excused' = [excused EXCEPT ![room] =
            @ \cup (IF LastSeq(room) = saved[room].last THEN {}
                    ELSE Covered(pending.gaps \ saved[room].gaps))]
    /\ Die
    /\ UNCHANGED <<lines, tail>>

-----------------------------------------------------------------------------

Work ==
    \/ Retry
    \/ GiveUp
    \/ \E r \in RoomSet : Answer(r)
    \/ Write
    \/ ReplaceState

Next ==
    \/ \E r \in RoomSet : Post(r)
    \/ BeginSweep
    \/ Stop
    \/ Work
    \/ KillBetween
    \/ \E n \in 0 .. Limit, end \in Tails : KillWriting(n, end)
    \/ KillWritten

(* The process goes on by itself, and whoever runs it runs it again (--loop, or
   a timer around --once).  Nothing is assumed of the server here. *)
Fairness == WF_vars(Work) /\ WF_vars(BeginSweep)

Spec == Init /\ [][Next]_vars /\ Fairness

-----------------------------------------------------------------------------

(* MessageLog: "this can never duplicate a message physically"
   (technocore_messages.py:247-248).  Whatever the kills left behind, the
   readable lines of a room are in strictly ascending seq order. *)
LogIncreasing ==
    \A r \in RoomSet : \A i, j \in 1 .. Len(lines[r]) :
        i < j => lines[r][i] < lines[r][j]

(* docs/message-log.md, tail truncation: a message that is missing between two
   logged ones lies in a recorded gap.  Excepted are the items that could not
   be parsed, and what a kill took: the gap of the append it interrupted, and
   the message written onto the half line it left. *)
LossIsVisible ==
    \A r \in RoomSet : \A i, j \in 1 .. Len(lines[r]) :
        \A s \in lines[r][i] .. lines[r][j] :
            \/ s \in ToSet(lines[r]) \cup Malformed[r] \cup excused[r]
            \/ s \in Covered(saved[r].gaps)
            \/ phase = "written" /\ room = r /\ s \in Covered(pending.gaps)

(* No recorded gap claims the loss of a message that the log has. *)
GapsAreTrue ==
    \A r \in RoomSet : Covered(saved[r].gaps) \cap ToSet(lines[r]) = {}

(* The recorded gaps are exactly what is missing, up to what a kill took:
   every loss is in one of them, and nothing that was logged is (append). *)
GapsAreExact == LossIsVisible /\ GapsAreTrue

(* A sweep gets past every room whatever the server answers: it reaches its
   end, where STOP and --max-runtime are looked at, unless it is killed. *)
SweepEnds == phase = "request" ~> phase \in {"swept", "off"}

(* A server that is asked about a room over and over answers some day. *)
Answering == \A r \in RoomSet : SF_vars(Answer(r))

(* Once a room falls quiet, and if its server answers at all, its log takes in
   every readable message the server would still serve it, kills and half lines
   notwithstanding. *)
CatchesUp ==
    Answering => \A r \in RoomSet :
        <>[](Served(r, LastSeq(r)) \subseteq Malformed[r])

(* docs/message-log.md:143-147: "If more than `limit` messages land between
   two polls ... a gap is recorded in `message-log-state.json` so the loss is
   visible": also when the first of the two polls found the room empty. *)
EveryLossRecorded ==
    \A r \in RoomSet : polled[r] # -1 =>
        \A s \in 1 .. MaxSeq[r] :
            polled[r] < s /\ s < saved[r].last
                => s \in ToSet(lines[r]) \cup Covered(saved[r].gaps)

=============================================================================
