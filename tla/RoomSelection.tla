--------------------------- MODULE RoomSelection ---------------------------
(***************************************************************************)
(* Which rooms a run of bin/message_log.py polls, and in which order: the  *)
(* rooms given to it, those of the wanted classes in a liveness map, and   *)
(* the busiest active ones of the room directory (rooms_from_liveness, and *)
(* select_rooms of sources/technocore_messages.py).  Rooms are numbered in *)
(* the order of their names.                                               *)
(***************************************************************************)
EXTENDS Integers, Sequences, SequencesExt, FiniteSets, FiniteSetsExt

CONSTANTS
    RoomIds,        \* the numbers that stand for well-formed ids
    Private         \* those of them that begin with p-

----------------------------------------------------------------------------
\* A map is a function from ids to classes, empty when the file is missing,
\* too large or of another schema: the poller goes on without it.
RoomClassVocabulary == {"live", "mixed", "quiet", "farm", "flood", "unknown"}

RoomsFromLiveness(map, include) ==
    {r \in DOMAIN map \cap (RoomIds \ Private) : map[r] \in include \cap RoomClassVocabulary}

\* main: the rooms of the map, in order, after those given with --room.
Explicit(given, fromMap, exclude) ==
    given \o SetToSortSeq(fromMap \ (exclude \cup ToSet(given)), <)

\* select_rooms raises before it reads the directory.
Refused(explicit, exclude) ==
    \/ ~ exclude \subseteq RoomIds
    \/ \E r \in ToSet(explicit) : r \notin RoomIds \ Private \/ r \in exclude

\* Each room once, where it first comes.
Distinct(rooms) ==
    FoldLeft(LAMBDA seen, r : IF r \in ToSet(seen) THEN seen ELSE Append(seen, r), <<>>, rooms)

NoInt == -1             \* a count or a timestamp that is no integer

\* The rows of rooms.jsonl, records with id, count and active, that are
\* looked at; of two with the same id the first.
Candidates(directory, taken, within, now) ==
    LET Usable(i) ==
          /\ directory[i].id \in RoomIds \ (Private \cup taken)
          /\ NoInt \notin {directory[i].count, directory[i].active}
          /\ directory[i].active \in (now - within)..(now + within)
    IN  {directory[i] : i \in {j \in DOMAIN directory :
            Usable(j) /\ \A k \in 1..(j - 1) : Usable(k) => directory[k].id # directory[j].id}}

Busier(a, b) == a.count > b.count \/ (a.count = b.count /\ a.id < b.id)

\* No rooms when the arguments are refused: the command ends with exit code 2.
SelectRooms(directory, explicit, top, within, now, exclude) ==
    LET chosen == Distinct(explicit)
        ranked == SetToSortSeq(Candidates(directory, ToSet(chosen) \cup exclude, within, now), Busier)
        more == [i \in 1..Min({top, Len(ranked)}) |-> ranked[i].id]
    IN  IF Refused(explicit, exclude) THEN <<>> ELSE chosen \o more
=============================================================================
