---------------------------- MODULE LogSnapshot ----------------------------
(***************************************************************************)
(* Frozen copies of the message log: scripts/freeze_message_log.py.  An    *)
(* archive is a function from rooms to the bytes of their files, which are *)
(* the lines of the log; a hash is the content it stands for.              *)
(***************************************************************************)
EXTENDS DidFacts

Truncated == [whole |-> FALSE]      \* a file whose write was cut short

----------------------------------------------------------------------------
\* compute_room, from the lines as they stand in the file.
GapIntervals(seqs) ==
    {<<p[1] + 1, p[2] - 1>> : p \in {q \in seqs \X seqs :
        q[2] - q[1] > 1 /\ \A s \in seqs : s <= q[1] \/ s >= q[2]}}

ComputeRoom(lines) ==
    LET rows == {lines[i] : i \in {j \in DOMAIN lines : lines[j].parses # "no"}}
        seqs == {r.seq : r \in rows}
        range == IF seqs = {} THEN 0 ELSE Max(seqs) - Min(seqs) + 1
    IN  [sha256    |-> lines,
         lines     |-> Len(lines),
         rows      |-> Cardinality({i \in DOMAIN lines : lines[i].parses # "no"}),
         malformed |-> Cardinality({i \in DOMAIN lines : lines[i].parses = "no"}),
         seqs      |-> Cardinality(seqs),
         range     |-> range,
         missing   |-> range - Cardinality(seqs),
         gaps      |-> GapIntervals(seqs),
         ts        |-> {r.ts : r \in rows},
         senders   |-> SendersOf(rows),
         signed    |-> Cardinality({i \in DOMAIN lines : lines[i].parses # "no" /\ lines[i].signed})]

\* _totals: sums over the rooms, except the senders, which are a union.
Totals(rooms) ==
    LET Sum(f) == MapThenSumSet(LAMBDA r : rooms[r][f], DOMAIN rooms)
    IN  [rooms |-> Cardinality(DOMAIN rooms), lines |-> Sum("lines"), rows |-> Sum("rows"),
         malformed |-> Sum("malformed"),
         senders |-> Cardinality(UNION {rooms[r].senders : r \in DOMAIN rooms}),
         ts |-> UNION {rooms[r].ts : r \in DOMAIN rooms}]

\* _build_archive reads each room once, for its member and for its facts.
Archive(read) == [whole |-> TRUE, members |-> read]

ArchiveManifest(read, excluded, now) ==
    LET rooms == [r \in DOMAIN read |-> ComputeRoom(read[r])]
    IN  [whole |-> TRUE, frozenAt |-> now, tarSha256 |-> read, rooms |-> rooms,
         totals |-> Totals(rooms), excluded |-> excluded]

\* cmd_verify, by the facts recomputed from the members of the archive.
Verify(archive, manifest) ==
    /\ archive.whole /\ manifest.whole
    /\ manifest.tarSha256 = archive.members
    /\ LET rooms == [r \in DOMAIN archive.members |-> ComputeRoom(archive.members[r])]
       IN  manifest.rooms = rooms /\ manifest.totals = Totals(rooms)
=============================================================================
