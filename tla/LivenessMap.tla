---------------------------- MODULE LivenessMap ----------------------------
(***************************************************************************)
(* The liveness map and its compact form as functions of a message log, a  *)
(* ledger and the room directory: liveness/build.py.  opts are the options *)
(* of the command: now, rooms, span (--window-days), maxFull, maxCompact.  *)
(***************************************************************************)
EXTENDS AgentTiers

CONSTANTS
    MinSampled,           \* CANDIDATE_MIN_SAMPLED_SENDERS
    MaxCandidates,        \* CANDIDATE_MAX
    MapBytes, AgentBytes, CompactAgentBytes, TierBytes

----------------------------------------------------------------------------
\* _load_rows: as LoadPosts, unsigned rows included.
LoadRows(log, scope) ==
    {RowAt(log, at) : at \in {a \in LinesOf(log, scope) : log[a.room][a.i].parses = "yes"}}

\* _load_gaps: how many gaps the poller has recorded for a room; the state
\* file may be absent or unreadable, which is no gaps known.
NoGaps == -1
GapsOf(gaps, room) == IF room \in DOMAIN gaps THEN gaps[room] ELSE NoGaps

\* load_candidates: rows of the directory have id, private, count (or -1, as
\* malformed rows) and sampled; the busiest rooms the map does not know.
CandidateOrder(a, b) == a.count > b.count \/ (a.count = b.count /\ a.id < b.id)
LoadCandidates(directory, known) ==
    LET picked == {r \in Range(directory) :
                     r.count >= 0 /\ ~r.private /\ r.id \notin known /\ r.sampled >= MinSampled}
        ordered == SetToSortSeq(picked, CandidateOrder)
    IN  SubSeq(ordered, 1, Min({Len(ordered), MaxCandidates}))

----------------------------------------------------------------------------
CountsObj(rooms, tierOf) ==
    LET InClass(c) == {r \in DOMAIN rooms : rooms[r].verdict.class = c}
        InClassAll(c) == {r \in DOMAIN rooms : rooms[r].verdict.classAll = c}
        InTier(t) == {d \in DOMAIN tierOf : tierOf[d] = t}
    IN  [byClass    |-> [c \in {rooms[r].verdict.class : r \in DOMAIN rooms} |-> Cardinality(InClass(c))],
         byClassAll |-> [c \in {rooms[r].verdict.classAll : r \in DOMAIN rooms} |->
                           Cardinality(InClassAll(c))],
         byTier     |-> [t \in Range(tierOf) |-> Cardinality(InTier(t))]]

Tiers(agents) == [d \in DOMAIN agents |-> agents[d].verdict.tier]
CompactTiers(agents) == [d \in DOMAIN agents |-> agents[d].tier]

\* build_liveness; a room whose facts are invalid fails the whole build.
RoomEntry(rows, burstDids, gaps, cutoff) ==
    LET window == RoomFacts({r \in rows : r.ts >= cutoff}, burstDids, gaps)
        allTime == RoomFacts(rows, burstDids, gaps)
    IN  [verdict |-> ClassifyRoom(window, allTime), window |-> window, allTime |-> allTime]

RoomEntries(log, gaps, ledger, opts) ==
    LET rows == LoadRows(log, opts.rooms)
        burstDids == {d \in DOMAIN ledger.rows : ledger.rows[d].score.burst}
    IN  [room \in opts.rooms \cap DOMAIN log |->
           RoomEntry({r \in rows : r.room = room}, burstDids, GapsOf(gaps, room), opts.now - opts.span)]

\* The agents that the ledger knows and last saw within the window are listed.
MapOf(log, ledger, directory, opts, rooms, signals) ==
    LET listed == {d \in DOMAIN signals.of : signals.of[d].lastSeen >= opts.now - opts.span}
    IN  [generatedAt  |-> opts.now,
         span         |-> opts.span,
         logRows      |-> Cardinality(LinesOf(log, opts.rooms)),
         signedRows   |-> Cardinality({r \in LoadRows(log, opts.rooms) : r.signed}),
         ledgerAt     |-> ledger.generatedAt,
         ledgerDids   |-> ledger.dids,
         notInLedger  |-> signals.notInLedger,
         rooms        |-> rooms,
         agents       |-> [d \in listed |-> [signals |-> signals.of[d],
                                             verdict |-> ClassifyAgent(signals.of[d])]],
         outside      |-> Cardinality(DOMAIN signals.of \ listed),
         candidates   |-> LoadCandidates(directory, DOMAIN rooms),
         served       |-> NoServed]

MapOfRooms(log, ledger, directory, opts, rooms) ==
    LET classes == [room \in DOMAIN rooms |-> rooms[room].verdict.class]
    IN  IF \E room \in DOMAIN rooms :
              ~ValidFacts(rooms[room].window) \/ ~ValidFacts(rooms[room].allTime)
          THEN NoFile
          ELSE MapOf(log, ledger, directory, opts, rooms,
                     AgentSignals(LoadRows(log, opts.rooms), ledger, classes, opts.now))

BuildLiveness(log, gaps, ledger, directory, opts) ==
    MapOfRooms(log, ledger, directory, opts, RoomEntries(log, gaps, ledger, opts))

----------------------------------------------------------------------------
(* The two serialisations, and fitting either to its size limit.           *)

FullObj(m) ==
    [f \in DOMAIN m \cup {"counts"} |->
       IF f = "counts" THEN CountsObj(m.rooms, Tiers(m.agents)) ELSE m[f]]

CompactMap(m) ==
    LET agents == [d \in DOMAIN m.agents |->
                     CompactAgent(m.agents[d].signals, m.agents[d].verdict)]
    IN  [generatedAt |-> m.generatedAt, span |-> m.span, logRows |-> m.logRows,
         ledgerAt |-> m.ledgerAt, rooms |-> m.rooms, agents |-> agents,
         counts |-> CountsObj(m.rooms, CompactTiers(agents)),
         outside |-> m.outside, served |-> m.served]

\* Every tier counted, and the header of a fitted map, take bytes of their own.
MapSize(a, agentBytes) ==
    MapBytes + agentBytes * Cardinality(DOMAIN a.agents)
      + TierBytes * Cardinality(DOMAIN a.counts.byTier)
      + (IF a.served = NoServed THEN 0 ELSE ServedBytes)
FullSize(a) == MapSize(a, AgentBytes)
CompactMapSize(a) == MapSize(a, CompactAgentBytes)

LastSeenIn(m) == [d \in DOMAIN m.agents |-> m.agents[d].signals.lastSeen]

Keep(m, k) ==
    LET ranked == Ranked(LastSeenIn(m))
    IN  [m EXCEPT !.agents = [d \in Newest(k, ranked) |-> m.agents[d]],
                  !.served = Served(k, ranked, LastSeenIn(m))]

\* fit_liveness: rooms are never dropped, and as sizes may go up and down
\* with the length of a run the run found is tried before it is taken.
FitLiveness(m, fitting) ==
    LET ranked == Ranked(LastSeenIn(m))
    IN  Max({0} \cup {k \in fitting \cap 1..LargestFit(Len(ranked), fitting) :
                         Boundary(k, ranked, LastSeenIn(m)) = k})

FitFull(m, maxBytes) ==
    LET k == FitLiveness(m, {j \in 1..Cardinality(DOMAIN m.agents) :
                               FullSize(FullObj(Keep(m, j))) <= maxBytes})
    IN  IF FullSize(FullObj(m)) <= maxBytes THEN FullObj(m)
        ELSE IF k = 0 THEN NoFile ELSE FullObj(Keep(m, k))

FitCompactMap(m, maxBytes) ==
    LET k == FitLiveness(m, {j \in 1..Cardinality(DOMAIN m.agents) :
                               CompactMapSize(CompactMap(Keep(m, j))) <= maxBytes})
    IN  IF CompactMapSize(CompactMap(m)) <= maxBytes THEN CompactMap(m)
        ELSE IF k = 0 THEN NoFile ELSE CompactMap(Keep(m, k))

----------------------------------------------------------------------------
(* The fail-closed loaders.                                                *)

WindowFieldsOk(a) ==
    /\ a.outside >= 0
    /\ a.served # NoServed => a.served.kept >= 1 /\ a.served.kept = Cardinality(DOMAIN a.agents)

RoomsOk(a) ==
    \A r \in DOMAIN a.rooms :
       /\ ValidFacts(a.rooms[r].window) /\ ValidFacts(a.rooms[r].allTime)
       /\ ValidVerdict(a.rooms[r].verdict)

AgentsOk(a) ==
    \A d \in DOMAIN a.agents :
       ValidSignals(a.agents[d].signals) /\ ValidAgentVerdict(a.agents[d].verdict)

\* LivenessMap.__post_init__
ValidMap(a) ==
    /\ \A n \in {a.signedRows, a.ledgerDids, a.notInLedger} : n >= 0
    /\ a.signedRows <= a.logRows

FullLoads(a, maxBytes) ==
    /\ FullSize(a) <= maxBytes
    /\ RoomsOk(a) /\ AgentsOk(a) /\ WindowFieldsOk(a) /\ ValidMap(a)
    /\ a.counts = CountsObj(a.rooms, Tiers(a.agents))
    /\ a.served # NoServed =>
         \A d \in DOMAIN a.agents : a.agents[d].signals.lastSeen >= a.served.cutoff

CompactMapLoads(a, maxBytes) ==
    /\ CompactMapSize(a) <= maxBytes
    /\ RoomsOk(a) /\ WindowFieldsOk(a)
    /\ \A d \in DOMAIN a.agents : ValidCompactAgent(a.agents[d])
    /\ a.counts = CountsObj(a.rooms, CompactTiers(a.agents))
=============================================================================
