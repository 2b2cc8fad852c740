----------------------------- MODULE AgentTiers -----------------------------
(***************************************************************************)
(* How a DID is judged: liveness/agents.py.  Its signals are counted over  *)
(* every row of the rooms read, beside what the reputation ledger says of  *)
(* it, and its tier is the sum of the points of the markers that fire.     *)
(***************************************************************************)
EXTENDS RoomClasses, ReputationLedger

CONSTANTS
    Points,               \* AGENT_POINTS: marker -> points
    NegativeMarkers,      \* NEGATIVE_MARKERS
    Several, Many,        \* the 3 and the 5 of the points table
    GithubRoom            \* GITHUB_CONTRIB_ROOM

----------------------------------------------------------------------------
\* rows are those of every room, signed or not; classes is room -> class.
AgentSignals(rows, ledger, classes, now) ==
    LET InRoom(room) == {r \in rows : r.room = room}
        roomsRead == {r.room : r \in rows}
        posters == SendersOf({r \in rows : r.signed})
        Targets(r) == ReplyTargets(r.sender, r.text, SendersOf(rows))
        cycles == [room \in roomsRead |-> WorkCycles({r \in InRoom(room) : r.signed})]
        SignalsOf(did) ==
            LET own == {r \in rows : r.signed /\ r.sender = did}
                inRooms == {r.room : r \in own}
                toIt == {r \in rows : did \in Targets(r)}
                entry == ledger.rows[did]
            IN  [posts        |-> Cardinality(own),
                 unsigned     |-> Cardinality({r \in rows : ~r.signed /\ r.sender = did}),
                 rooms        |-> [room \in inRooms |-> Cardinality(own \cap InRoom(room))],
                 liveRooms    |-> Cardinality({room \in inRooms :
                                     room \in DOMAIN classes /\ classes[room] \in {"live", "mixed"}}),
                 replyOut     |-> Cardinality({r \in own : Targets(r) # {}}),
                 replyIn      |-> Cardinality(toIt),
                 replyFrom    |-> Cardinality(SendersOf(toIt)),
                 replyFromNonBurst |-> Cardinality({s \in SendersOf(toIt) \cap DOMAIN ledger.rows :
                                           ~ledger.rows[s].score.burst}),
                 ratio        |-> Rounded(Cardinality(TextsOf(own)), Cardinality(own)),
                 templateRows |-> Cardinality({r \in own : IsTemplate(r.text, InRoom(r.room))}),
                 faucetRows   |-> Cardinality({r \in own : Attr[r.text].faucet}),
                 cycles       |-> SumFunction([room \in roomsRead |->
                                     Cardinality({j \in DOMAIN cycles[room] : did \in cycles[room][j]})]),
                 githubRows   |-> Cardinality(own \cap InRoom(GithubRoom)),
                 note         |-> entry.facts.login # NoLogin,
                 burst        |-> entry.score.burst,
                 age          |-> Max({0, now - entry.facts.firstSeen.ts}),
                 lastSeen     |-> entry.facts.lastSeen]
    IN  [of          |-> [did \in posters \cap DOMAIN ledger.rows |-> SignalsOf(did)],
         notInLedger |-> Cardinality(posters \ DOMAIN ledger.rows)]

----------------------------------------------------------------------------
\* The points table: the markers that fire, read from the counts that the
\* compact artifact shows too.
Fires(marker, s) ==
    CASE marker = "work_cycles_ge_1" -> s.cycles >= 1
      [] marker = "work_cycles_ge_5" -> s.cycles >= Many
      [] marker = "reply_in_nonburst_ge_1" -> s.replyFromNonBurst >= 1
      [] marker = "reply_in_nonburst_ge_3" -> s.replyFromNonBurst >= Several
      [] marker = "reply_out_ge_1" -> s.replyOut >= 1
      [] marker = "reply_out_ge_5" -> s.replyOut >= Many
      [] marker = "github_contrib_ge_1" -> s.githubRows >= 1
      [] marker = "live_rooms_ge_2" -> s.liveRooms >= 2
      [] marker = "did_note_present" -> s.note
      [] marker = "distinct_ge_0_8_and_posts_ge_3" -> 10 * s.ratio >= 8 * Unit /\ s.posts >= Several
      [] marker = "age_ge_7d" -> s.age >= 7 * Day
      [] marker = "faucet_onboarding_majority" -> 2 * s.faucetRows >= s.posts /\ s.faucetRows > 0
      [] marker = "template_majority_and_posts_ge_3" ->
            s.posts >= Several /\ 2 * s.templateRows >= s.posts /\ s.templateRows > 0
      [] marker = "one_line" -> s.posts = 1

Used(s) == {marker \in DOMAIN Points : Fires(marker, s)}
PointsFor(used) == MapThenSumSet(LAMBDA marker : Points[marker], used)
PointsOf(s) == PointsFor(Used(s))

\* The tier of a DID that is no burst member.
TierFromPoints(s) ==
    IF \/ s.posts < Bar.agentPosts /\ Used(s) \cap NegativeMarkers \subseteq {"one_line"}
       \/ Used(s) = {}
      THEN "unknown"
    ELSE IF PointsOf(s) >= Bar.tierLive THEN "live"
    ELSE IF PointsOf(s) >= Bar.tierLikely THEN "likely_live"
    ELSE IF PointsOf(s) >= Bar.tierWeak THEN "weak"
    ELSE "farm"

ClassifyAgent(s) ==
    [tier   |-> IF s.burst THEN "farm" ELSE TierFromPoints(s),
     points |-> PointsOf(s),
     used   |-> Used(s)]

\* The array with two of its counts in each other's place.
CompactAgentSwapped(s, v) ==
    [tier |-> v.tier, points |-> v.points, rooms |-> Cardinality(DOMAIN s.rooms),
     liveRooms |-> s.liveRooms, replyIn |-> s.replyFromNonBurst, replyFromNonBurst |-> s.replyIn,
     replyOut |-> s.replyOut, cycles |-> s.cycles, templateRows |-> s.templateRows,
     faucetRows |-> s.faucetRows, githubRows |-> s.githubRows, note |-> s.note,
     posts |-> s.posts, unsigned |-> s.unsigned, ratio |-> s.ratio, age |-> s.age]

\* agent_signals_to_compact_array: the 16 values of the compact artifact.
CompactAgent(s, v) ==
    [tier |-> v.tier, points |-> v.points, rooms |-> Cardinality(DOMAIN s.rooms),
     liveRooms |-> s.liveRooms, replyIn |-> s.replyIn, replyFromNonBurst |-> s.replyFromNonBurst,
     replyOut |-> s.replyOut, cycles |-> s.cycles, templateRows |-> s.templateRows,
     faucetRows |-> s.faucetRows, githubRows |-> s.githubRows, note |-> s.note,
     posts |-> s.posts, unsigned |-> s.unsigned, ratio |-> s.ratio, age |-> s.age]

\* What AgentSignals, AgentVerdict and CompactAgentEntry check.
ValidSignals(s) ==
    /\ s.posts >= 1
    /\ s.replyFromNonBurst <= s.replyFrom /\ s.replyFrom <= s.replyIn
    /\ s.liveRooms <= Cardinality(DOMAIN s.rooms)
    /\ SumFunction(s.rooms) = s.posts
    /\ s.ratio \in 0..Unit /\ s.age >= 0

TierNames == {"unknown", "farm", "weak", "likely_live", "live"}

ValidAgentVerdict(v) ==
    /\ v.tier \in TierNames
    /\ v.points = PointsFor(v.used)

ValidCompactAgent(e) == e.tier \in TierNames /\ e.ratio >= 0 /\ e.age >= 0
=============================================================================
