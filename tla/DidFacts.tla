----------------------------- MODULE DidFacts -----------------------------
(***************************************************************************)
(* What the message log says of every DID: reputation/facts.py and the     *)
(* self-authored notes of reputation/notes.py.  A log is a function from   *)
(* rooms, numbered in the order of their names, to the lines of            *)
(* messages/<room>.jsonl, records with seq, ts, sender, text, signed and   *)
(* parses, which is "yes", "no_ts" (a row whose ts is no timestamp) or     *)
(* "no" (not a row).  seq grows along a file, as MessageLog shows.         *)
(***************************************************************************)
EXTENDS MessageText, Ordering

CONSTANTS
    RateWindow            \* _RATE_WINDOW_S

NoBurst == -1             \* burst_id is None
NoLogin == ""             \* github_login is None

----------------------------------------------------------------------------
(* load_posts: rooms without a file yield no rows.                         *)

LinesOf(log, scope) ==
    UNION {{[room |-> room, i |-> i] : i \in DOMAIN log[room]} : room \in scope \cap DOMAIN log}

RowAt(log, at) ==
    LET l == log[at.room][at.i]
    IN  [room |-> at.room, seq |-> l.seq, ts |-> l.ts, sender |-> l.sender,
         text |-> l.text, signed |-> l.signed]

LoadPosts(log, scope) ==
    {RowAt(log, at) : at \in {a \in LinesOf(log, scope) :
        log[a.room][a.i].parses = "yes" /\ log[a.room][a.i].signed}}

LoadReport(log, scope) ==
    LET lines == LinesOf(log, scope)
        Parsed(at) == log[at.room][at.i].parses = "yes"
    IN  [rows      |-> Cardinality(lines),
         posts     |-> Cardinality(LoadPosts(log, scope)),
         malformed |-> Cardinality({at \in lines : ~Parsed(at)}),
         unsigned  |-> Cardinality({at \in lines : Parsed(at) /\ ~log[at.room][at.i].signed})]

\* load_did_notes: a sequence of lines with ok, did, login and author; the
\* last line a DID wrote about itself is the one that counts.
LoadDidNotes(lines) ==
    LET used == {i \in DOMAIN lines : lines[i].ok /\ lines[i].author = lines[i].did}
    IN  [did \in {lines[i].did : i \in used} |->
           lines[Max({i \in used : lines[i].did = did})].login]

----------------------------------------------------------------------------
PostsOf(posts, did) == {p \in posts : p.sender = did}

Earlier(p, q) ==
    \/ p.ts < q.ts
    \/ p.ts = q.ts /\ (p.room < q.room \/ (p.room = q.room /\ p.seq < q.seq))
FirstPost(posts) == CHOOSE p \in posts : \A q \in posts \ {p} : Earlier(p, q)
LastSeen(posts) == Max({p.ts : p \in posts})

\* _max_posts_per_minute: the fullest window that ends at a post.
MaxPostsPerMinute(posts) ==
    Max({Cardinality({q \in posts : q.ts \in (p.ts - RateWindow)..p.ts}) : p \in posts})

\* _group_bursts: from each DID not yet grouped, the longest run of first
\* posts within the window; it is a group if it has minNew members.
GroupBursts(firstSeen, window, minNew) ==
    LET n == Len(firstSeen)
        RunFrom(i) == {j \in i..n : firstSeen[j][1] - firstSeen[i][1] <= window}
        Scan(acc, i) ==
            IF i < acc.next \/ Cardinality(RunFrom(i)) < minNew
              THEN acc
              ELSE [next |-> Max(RunFrom(i)) + 1, groups |-> Append(acc.groups, RunFrom(i))]
        scan[i \in 0..n] ==
            IF i = 0 THEN [next |-> 1, groups |-> <<>>] ELSE Scan(scan[i - 1], i)
    IN  scan[n].groups

\* The DIDs of each burst, in the order of their burst_id.
Bursts(posts, window, minNew) ==
    LET firsts == {<<FirstPost(PostsOf(posts, d)).ts, d>> : d \in SendersOf(posts)}
        firstSeen == SortedBy(firsts, {p \in firsts \X firsts :
                        p[1][1] < p[2][1] \/ (p[1][1] = p[2][1] /\ p[1][2] < p[2][2])})
        groups == GroupBursts(firstSeen, window, minNew)
    IN  [g \in DOMAIN groups |-> {firstSeen[i][2] : i \in groups[g]}]

BurstIdOf(did, bursts) ==
    IF \E g \in DOMAIN bursts : did \in bursts[g]
      THEN (CHOOSE g \in DOMAIN bursts : did \in bursts[g]) - 1
      ELSE NoBurst

Mentions(p, known) == MentionTargets(p.text, known) \ {p.sender}

\* The DIDs that mention did, with how many of their posts do.
Inbound(posts, did, known) ==
    LET mentioning == {p \in posts : did \in Mentions(p, known)}
    IN  [from \in SendersOf(mentioning) |-> Cardinality(PostsOf(mentioning, from))]

Unresolved(posts, ambiguous) ==
    SumFunction([p \in posts |->
                   Cardinality((Attr[p.text].at \cup Attr[p.text].abbr) \cap ambiguous)])

BuildFacts(posts, notes, window, minNew) ==
    LET senders == SendersOf(posts)
        known == Known(senders)
        bursts == Bursts(posts, window, minNew)
        FactsOf(did) ==
            LET own == PostsOf(posts, did)
                first == FirstPost(own)
            IN  [did        |-> did,
                 firstSeen  |-> [ts |-> first.ts, room |-> first.room, seq |-> first.seq],
                 lastSeen   |-> LastSeen(own),
                 posts      |-> Cardinality(own),
                 rooms      |-> {p.room : p \in own},
                 texts      |-> Cardinality(TextsOf(own)),
                 outbound   |-> UNION {Mentions(p, known) : p \in own},
                 inbound    |-> Inbound(posts, did, known),
                 unresolved |-> Unresolved(own, Ambiguous(senders)),
                 login      |-> IF did \in DOMAIN notes THEN notes[did] ELSE NoLogin,
                 burstId    |-> BurstIdOf(did, bursts),
                 perMinute  |-> MaxPostsPerMinute(own)]
    IN  [did \in senders |-> FactsOf(did)]

\* DidFacts.__post_init__: what a loader makes sure of, whoever wrote the file.
ValidDidFacts(f) ==
    /\ f.posts >= 1
    /\ f.texts \in 0..f.posts
    /\ \A n \in {f.firstSeen.seq, f.unresolved, f.perMinute} : n >= 0
    /\ f.burstId = NoBurst \/ f.burstId >= 0
    /\ \A from \in DOMAIN f.inbound : f.inbound[from] >= 1

IsBurstMember(facts, perMinute) ==
    facts.burstId # NoBurst \/ facts.perMinute >= perMinute
=============================================================================
