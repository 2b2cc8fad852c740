------------------------- MODULE ReputationLedger -------------------------
(***************************************************************************)
(* The DID reputation ledger and its three published forms, as functions   *)
(* of a message log: reputation/score.py, ledger.py, compact.py and the    *)
(* pure part of shards.py.  Bytes are counted, never spelled out: a row    *)
(* takes RowBytes and one for each mention in it.  A hash is the content   *)
(* it stands for.                                                          *)
(***************************************************************************)
EXTENDS DidFacts, Fitting

CONSTANTS
    MaxAge,               \* DEFAULT_MAX_AGE_DAYS
    Day, Week,            \* the lengths of the two shard periods
    RowBytes, BurstBytes, HeaderBytes, ServedBytes

----------------------------------------------------------------------------
(* score.py                                                                *)

NoFile == [none |-> TRUE]

\* The count without its filter.
InboundFromAnyone(facts, all, perMinute) ==
    Cardinality(DOMAIN facts.inbound \cap DOMAIN all)

InboundFromNonBurst(facts, all, perMinute) ==
    Cardinality({from \in DOMAIN facts.inbound \cap DOMAIN all :
                    ~IsBurstMember(all[from], perMinute)})

ScoreFromFacts(used) ==
    IF used.burst THEN 0 ELSE used.age * used.ratio * (1 + used.inbound)

ScoreDid(facts, all, now, perMinute) ==
    LET used == [age     |-> Max({0, Min({now - facts.firstSeen.ts, MaxAge})}),
                 ratio   |-> Rounded(facts.texts, facts.posts),
                 inbound |-> InboundFromNonBurst(facts, all, perMinute),
                 burst   |-> IsBurstMember(facts, perMinute),
                 posts   |-> facts.posts]
    IN  [did |-> facts.did, score |-> ScoreFromFacts(used), burst |-> used.burst, used |-> used]

ValidScore(s) == s.burst => s.score = 0

----------------------------------------------------------------------------
(* ledger.py.  opts are the options of reputation.build: now, rooms, notes, *)
(* window, minNew, perMinute and the three size limits.                    *)

BuildLedger(log, opts) ==
    LET facts == BuildFacts(LoadPosts(log, opts.rooms), LoadDidNotes(opts.notes),
                           opts.window, opts.minNew)
        report == LoadReport(log, opts.rooms)
    IN  [generatedAt |-> opts.now,
         logRows     |-> report.rows,
         posts       |-> report.posts,
         dids        |-> Cardinality(DOMAIN facts),
         bursts      |-> Cardinality({facts[d].burstId : d \in DOMAIN facts} \ {NoBurst}),
         rows        |-> [d \in DOMAIN facts |->
                            [facts |-> facts[d],
                             score |-> ScoreDid(facts[d], facts, opts.now, opts.perMinute)]]]

HeaderOf(ledger) == [f \in {"generatedAt", "logRows", "posts", "dids", "bursts"} |-> ledger[f]]

ValidRow(row) ==
    /\ row.facts.did = row.score.did
    /\ ValidDidFacts(row.facts)
    /\ ValidScore(row.score)

Counts(h) == h.posts <= h.logRows /\ h.dids <= h.posts /\ h.bursts <= h.dids

RowSize(row) ==
    RowBytes + Cardinality(row.facts.outbound) + Cardinality(DOMAIN row.facts.inbound)

\* The file: a header line and the rows in the order of their DIDs.
ToJsonl(ledger) ==
    LET dids == SortedNumbers(DOMAIN ledger.rows)
    IN  [header |-> HeaderOf(ledger),
         lines  |-> [i \in DOMAIN dids |-> ledger.rows[dids[i]]]]

LedgerSize(file) ==
    HeaderBytes + FoldLeft(LAMBDA n, row : n + RowSize(row), 0, file.lines)

LineDid(row) == row.facts.did

\* load_ledger accepts the file.
LedgerLoads(file, maxBytes) ==
    /\ LedgerSize(file) <= maxBytes
    /\ \A i \in DOMAIN file.lines : ValidRow(file.lines[i])
    /\ \A i, j \in DOMAIN file.lines : i < j => LineDid(file.lines[i]) < LineDid(file.lines[j])
    /\ file.header.dids = Len(file.lines)
    /\ Counts(file.header)

RowsOfFile(file) ==
    [did \in {LineDid(row) : row \in Range(file.lines)} |->
       CHOOSE row \in Range(file.lines) : LineDid(row) = did]

\* load_ledger's value; lookup is application of its rows.
LoadLedger(file) ==
    [generatedAt |-> file.header.generatedAt, logRows |-> file.header.logRows,
     posts |-> file.header.posts, dids |-> file.header.dids, bursts |-> file.header.bursts,
     rows |-> RowsOfFile(file)]

----------------------------------------------------------------------------
(* compact.py                                                              *)

BurstRecord(row) ==
    [burstId |-> row.facts.burstId, firstSeen |-> row.facts.firstSeen.ts,
     posts |-> row.facts.posts, perMinute |-> row.facts.perMinute]

ValidBurst(r) ==
    /\ r.burstId = NoBurst \/ r.burstId >= 0
    /\ r.posts >= 0 /\ r.perMinute >= 0

\* _compact_obj: the rows of dids, each in one of the two maps.
CompactObj(ledger, dids, served) ==
    LET burst == {d \in dids : ledger.rows[d].score.burst}
    IN  [header   |-> HeaderOf(ledger),
         nonBurst |-> [d \in dids \ burst |-> ledger.rows[d]],
         burst    |-> [d \in burst |-> BurstRecord(ledger.rows[d])],
         served   |-> served]

Commas(n) == Max({n - 1, 0})

CompactSize(a) ==
    HeaderBytes + (IF a.served = NoServed THEN 0 ELSE ServedBytes)
      + SumFunction([d \in DOMAIN a.nonBurst |-> RowSize(a.nonBurst[d])])
      + BurstBytes * Cardinality(DOMAIN a.burst)
      + Commas(Cardinality(DOMAIN a.nonBurst)) + Commas(Cardinality(DOMAIN a.burst))

LastSeenOf(ledger) == [d \in DOMAIN ledger.rows |-> ledger.rows[d].facts.lastSeen]

\* _fit: everything, or the longest prefix that splits no tie, or nothing
\* when that is empty (CompactLedgerSizeError).
FitCompact(ledger, maxBytes) ==
    LET full == CompactObj(ledger, DOMAIN ledger.rows, NoServed)
        lastSeen == LastSeenOf(ledger)
        ranked == Ranked(lastSeen)
        Prefix(k) == CompactObj(ledger, Newest(k, ranked), Served(k, ranked, lastSeen))
        fitting == {n \in DOMAIN ranked : CompactSize(Prefix(n)) <= maxBytes}
        k == Boundary(LargestFit(Len(ranked), fitting), ranked, lastSeen)
    IN  IF CompactSize(full) <= maxBytes THEN full ELSE IF k = 0 THEN NoFile ELSE Prefix(k)

\* CompactLedger.__post_init__: no DID in both maps, none missing and, in a
\* fitted artifact, none from before its cutoff.
CompactHolds(a) ==
    LET held == Cardinality(DOMAIN a.nonBurst) + Cardinality(DOMAIN a.burst)
    IN  /\ Counts(a.header)
        /\ DOMAIN a.nonBurst \cap DOMAIN a.burst = {}
        /\ \A d \in DOMAIN a.nonBurst : a.nonBurst[d].facts.did = d
        /\ IF a.served = NoServed
             THEN held = a.header.dids
             ELSE /\ held = a.served.kept
                  /\ a.served.kept < a.header.dids
                  /\ \A d \in DOMAIN a.nonBurst : a.nonBurst[d].facts.lastSeen >= a.served.cutoff

\* load_compact_ledger accepts the artifact.
CompactLoads(a, maxBytes) ==
    /\ CompactSize(a) <= maxBytes
    /\ \A d \in DOMAIN a.nonBurst : ValidRow(a.nonBurst[d])
    /\ \A d \in DOMAIN a.burst : ValidBurst(a.burst[d])
    /\ CompactHolds(a)

\* The body that answers /did/{did}; burst members have no facts in it, and
\* their facts_used is rebuilt from their record.
Lookup(a, did) ==
    IF did \in DOMAIN a.nonBurst
      THEN [found |-> TRUE, burst |-> FALSE, score |-> a.nonBurst[did].score.score,
            used |-> a.nonBurst[did].score.used, facts |-> a.nonBurst[did].facts,
            served |-> a.served]
    ELSE IF did \in DOMAIN a.burst
      THEN [found |-> TRUE, burst |-> TRUE, score |-> 0, record |-> a.burst[did],
            served |-> a.served]
    ELSE [found |-> FALSE, served |-> a.served]

----------------------------------------------------------------------------
(* shards.py: the ledger as one file for each week of first posts, a week  *)
(* that is too large as one file for each of its days.                     *)

Lines(file) == DOMAIN file.lines
ShardOf(kind, row) ==
    <<kind, row.facts.firstSeen.ts \div (IF kind = "week" THEN Week ELSE Day)>>
Members(file, key) == {i \in Lines(file) : ShardOf(key[1], file.lines[i]) = key}
ShardFits(file, key, maxBytes) ==
    MapThenSumSet(LAMBDA i : RowSize(file.lines[i]), Members(file, key)) <= maxBytes

WeeksAndDays(file, maxBytes) ==
    LET weeks == {ShardOf("week", file.lines[i]) : i \in Lines(file)}
        DaysOf(week) == {ShardOf("day", file.lines[i]) : i \in Members(file, week)}
    IN  UNION {IF ShardFits(file, w, maxBytes) THEN {w} ELSE DaysOf(w) : w \in weeks}

\* The files and the index, which records the hash of each and of the whole;
\* no directory when a single day is too large (ShardSizeError).
SplitLedger(file, maxBytes) ==
    LET keys == WeeksAndDays(file, maxBytes)
        content == [k \in keys |-> [n \in 1..Cardinality(Members(file, k)) |->
                       file.lines[SetToSortSeq(Members(file, k), <)[n]]]]
    IN  IF \E k \in keys : ~ShardFits(file, k, maxBytes)
          THEN NoFile
          ELSE [index |-> [header |-> file.header, ledger |-> file, shards |-> content],
                files |-> content]

Joined(index) ==
    LET rows == UNION {Range(index.shards[k]) : k \in DOMAIN index.shards}
    IN  [header |-> index.header,
         lines  |-> SetToSortSeq(rows, LAMBDA a, b : LineDid(a) < LineDid(b))]

\* join_shards: the files are those of the index, and they give the ledger
\* whose hash it records.
JoinShards(index, files) ==
    IF files = index.shards /\ Joined(index) = index.ledger THEN Joined(index) ELSE NoFile
=============================================================================
