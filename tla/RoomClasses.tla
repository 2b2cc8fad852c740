---------------------------- MODULE RoomClasses ----------------------------
(***************************************************************************)
(* How a room of the message log is classified: liveness/rooms.py.  The    *)
(* facts of a room are counted over a set of its rows, once for the window *)
(* and once for all time, and the class is read from a table of both.      *)
(***************************************************************************)
EXTENDS MessageText

CONSTANTS
    Bar,                  \* the thresholds of signals.py, a record
    Bucket,               \* the 300 seconds of rows_per_5min
    Hour                  \* span_hours is kept in tenths of an hour

NoShare == -1             \* burst_sender_share is None

----------------------------------------------------------------------------
EmptyFacts(gaps) ==
    [rows |-> 0, signedRows |-> 0, senders |-> 0, texts |-> 0, ratio |-> 0, topShare |-> 0,
     oneLineShare |-> 0, replyRows |-> 0, replySenders |-> 0, replyShare |-> 0,
     templateRows |-> 0, templateShare |-> 0, faucetRows |-> 0, faucetShare |-> 0,
     cycleRows |-> 0, cycles |-> 0, p95 |-> 0, fullest |-> 0, gaps |-> gaps,
     burstShare |-> NoShare, span |-> 0]

RoomFacts(rows, burstDids, gaps) ==
    LET n == Cardinality(rows)
        senders == SendersOf(rows)
        signers == SendersOf({r \in rows : r.signed})
        Of(s) == {r \in rows : r.sender = s}
        Share(dids) == Rounded(Cardinality(dids), Cardinality(senders))
        replies == {r \in rows : Attr[r.text].re \/ ReplyTargets(r.sender, r.text, senders) # {}}
        templates == {r \in rows : IsTemplate(r.text, rows)}
        faucets == {r \in rows : ~IsKibble(r.text) /\ Attr[r.text].faucet}
        MostlyIn(some) == {s \in senders : 2 * Cardinality(Of(s) \cap some) >= Cardinality(Of(s))}
        perBucket == [b \in {r.ts \div Bucket : r \in rows} |->
                        Cardinality({r \in rows : r.ts \div Bucket = b})]
        buckets == SetToSeq(DOMAIN perBucket)
        ordered == BySeq(rows)
    IN  IF rows = {} THEN EmptyFacts(gaps) ELSE
        [rows         |-> n,
         signedRows   |-> Cardinality({r \in rows : r.signed}),
         senders      |-> Cardinality(senders),
         texts        |-> Cardinality(TextsOf(rows)),
         ratio        |-> Rounded(Cardinality(TextsOf(rows)), n),
         topShare     |-> Rounded(Max({Cardinality(Of(s)) : s \in senders}), n),
         oneLineShare |-> Share({s \in senders : Cardinality(Of(s)) = 1}),
         replyRows    |-> Cardinality(replies),
         replySenders |-> Cardinality(SendersOf(replies)),
         replyShare   |-> Share(SendersOf(replies)),
         templateRows |-> Cardinality(templates),
         templateShare |-> Share(MostlyIn(templates)),
         faucetRows   |-> Cardinality(faucets),
         faucetShare  |-> Share(MostlyIn(faucets)),
         cycleRows    |-> Cardinality({r \in rows : IsKibble(r.text)}),
         cycles       |-> Cardinality(DOMAIN WorkCycles(rows)),
         p95          |-> P95([i \in DOMAIN buckets |-> perBucket[buckets[i]]]),
         fullest      |-> Max({perBucket[b] : b \in DOMAIN perBucket}),
         gaps         |-> gaps,
         burstShare   |-> IF signers = {} THEN NoShare
                            ELSE Rounded(Cardinality(signers \cap burstDids), Cardinality(signers)),
         \* rounded like span_hours: a rounded-off negative is no negative
         span         |-> (20 * (ordered[n].ts - ordered[1].ts) + Hour) \div (2 * Hour)]

\* The conditions RoomFacts checks that its counts do not give by themselves.
ValidFacts(f) == f.span >= 0

----------------------------------------------------------------------------
FarmSignal(f) ==
    /\ f.senders >= Bar.farmSenders
    /\ \/ f.oneLineShare >= Bar.farmOneLine
       \/ f.templateShare >= Bar.farmTemplate
       \/ f.faucetShare >= Bar.farmFaucet
       \/ f.burstShare # NoShare /\ f.burstShare >= Bar.farmBurst

LiveSignal(f) ==
    \/ f.cycles >= Bar.liveCycles
    \/ f.replySenders >= Bar.liveReplySenders /\ f.replyShare >= Bar.liveReplyShare

FloodSignal(f) == f.p95 >= Bar.floodP95

Signals(f) == [farm |-> FarmSignal(f), live |-> LiveSignal(f), flood |-> FloodSignal(f)]

ClassFromTable(f, s) ==
    IF f.rows < Bar.roomRows \/ f.senders < Bar.roomSenders THEN "unknown"
    ELSE IF s.flood THEN "flood"
    ELSE IF s.farm /\ s.live THEN "mixed"
    ELSE IF s.farm THEN "farm"
    ELSE IF s.live THEN "live"
    ELSE "quiet"

RoomClassNames == {"unknown", "flood", "mixed", "farm", "live", "quiet"}
ValidVerdict(v) == v.class \in RoomClassNames /\ v.classAll \in RoomClassNames

\* The facts the table looks at, as they are shown with the verdict.
DecidedOn(f) ==
    [rows |-> f.rows, senders |-> f.senders, p95 |-> f.p95, oneLineShare |-> f.oneLineShare,
     templateShare |-> f.templateShare, faucetShare |-> f.faucetShare, burstShare |-> f.burstShare,
     cycles |-> f.cycles, replySenders |-> f.replySenders, replyShare |-> f.replyShare]

\* A room that fell silent keeps the standing of its history, as "quiet".
ClassifyRoom(window, allTime) ==
    LET class == ClassFromTable(window, Signals(window))
        classAll == ClassFromTable(allTime, Signals(allTime))
        fallback == class = "unknown" /\ classAll \in {"live", "mixed", "quiet"}
    IN  [class     |-> IF fallback THEN "quiet" ELSE class,
         classAll  |-> classAll,
         signals   |-> Signals(window),
         decidedOn |-> DecidedOn(window),
         fallback  |-> fallback]
=============================================================================
