--------------------------- MODULE MCOperatorJobs ---------------------------
(* A small log root: two rooms, four DIDs, messages of every kind that the *)
(* builds tell apart, and thresholds scaled down to them.                  *)
EXTENDS OperatorJobs

Plain == [norm |-> "gm", mask |-> "gm", stage |-> "none", job |-> 0, faucet |-> FALSE, re |-> FALSE,
          dids |-> {}, at |-> {}, abbr |-> {}, ell |-> {}]
Kibble(stage) == [Plain EXCEPT !.norm = stage, !.mask = stage, !.stage = stage, !.job = 1]

MCAttr ==
    "gm"     :> Plain
 @@ "gm2"    :> [Plain EXCEPT !.norm = "gm2"]
 @@ "at1"    :> [Plain EXCEPT !.norm = "at1", !.mask = "hello", !.at = {"8a"}]
 @@ "abbr"   :> [Plain EXCEPT !.norm = "abbr", !.mask = "abbr", !.abbr = {"4b"}]
 @@ "full2"  :> [Plain EXCEPT !.norm = "full2", !.mask = "full", !.dids = {2, 9}, !.re = TRUE]
 @@ "faucet" :> [Plain EXCEPT !.norm = "faucet", !.mask = "faucet", !.faucet = TRUE]
 @@ "job"    :> Kibble("JOB")
 @@ "claim"  :> Kibble("CLAIM")
 @@ "result" :> Kibble("RESULT")
 @@ "attest" :> Kibble("ATTEST")

\* DIDs 2 and 3 share their last four characters.
MCSuffix8 == 1 :> "8a" @@ 2 :> "8b" @@ 3 :> "8c" @@ 4 :> "8d"
MCSuffix4 == 1 :> "4a" @@ 2 :> "4b" @@ 3 :> "4b" @@ 4 :> "4d"

MCBar == [roomRows |-> 2, roomSenders |-> 2, floodP95 |-> 3, farmSenders |-> 2, farmOneLine |-> 75,
          farmTemplate |-> 50, farmFaucet |-> 50, farmBurst |-> 50, liveReplySenders |-> 1,
          liveReplyShare |-> 5, liveCycles |-> 1, agentPosts |-> 2, tierLive |-> 6, tierLikely |-> 3,
          tierWeak |-> 1]

MCPoints ==
    "work_cycles_ge_1" :> 3 @@ "work_cycles_ge_5" :> 1 @@ "reply_in_nonburst_ge_1" :> 2
 @@ "reply_in_nonburst_ge_3" :> 1 @@ "reply_out_ge_1" :> 2 @@ "reply_out_ge_5" :> 1
 @@ "github_contrib_ge_1" :> 2 @@ "live_rooms_ge_2" :> 1 @@ "did_note_present" :> 1
 @@ "distinct_ge_0_8_and_posts_ge_3" :> 1 @@ "age_ge_7d" :> 1 @@ "faucet_onboarding_majority" :> -3
 @@ "template_majority_and_posts_ge_3" :> -3 @@ "one_line" :> -2

MCNegative == {"faucet_onboarding_majority", "template_majority_and_posts_ge_3", "one_line"}

Line(seq, ts, sender, text, signed) ==
    [seq |-> seq, ts |-> ts, sender |-> sender, text |-> text, signed |-> signed, parses |-> "yes"]

\* A quiet pair, a burst of three, a completed job, and a room whose first
\* line is dated after its last, beside a room with nothing to tell.
MCInitLogs ==
    {<< <<Line(1, 1, 1, "gm", TRUE), Line(2, 2, 2, "at1", TRUE)>>,
        <<Line(1, 3, 2, "gm2", TRUE), Line(2, 9, 1, "full2", TRUE)>> >>,
     << <<Line(1, 5, 2, "at1", TRUE), Line(2, 5, 3, "at1", TRUE), Line(4, 6, 4, "at1", FALSE)>>,
        <<Line(3, 5, 4, "abbr", TRUE), Line(5, 9, 1, "gm", TRUE), Line(6, 20, 1, "abbr", TRUE)>> >>,
     << <<Line(1, 1, 1, "job", TRUE), Line(2, 1, 2, "claim", TRUE), Line(3, 2, 2, "result", TRUE),
          Line(4, 9, 1, "attest", TRUE)>>,
        <<Line(1, 9, 4, "faucet", TRUE), Line(2, 11, 4, "faucet", TRUE)>> >>,
     << <<Line(1, 30, 4, "faucet", TRUE), Line(2, 2, 4, "gm", TRUE)>>,
        <<Line(1, 12, 2, "gm", TRUE), Line(2, 18, 2, "job", TRUE), Line(3, 24, 3, "abbr", TRUE),
          Line(4, 29, 3, "claim", TRUE)>> >>}

MCFeed ==
    {[text |-> "full2", sender |-> 3, signed |-> TRUE, parses |-> "yes", lost |-> 1, later |-> 0],
     [text |-> "gm2", sender |-> 1, signed |-> FALSE, parses |-> "no_ts", lost |-> 0, later |-> 1],
     [text |-> "at1", sender |-> 4, signed |-> TRUE, parses |-> "yes", lost |-> 0, later |-> 12],
     [text |-> "gm", sender |-> 4, signed |-> TRUE, parses |-> "no", lost |-> 0, later |-> 0]}

MCDirectory ==
    <<[id |-> 1, private |-> FALSE, count |-> 9, sampled |-> 3],
      [id |-> 3, private |-> FALSE, count |-> 4, sampled |-> 3],
      [id |-> 4, private |-> TRUE, count |-> 8, sampled |-> 3],
      [id |-> 5, private |-> FALSE, count |-> 4, sampled |-> 3],
      [id |-> 6, private |-> FALSE, count |-> -1, sampled |-> 3]>>

MCNotes ==
    <<[ok |-> TRUE, did |-> 1, login |-> "one", author |-> 1],
      [ok |-> TRUE, did |-> 2, login |-> "two", author |-> 3]>>

Wide == [now |-> 0, rooms |-> {1, 2, 7}, notes |-> MCNotes, window |-> 1, minNew |-> 3, perMinute |-> 3,
         maxLedger |-> 500, maxShard |-> 100, maxCompact |-> 500, publishes |-> TRUE, span |-> 30,
         maxMap |-> 500, maxCompactMap |-> 500, exclude |-> {}, maxLexical |-> 100,
         maxLexicalAlone |-> 100]

\* Everything fits; and tight limits: a week that is split, artifacts cut.
MCOptionSets ==
    {Wide,
     [Wide EXCEPT !.maxShard = 25, !.maxCompact = 41, !.maxMap = 60, !.maxCompactMap = 37,
                  !.span = 12, !.exclude = {2}, !.minNew = 2, !.perMinute = 2, !.maxLexical = 25],
     [Wide EXCEPT !.rooms = {2, 7}, !.publishes = FALSE, !.maxCompactMap = 30,
                  !.maxLexicalAlone = 25]}

Entry(url, kind, status, chunks) ==
    [source_url |-> url, source_kind |-> kind, status |-> status, chunk_count |-> chunks]

\* Documents 1 to 4, a term that most of them have, and a URL whose fragment
\* is a word of the text behind another one.
MCWords ==
    1 :> ("agent" :> 2 @@ "offer" :> 1) @@ 2 :> ("agent" :> 1 @@ "price" :> 1)
 @@ 3 :> ("agent" :> 1 @@ "room" :> 3) @@ 4 :> ("price" :> 2)

MCUrlWords == 1 :> EmptyBag @@ 2 :> ("room" :> 1)

\* Grows with the term frequency, shrinks with the document frequency and
\* with the length of the document.
MCWeight(n, df, tf, len, total) == (100 * tf * (2 * n + 1 - df)) \div (df * (tf + len))

MCInitStore ==
    [rows |-> 1 :> Entry(1, 2, "indexed", 1) @@ 2 :> Entry(2, 1, "indexed", 2)
              @@ 4 :> Entry(1, 1, "failed", 0),
     db |-> 1, extracted |-> {1, 4}]

MCChanges ==
    {[what |-> "row", doc |-> 3, row |-> Entry(1, 1, "indexed", 1)],
     [what |-> "row", doc |-> 4, row |-> Entry(2, 1, "indexed", 1)],
     [what |-> "row", doc |-> 2, row |-> Entry(2, 1, "failed", 2)],
     [what |-> "record", doc |-> 2], [what |-> "record", doc |-> 3]}

MCMaxPolls == "ledger" :> 1 @@ "liveness" :> 1 @@ "snapshot" :> 1 @@ "static" :> 2

\* Three builds reach a swap that finds what a killed one has left.
MCMaxJobs == "ledger" :> 3 @@ "liveness" :> 2 @@ "snapshot" :> 2 @@ "static" :> 2
=============================================================================
