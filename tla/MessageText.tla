---------------------------- MODULE MessageText ----------------------------
(***************************************************************************)
(* What the reputation and liveness builds read out of one message, and    *)
(* out of the messages of one room: src/openagentsearch/liveness/signals.py *)
(* and the mention patterns of reputation/facts.py.  A text is an opaque   *)
(* value; what the patterns find in it is its record in Attr:              *)
(*   norm     the text after normalize_text                                *)
(*   mask     the text after mask_text                                     *)
(*   stage    its kibble stage, "none" when it is no kibble line           *)
(*   job      the job of that line                                         *)
(*   faucet   one of FAUCET_ONBOARDING_PATTERNS matches                    *)
(*   re       it starts with "re"                                          *)
(*   dids     the full did:key tokens in it                                *)
(*   at, abbr, ell   the suffixes it mentions: "@" and 8 characters,       *)
(*            "z6Mk..", and "z6Mk" with an ellipsis                        *)
(* DIDs are numbers, in the order of the strings they stand for.           *)
(***************************************************************************)
EXTENDS Integers, Sequences, FiniteSets, SequencesExt, FiniteSetsExt

CONSTANTS
    Attr,                 \* text -> what the patterns find in it
    Suffix8, Suffix4,     \* DID -> its last 8 and its last 4 characters
    TemplateMinRepeats,   \* TEMPLATE_MIN_REPEATS
    Unit                  \* ratios are kept as multiples of 1/Unit

ASSUME AttrAssumption == \A t \in DOMAIN Attr : IsFiniteSet(Attr[t].dids)

----------------------------------------------------------------------------
(* The map from suffixes to the one DID of dids that has them; a suffix of *)
(* two DIDs is ambiguous and is in no map.                                 *)

SuffixesOf(d) == {Suffix8[d], Suffix4[d]}
Owners(s, dids) == {d \in dids : s \in SuffixesOf(d)}
AllSuffixes(dids) == UNION {SuffixesOf(d) : d \in dids}
Ambiguous(dids) == {s \in AllSuffixes(dids) : Cardinality(Owners(s, dids)) > 1}
Known(dids) == [s \in AllSuffixes(dids) \ Ambiguous(dids) |->
                  CHOOSE d \in dids : s \in SuffixesOf(d)]

Resolved(mentions, known) == {known[s] : s \in mentions \cap DOMAIN known}

\* facts.mention_targets: a full token counts whoever it names.
MentionTargets(t, known) ==
    Attr[t].dids \cup Resolved(Attr[t].at \cup Attr[t].abbr, known)

\* signals.reply_targets: only DIDs that post in scope, never the sender.
ReplyTargets(sender, t, dids) ==
    ((Attr[t].dids \cap dids)
       \cup Resolved(Attr[t].at \cup Attr[t].abbr \cup Attr[t].ell, Known(dids)))
      \ {sender}

----------------------------------------------------------------------------
(* Rows are records with room, seq, ts, sender, text and signed.            *)

Rounded(num, den) == (2 * Unit * num + den) \div (2 * den)

SendersOf(rows) == {r.sender : r \in rows}
TextsOf(rows) == {Attr[r.text].norm : r \in rows}
BySeq(rows) == SetToSortSeq(rows, LAMBDA a, b : a.seq < b.seq)

IsKibble(t) == Attr[t].stage # "none"

\* How many rows carry the masked text of t: kibble lines are not counted.
MaskedCount(t, rows) ==
    Cardinality({r \in rows : ~IsKibble(r.text) /\ Attr[r.text].mask = Attr[t].mask})

IsTemplate(t, rows) ==
    ~IsKibble(t) /\ MaskedCount(t, rows) >= TemplateMinRepeats

CycleStages == <<{"JOB"}, {"CLAIM"}, {"RESULT", "DELIVER"}, {"ATTEST"}>>

\* Whether the stages of one job, in the order of the log, contain a whole
\* cycle as a subsequence.
Completes(rows) ==
    FoldLeft(LAMBDA i, r : IF i <= Len(CycleStages) /\ Attr[r.text].stage \in CycleStages[i]
                             THEN i + 1 ELSE i,
             1, BySeq(rows)) > Len(CycleStages)

\* Job -> the signed senders of its stages other than JOB, for every job
\* with a completed cycle.
WorkCycles(rows) ==
    LET kibble == {r \in rows : IsKibble(r.text)}
        RowsOf(job) == {r \in kibble : Attr[r.text].job = job}
        jobs == {Attr[r.text].job : r \in kibble}
    IN  [job \in {j \in jobs : Completes(RowsOf(j))} |->
           {r.sender : r \in {q \in RowsOf(job) : q.signed /\ Attr[q.text].stage # "JOB"}}]

\* Nearest-rank 95th percentile of the sequence of counts, 0 if there is none.
P95(counts) ==
    LET ordered == SortSeq(counts, <)
        rank == Max({1, (95 * Len(counts) + 99) \div 100})
    IN  IF counts = <<>> THEN 0 ELSE ordered[rank]
=============================================================================
