---------------------------- MODULE StaticIndex ----------------------------
(***************************************************************************)
(* The files an operator publishes of one index: manifest.json and         *)
(* flop-surface.jsonl of pipeline/publish.py, and the lexical index of     *)
(* lexical/build.py, index.py, search.py and tokenize.py.  A text is the   *)
(* bag of its tokens, Words; a URL gives the tokens of its fragment.  An   *)
(* extracted record is there or not: its title and its abstract are the    *)
(* document's, or nothing.  What BM25 makes of the counts is Weight.       *)
(***************************************************************************)
EXTENDS Integers, Sequences, FiniteSets, SequencesExt, FiniteSetsExt, Ordering

CONSTANTS
    Words,                \* document -> the bag of the tokens of its title and text
    UrlWords,             \* source URL -> the bag of the tokens of its fragment
    Weight(_, _, _, _, _),\* documents, document frequency, term frequency, length of
                          \* the document and of all together -> the rounded score
    MaxDfPercent,         \* max_df_ratio
    MaxTerms, MaxK,       \* max_terms and _MAX_K
    MaxTokens,            \* how many tokens a text of MAX_INPUT_CHARS has at most
    LexicalBytes          \* what a lexical index takes beside its docs and postings

Table == INSTANCE Manifest WITH
             Docs <- DOMAIN Words, Urls <- DOMAIN UrlWords,
             ChunkCount <- [d \in DOMAIN Words |-> 0]

----------------------------------------------------------------------------
(* publish.py.  rows is the manifest as one read gave it; its entries have *)
(* source_url, source_kind, status and chunk_count.                        *)

Entries == [source_url : DOMAIN UrlWords, source_kind : Nat, status : Table!Statuses,
            chunk_count : Nat]

CountsFromEntries(rows) ==
    [status \in Table!Statuses |-> Cardinality({d \in DOMAIN rows : rows[d].status = status})]

KindCounts(rows) ==
    [kind \in {rows[d].source_kind : d \in DOMAIN rows} |->
       CountsFromEntries([d \in {x \in DOMAIN rows : rows[x].source_kind = kind} |-> rows[d]])]

ManifestObj(rows, db) ==
    LET entries == {<<rows[d].source_url, d, rows[d]>> : d \in DOMAIN rows}
    IN
    [db |-> db, counts |-> CountsFromEntries(rows), kinds |-> KindCounts(rows),
     documents |-> SortedBy(entries, {p \in entries \X entries :
                                        \/ p[1][1] < p[2][1]
                                        \/ p[1][1] = p[2][1] /\ p[1][2] < p[2][2]})]

\* The indexed rows by kind, URL and document.
IndexedOf(rows) ==
    LET At(d) == <<rows[d].source_kind, rows[d].source_url, d>>
        Before(a, b) == \E i \in 1..3 : a[i] < b[i] /\ \A j \in 1..(i - 1) : a[j] = b[j]
        indexed == {d \in DOMAIN rows : rows[d].status = "indexed"}
    IN  SortedBy(indexed, {p \in indexed \X indexed : Before(At(p[1]), At(p[2]))})

\* _make_abstract of what _read_extracted found; "" is no record.
NoText == 0
AbstractOf(d, extracted) == IF d \in extracted THEN d ELSE NoText

Surface(rows, extracted) ==
    LET docs == IndexedOf(rows)
    IN  [i \in DOMAIN docs |->
           [doc |-> docs[i], url |-> rows[docs[i]].source_url, kind |-> rows[docs[i]].source_kind,
            abstract |-> AbstractOf(docs[i], extracted), chunks |-> rows[docs[i]].chunk_count]]

----------------------------------------------------------------------------
(* lexical/build.py                                                        *)

TokensOf(d, url, extracted) ==
    UrlWords[url] (+) (IF d \in extracted THEN Words[d] ELSE EmptyBag)

LexicalDocs(rows, extracted) ==
    LET docs == IndexedOf(rows)
    IN  [i \in DOMAIN docs |->
           LET url == rows[docs[i]].source_url
           IN  [doc |-> docs[i], url |-> url, kind |-> rows[docs[i]].source_kind,
                abstract |-> AbstractOf(docs[i], extracted),
                tokens |-> TokensOf(docs[i], url, extracted),
                length |-> SumFunction(TokensOf(docs[i], url, extracted))]]

\* Dropped from the index: the terms of more than the share of the documents.
TooFrequent(df, n) == 100 * df > MaxDfPercent * n

\* Documents, URLs and kinds are numbers in their order; a text has finitely
\* many tokens.
ASSUME StaticAssumption ==
    /\ IsFiniteSet(DOMAIN Words) /\ DOMAIN Words \subseteq Nat /\ DOMAIN UrlWords \subseteq Nat
    /\ {MaxTerms, MaxK} \subseteq Nat \ {0} /\ {MaxDfPercent, MaxTokens, LexicalBytes} \subseteq Nat
    /\ \A d \in DOMAIN Words, url \in DOMAIN UrlWords, extracted \in {{}, DOMAIN Words} :
          LET tokens == TokensOf(d, url, extracted)
          IN  /\ IsFiniteSet(DOMAIN tokens) /\ \A t \in DOMAIN tokens : tokens[t] \in Nat \ {0}
              /\ SumFunction(tokens) <= MaxTokens

\* Six decimals are enough for the score of a term that is in the index: with
\* half of the documents as the share and the limit on the size of the file,
\* BM25 leaves none of them below 0.000001.
ASSUME WeightAssumption ==
    \A n \in 1..Cardinality(DOMAIN Words) : \A df \in 1..n :
       ~TooFrequent(df, n) =>
          \A length \in 1..MaxTokens : \A tf \in 1..length : \A total \in length..(n * MaxTokens) :
             Weight(n, df, tf, length, total) \in Nat \ {0}

Having(term, docs) == {i \in DOMAIN docs : term \in DOMAIN docs[i].tokens}
TermsIn(docs) == UNION {DOMAIN docs[i].tokens : i \in DOMAIN docs}

Postings(term, docs) ==
    LET with == SortedNumbers(Having(term, docs))
    IN  [n \in DOMAIN with |-> <<with[n], docs[with[n]].tokens[term]>>]

BuildLexicalIndex(docs, db) ==
    LET kept == {t \in TermsIn(docs) : ~TooFrequent(Cardinality(Having(t, docs)), Len(docs))}
    IN  [db     |-> db,
         total  |-> SumFunction([i \in DOMAIN docs |-> docs[i].length]),
         docs   |-> [i \in DOMAIN docs |->
                       [f \in DOMAIN docs[i] \ {"tokens"} |-> docs[i][f]]],
         terms  |-> [t \in kept |-> Postings(t, docs)],
         counts |-> [docs |-> Len(docs), terms |-> Cardinality(kept),
                     postings |-> SumFunction([t \in kept |-> Cardinality(Having(t, docs))]),
                     dropped |-> Cardinality(TermsIn(docs) \ kept),
                     missing |-> Cardinality({i \in DOMAIN docs : docs[i].abstract = NoText})]]

\* to_json_bytes, and write_lexical_index's refusal before it writes.
LexicalSize(index) == LexicalBytes + Len(index.docs) + index.counts.postings

\* load_lexical_index accepts the file.
LexicalLoads(index, maxBytes) ==
    /\ LexicalSize(index) <= maxBytes
    /\ \A i \in DOMAIN index.docs : index.docs[i].length >= 0
    /\ \A t \in DOMAIN index.terms :
          LET postings == index.terms[t]
          IN  /\ \A n \in DOMAIN postings :
                    postings[n][1] \in DOMAIN index.docs /\ postings[n][2] >= 0
              /\ \A n \in 2..Len(postings) : postings[n - 1][1] < postings[n][1]

----------------------------------------------------------------------------
(* search.py, and its port worker/src/search.js.  query is the sequence of *)
(* the tokens of the query; the empty kind is no filter.                   *)

AnyKind == 0

\* The first max_terms distinct terms.
QueryTerms(query) ==
    LET first == {i \in DOMAIN query : \A j \in 1..(i - 1) : query[j] # query[i]}
    IN  {query[i] : i \in {j \in first : Cardinality({l \in first : l <= j}) <= MaxTerms}}

TermScore(index, t, i) ==
    LET postings == index.terms[t]
        ofDoc == {n \in DOMAIN postings : postings[n][1] = i}
    IN  SumFunction([n \in ofDoc |-> Weight(Len(index.docs), Len(postings), postings[n][2],
                                            index.docs[i].length, index.total)])

ScoreOf(index, terms, i) ==
    SumFunction([t \in terms \cap DOMAIN index.terms |-> TermScore(index, t, i)])

\* The hits, as positions in index.docs, best first.
Search(index, query, k, kind) ==
    LET terms == QueryTerms(query)
        score == [i \in DOMAIN index.docs |-> ScoreOf(index, terms, i)]
        hits == {i \in DOMAIN index.docs :
                    score[i] # 0 /\ kind \in {AnyKind, index.docs[i].kind}}
        ranked == SortedBy(hits, {p \in hits \X hits :
                     score[p[1]] > score[p[2]] \/ (score[p[1]] = score[p[2]] /\ p[1] < p[2])})
    IN  SubSeq(ranked, 1, Min({Len(ranked), k}))
=============================================================================
