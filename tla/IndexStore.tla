----------------------------- MODULE IndexStore -----------------------------
(***************************************************************************)
(* Concurrent callers of index_document / index_source_document on one     *)
(* VectorStore (src/src/openagentsearch/pipeline/index.py).                *)
(*                                                                         *)
(* Each call runs: extract and chunk; refuse when a chunk id exists; embed *)
(* every chunk with no lock held; then one transaction writes every row    *)
(* and the manifest entry.  The store's lock covers each store call, never *)
(* two of them, so what a caller saw in the refusal check may be stale by  *)
(* the time it writes.  A failure is recorded in a transaction of its own. *)
(***************************************************************************)
EXTENDS Manifest

CONSTANTS
    Callers,   \* threads, or processes, that share the SQLite file
    NoDoc      \* stands for "no live version" in the abstract view

ASSUME NoDocAssumption == NoDoc \notin Docs

VARIABLES
    vectors,    \* the chunk ids that have a row in table vectors
    manifest,   \* table manifest: a row per document hash
    pc,         \* where each caller is in its call, or how its last one ended
    job         \* the document and source_url of each caller's call

vars == <<vectors, manifest, pc, job>>

Jobs == [doc : Docs, url : Urls]

(* Not in a call: its last call, if any, raised ("idle") or returned an
   IndexReport ("indexed"). *)
Finished == {"idle", "indexed"}

(* "extract" runs up to the refusal check and "embed" up to the write; the
   "fail" labels are the except clause before its record_manifest, when the
   number of chunks is not known yet and when it is. *)
Running == {"extract", "embed", "write", "fail_unchunked", "fail"}

TypeOK ==
    /\ vectors \in SUBSET ChunkIds
    /\ IsManifest(manifest)
    /\ pc \in [Callers -> Finished \cup Running]
    /\ job \in [Callers -> Jobs]

Init ==
    /\ vectors = {}
    /\ manifest = NoRows
    /\ pc = [c \in Callers |-> "idle"]
    /\ job \in [Callers -> Jobs]

Goto(c, label) == pc' = [pc EXCEPT ![c] = label]

-----------------------------------------------------------------------------
(* A caller enters index_document with valid arguments. *)
Begin(c) ==
    /\ pc[c] \in Finished
    /\ \E j \in Jobs : job' = [job EXCEPT ![c] = j]
    /\ Goto(c, "extract")
    /\ UNCHANGED <<vectors, manifest>>

(* extract() and chunk_text() succeeded; one locked read of existing ids.
   Some id exists: the "already indexed" refusal, which writes nothing. *)
CheckExisting(c) ==
    /\ pc[c] = "extract"
    /\ IF ExistingChunkIds(vectors, Chunks(job[c].doc)) # {}
       THEN Goto(c, "idle")
       ELSE Goto(c, "embed")
    /\ UNCHANGED <<vectors, manifest, job>>

(* Every chunk was embedded; the lock is not held. *)
Embed(c) ==
    /\ pc[c] = "embed"
    /\ Goto(c, "write")
    /\ UNCHANGED <<vectors, manifest, job>>

(* extract(), chunk_text(), the embedder or SQLite raised; only before the
   refusal check can that be before chunk_count_known is set. *)
Raise(c) ==
    /\ \/ pc[c] \in {"extract", "embed", "write"} /\ Goto(c, "fail")
       \/ pc[c] = "extract" /\ Goto(c, "fail_unchunked")
    /\ UNCHANGED <<vectors, manifest, job>>

(* Mutants of AddMany: the rows are inserted without a transaction, so a
   failure keeps the first of them; *)
AddManyNoRollback(c) ==
    LET d == job[c].doc
    IN  /\ pc[c] = "write"
        /\ \E ids \in SUBSET Chunks(d) : vectors' = vectors \cup ids
        /\ Goto(c, "fail")
        /\ UNCHANGED <<manifest, job>>

(* the manifest entry is committed after the vector rows; *)
AddManyRowAfter(c) ==
    LET d == job[c].doc
    IN  /\ pc[c] = "write"
        /\ vectors' = vectors \cup Chunks(d)
        /\ \/ manifest' = WriteManifestEntry(manifest, d,
                              RowFor(job[c].url, "indexed", ChunkCount[d]))
              /\ Goto(c, "indexed")
           \/ Goto(c, "idle") /\ UNCHANGED manifest
        /\ UNCHANGED job

(* INSERT OR REPLACE, so that a clash is not an error. *)
AddManyReplace(c) ==
    LET d == job[c].doc
    IN  /\ pc[c] = "write"
        /\ vectors' = vectors \cup Chunks(d)
        /\ manifest' = WriteManifestEntry(manifest, d,
                           RowFor(job[c].url, "indexed", ChunkCount[d]))
        /\ Goto(c, "indexed")
        /\ UNCHANGED job

(* add_many(rows, manifest=entry): one transaction under the lock.  A chunk id
   inserted meanwhile is an IntegrityError, which rolls everything back and
   surfaces as a ValueError that is not the "already indexed" refusal. *)
AddMany(c) ==
    LET d == job[c].doc
    IN  /\ pc[c] = "write"
        /\ IF ExistingChunkIds(vectors, Chunks(d)) # {}
           THEN /\ Goto(c, "fail")
                /\ UNCHANGED <<vectors, manifest>>
           ELSE /\ vectors' = vectors \cup Chunks(d)
                /\ manifest' = WriteManifestEntry(manifest, d,
                                  RowFor(job[c].url, "indexed", ChunkCount[d]))
                /\ Goto(c, "indexed")
        /\ UNCHANGED job

(* The except clause: a `failed` row in its own transaction, whose chunk_count
   is 0 unless chunking had completed; a failure to record is swallowed. *)
RecordFailed(c) ==
    LET d == job[c].doc
        known == IF pc[c] = "fail" THEN ChunkCount[d] ELSE 0
    IN  /\ pc[c] \in {"fail", "fail_unchunked"}
        /\ \/ manifest' = WriteManifestEntry(manifest, d,
                                             RowFor(job[c].url, "failed", known))
           \/ UNCHANGED manifest
        /\ Goto(c, "idle")
        /\ UNCHANGED <<vectors, job>>

(* LiveIngester._record_refused: a caller that received a body and decided not
   to index it records a `refused` row for its hash. *)
RecordRefused(c) ==
    /\ pc[c] \in Finished
    /\ \E j \in Jobs :
        /\ job' = [job EXCEPT ![c] = j]
        /\ manifest' = WriteManifestEntry(manifest, j.doc,
                                          RowFor(j.url, "refused", 0))
    /\ Goto(c, "idle")
    /\ UNCHANGED vectors

(* The caller's process dies.  SQLite keeps committed transactions only. *)
Crash(c) ==
    /\ pc[c] \in Running
    /\ Goto(c, "idle")
    /\ UNCHANGED <<vectors, manifest, job>>

Next ==
    \E c \in Callers :
        \/ Begin(c) \/ CheckExisting(c) \/ Embed(c) \/ Raise(c)
        \/ AddMany(c) \/ RecordFailed(c) \/ RecordRefused(c) \/ Crash(c)

Spec == Init /\ [][Next]_vars

-----------------------------------------------------------------------------
(* Documents with a chunk that a vector search can return. *)
Searchable == {d \in Docs : Chunks(d) \cap vectors # {}}

(* A document is in the store whole or not at all: no crash, race or failed
   call leaves some of its chunks (add_many's "all-or-nothing"). *)
AllOrNothing == \A d \in Searchable : Chunks(d) \subseteq vectors

(* "The manifest never claims two rows are simultaneously the live indexed
   version of one URL" (write_manifest_entry), whoever races with whom. *)
OneLiveVersionPerUrl ==
    \A u \in Urls : \A d, e \in LiveAt(manifest, u) : d = e

(* A row that says a document is, or was, the live version is backed by every
   chunk it counts: the manifest never runs ahead of the vectors. *)
IndexedRowsAreBacked ==
    \A d \in DOMAIN manifest :
        manifest[d].status \in {"indexed", "superseded"} =>
            /\ Chunks(d) \subseteq vectors
            /\ manifest[d].chunk_count = ChunkCount[d]

(* No chunk is searchable without a manifest row for its document. *)
SearchableHasRow == Searchable \subseteq DOMAIN manifest

(* The two tables account for each other, in both directions, between any two
   steps: no row without its chunks, no chunk without its row (add_many). *)
TablesAgree == IndexedRowsAreBacked /\ SearchableHasRow

(* Of the callers that raced on one document with text, only one is told that
   its call indexed it; and what it was told stays true. *)
OneWinner ==
    /\ \A c \in Callers : pc[c] = "indexed" => Chunks(job[c].doc) \subseteq vectors
    /\ \A c, e \in Callers :
          /\ pc[c] = "indexed" /\ pc[e] = "indexed"
          /\ job[c].doc = job[e].doc
          /\ Chunks(job[c].doc) # {}
          => c = e

(* The live version of a URL is only ever replaced by another document going
   live there; in particular no failure or refusal takes it down.  A document
   without text has no chunk to refuse on, and may move to another URL. *)
LiveReplacedOnlyByNewer ==
    [][\A u \in Urls : \A d \in LiveAt(manifest, u) :
          \/ d \in LiveAt(manifest', u)
          \/ \E e \in Docs \ {d} : e \in LiveAt(manifest', u)
          \/ ChunkCount[d] = 0 /\ \E v \in Urls : d \in LiveAt(manifest', v)]_vars

(* The abstract view: LiveVersions' two variables, read off the tables. *)
Live == [u \in Urls |-> IF LiveAt(manifest, u) = {}
                        THEN NoDoc
                        ELSE CHOOSE d \in LiveAt(manifest, u) : TRUE]

Versions == INSTANCE LiveVersions WITH
                WithText <- {d \in Docs : Chunks(d) # {}},
                searchable <- Searchable,
                live <- Live

(* Whatever callers do to each other, a reader of the store sees documents
   published one at a time: index_document is atomic per document. *)
ImplementsVersions == Versions!Spec

(* What write_manifest_entry's docstring promises of a race: "the loser's
   SQLite-level failure must not clobber the winner's already-committed
   success".  A document once committed as indexed never becomes failed. *)
LoserNeverClobbers ==
    [][\A d \in DOMAIN manifest :
          manifest[d].status \in {"indexed", "superseded"} =>
              manifest'[d].status # "failed"]_vars
=============================================================================
