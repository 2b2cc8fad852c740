----------------------------- MODULE LiveIngest -----------------------------
(***************************************************************************)
(* One process that ingests documents into one root directory and one      *)
(* SQLite file: LiveIngester.ingest for fetched pages, and                 *)
(* index_source_document for the documents of the source adapters          *)
(* (src/src/openagentsearch/pipeline/ingest.py and index.py).              *)
(*                                                                         *)
(* Both write, in this order and in separate steps: the raw file and its   *)
(* provenance line, the extracted record, and the index transaction of     *)
(* Manifest.  Any step may raise; the process may be interrupted or die    *)
(* between any two, and inside a file write.  A page may answer with any   *)
(* document at any time.  Fetch errors, which change nothing here, and the *)
(* budget and robots.txt (see CrawlLoop) are left out.                     *)
(***************************************************************************)
EXTENDS Manifest

CONSTANTS
    SourceUrls,   \* the URLs whose documents come from an adapter
    TextOf,       \* the extracted text of each document
    NoUrl

ASSUME LiveIngestAssumption ==
    /\ SourceUrls \subseteq Urls
    /\ NoUrl \notin Urls
    /\ \A d, e \in Docs : TextOf[d] = TextOf[e] => ChunkCount[d] = ChunkCount[e]
    /\ Urls \cap {"absent", "torn"} = {}

VARIABLES
    raw,         \* raw/<doc>.html: "absent", "torn" or "whole"
    firstUrl,    \* the url of the first provenance line of each document
    extracted,   \* extracted/<doc>.json: "absent", "torn", or its url
    vectors,     \* the chunk ids in the vector store
    manifest,    \* the index manifest
    phase,       \* where the process is in the current call
    job,         \* the document and url of the current call
    abandoned,   \* history: documents whose call ended with their record kept
    answered     \* history: documents for which ingest() returned a report
                 \* that says their text is in the index

vars == <<raw, firstUrl, extracted, vectors, manifest, phase, job,
          abandoned, answered>>

files == <<raw, firstUrl, extracted>>
tables == <<vectors, manifest>>
history == <<abandoned, answered>>

(* "check" is index_source_document before its refusal check, "raw" is before
   RawStore.put, "extract" before the extracted record is
   written, "index" before the transaction, "unlink" in ingest()'s except. *)
Phases == {"idle", "check", "raw", "extract", "index", "unlink"}

TypeOK ==
    /\ raw \in [Docs -> {"absent", "torn", "whole"}]
    /\ firstUrl \in [Docs -> Urls \cup {NoUrl}]
    /\ extracted \in [Docs -> Urls \cup {"absent", "torn"}]
    /\ vectors \in SUBSET ChunkIds
    /\ IsManifest(manifest)
    /\ phase \in Phases
    /\ job \in [doc : Docs, url : Urls]
    /\ abandoned \in SUBSET Docs /\ answered \in SUBSET Docs

Init ==
    /\ raw = [d \in Docs |-> "absent"]
    /\ firstUrl = [d \in Docs |-> NoUrl]
    /\ extracted = [d \in Docs |-> "absent"]
    /\ vectors = {}
    /\ manifest = NoRows
    /\ phase = "idle"
    /\ job \in [doc : Docs, url : Urls]
    /\ abandoned = {} /\ answered = {}

IsSource == job.url \in SourceUrls
InStore(d) == ExistingChunkIds(vectors, Chunks(d)) # {}
Stored(d) == extracted[d] \in Urls

-----------------------------------------------------------------------------
(* ingest(url): the page answered 200 with this document. *)
BeginPage(d, u) ==
    /\ phase = "idle"
    /\ u \notin SourceUrls
    /\ job' = [doc |-> d, url |-> u]
    /\ phase' = "raw"
    /\ UNCHANGED <<files, tables, history>>

(* The body is not text/html, or not UTF-8: only a manifest row. *)
RefuseBody(d, u) ==
    /\ phase = "idle"
    /\ u \notin SourceUrls
    /\ manifest' = WriteManifestEntry(manifest, d, RowFor(u, "refused", 0))
    /\ UNCHANGED <<files, vectors, phase, job, history>>

BeginSource(d, u) ==
    /\ phase = "idle"
    /\ u \in SourceUrls
    /\ job' = [doc |-> d, url |-> u]
    /\ phase' = "check"
    /\ UNCHANGED <<files, tables, history>>

(* index_source_document refuses what is already indexed before any write. *)
CheckSource ==
    /\ phase = "check"
    /\ phase' = IF InStore(job.doc) THEN "idle" ELSE "raw"
    /\ UNCHANGED <<files, tables, job, history>>

(* RawStore.put: the file is written only when there is none of that name;
   the provenance line is always appended. *)
PutRaw ==
    LET d == job.doc
    IN  /\ phase = "raw"
        /\ raw' = IF raw[d] = "absent" THEN [raw EXCEPT ![d] = "whole"] ELSE raw
        /\ firstUrl' = IF firstUrl[d] = NoUrl
                       THEN [firstUrl EXCEPT ![d] = job.url] ELSE firstUrl
        /\ phase' = "extract"
        /\ UNCHANGED <<extracted, tables, job, history>>

(* ExtractStore.put's checks: the raw file has the document's hash, and the
   first provenance line of that hash names this url. *)
Verified == raw[job.doc] = "whole" /\ firstUrl[job.doc] = job.url

(* Mutants of Duplicate: the scan covers raw files, which failed attempts leave
   behind; it compares document hashes. *)
DuplicateRaw == {d \in Docs \ {job.doc} : raw[d] = "whole" /\ TextOf[d] = TextOf[job.doc]}
DuplicateHash == {d \in {job.doc} : Stored(d)}

(* DedupingExtractStore.put scans every record, in no particular order, for
   the same text, and raises on one it cannot parse. *)
Duplicate == {d \in Docs : Stored(d) /\ TextOf[d] = TextOf[job.doc]}
Malformed == {d \in Docs : extracted[d] = "torn"}

MayWrite == Verified /\ (IsSource \/ Duplicate \cup Malformed = {})

PutExtracted ==
    /\ phase = "extract"
    /\ MayWrite
    /\ extracted' = [extracted EXCEPT ![job.doc] = job.url]
    /\ phase' = "index"
    /\ UNCHANGED <<raw, firstUrl, tables, job, history>>

(* put() returned None: "deduplicated", and a `refused` row. *)
Deduplicate ==
    /\ phase = "extract"
    /\ ~IsSource /\ Duplicate # {}
    /\ manifest' = WriteManifestEntry(manifest, job.doc,
                                      RowFor(job.url, "refused", 0))
    /\ answered' = answered \cup {job.doc}
    /\ phase' = "idle"
    /\ UNCHANGED <<files, vectors, job, abandoned>>

(* ingest() raises outside index_document: a file cannot be written, extract()
   fails, or put() finds a malformed record, a raw hash mismatch or a URL
   mismatch.  No row is written. *)
RaiseBeforeIndex ==
    /\ phase \in {"raw", "extract"}
    /\ ~IsSource
    /\ phase' = "idle"
    /\ UNCHANGED <<files, tables, job, history>>

-----------------------------------------------------------------------------
Indexed(d, u) ==
    /\ vectors' = vectors \cup Chunks(d)
    /\ manifest' = WriteManifestEntry(manifest, d, RowFor(u, "indexed", ChunkCount[d]))

(* index_document and index_documents called without a root: no files. *)
IndexDirectly(d, u) ==
    /\ phase = "idle"
    /\ ~InStore(d)
    /\ Indexed(d, u)
    /\ UNCHANGED <<files, phase, job, history>>

(* index_document refuses: "already_indexed", and the record stays. *)
AlreadyIndexed ==
    /\ phase = "index"
    /\ InStore(job.doc)
    /\ answered' = answered \cup {job.doc}
    /\ phase' = "idle"
    /\ UNCHANGED <<files, tables, job, abandoned>>

(* The rows and the manifest entry are committed. *)
Commit ==
    /\ phase = "index"
    /\ ~InStore(job.doc)
    /\ Indexed(job.doc, job.url)
    /\ answered' = answered \cup {job.doc}
    /\ phase' = "idle"
    /\ UNCHANGED <<files, job, abandoned>>

(* A `failed` row, which may itself fail to be written. *)
RecordFailed ==
    \E n \in {0, ChunkCount[job.doc]} :
        manifest' \in {manifest, WriteManifestEntry(manifest, job.doc,
                                                   RowFor(job.url, "failed", n))}

(* The embedder or the store raises inside index_document. *)
IndexRaises ==
    /\ phase = "index"
    /\ ~IsSource
    /\ RecordFailed
    /\ phase' = "unlink"
    /\ UNCHANGED <<files, vectors, job, history>>

(* Mutant of Unlink: the except clause only re-raises. *)
UnlinkNothing ==
    /\ phase = "unlink"
    /\ phase' = "idle"
    /\ UNCHANGED <<files, tables, job, history>>

(* ingest()'s except clauses: the extracted record is removed, and the
   exception goes on to the caller. *)
Unlink ==
    /\ phase = "unlink"
    /\ extracted' = [extracted EXCEPT ![job.doc] = "absent"]
    /\ phase' = "idle"
    /\ UNCHANGED <<raw, firstUrl, tables, job, history>>

(* index_source_document fails anywhere: the files it wrote are kept. *)
SourceRaises ==
    /\ phase # "idle"
    /\ IsSource
    /\ RecordFailed
    /\ abandoned' = IF Stored(job.doc) /\ ~InStore(job.doc)
                    THEN abandoned \cup {job.doc} ELSE abandoned
    /\ phase' = "idle"
    /\ UNCHANGED <<files, vectors, job, answered>>

(* The call ends without any clean-up: KeyboardInterrupt, which is no
   Exception, or the death of the process.  A file that was open for writing is
   left empty; the raw file may be there without its provenance line. *)
Interrupt ==
    LET d == job.doc
    IN  /\ phase # "idle"
        /\ raw' \in IF phase = "raw" /\ raw[d] = "absent"
                    THEN {[raw EXCEPT ![d] = s] : s \in {"absent", "torn", "whole"}}
                    ELSE {raw}
        /\ extracted' \in IF phase = "extract" /\ MayWrite
                          THEN {extracted, [extracted EXCEPT ![d] = "torn"]}
                          ELSE {extracted}
        /\ abandoned' = IF Stored(d) /\ ~InStore(d)
                        THEN abandoned \cup {d} ELSE abandoned
        /\ phase' = "idle"
        /\ UNCHANGED <<firstUrl, tables, job, answered>>

Next ==
    \/ \E d \in Docs, u \in Urls :
          \/ BeginPage(d, u) \/ RefuseBody(d, u) \/ BeginSource(d, u)
          \/ IndexDirectly(d, u)
    \/ CheckSource \/ PutRaw \/ PutExtracted \/ Deduplicate \/ RaiseBeforeIndex
    \/ AlreadyIndexed \/ Commit \/ IndexRaises \/ Unlink \/ SourceRaises
    \/ Interrupt

Spec == Init /\ [][Next]_vars

-----------------------------------------------------------------------------
(* Provenance: an extracted record rests on a whole raw file, whose first
   provenance line names the record's own URL. *)
RecordsHaveProvenance ==
    \A d \in Docs : Stored(d) => raw[d] = "whole" /\ firstUrl[d] = extracted[d]

InIndex(d) == Chunks(d) \subseteq vectors

(* Between calls, every extracted record is that of a document in the index,
   except where a call was interrupted or a source document failed: the window
   in which the record runs ahead of the index is closed on every other path. *)
RecordsAreIndexed ==
    \A d \in Docs :
        Stored(d) => \/ InIndex(d)
                     \/ d \in abandoned
                     \/ phase \in {"index", "unlink"} /\ job.doc = d

(* An extracted record has both its ends: the raw file it was made from and
   the document in the index it was made for (LiveIngester.ingest). *)
RecordsAreSound == RecordsHaveProvenance /\ RecordsAreIndexed

(* A caller that got a report saying that the page's text is in the index
   (indexed, already_indexed or deduplicated) can find that text by a search,
   unless an abandoned record of the same text misled the deduplication. *)
AnsweredIsSearchable ==
    \A d \in answered : \E e \in Docs :
        TextOf[e] = TextOf[d] /\ (InIndex(e) \/ e \in abandoned)

(* Among the records of fetched pages no two have the same text, whatever
   failed in between. *)
PagesAreDeduplicated ==
    \A d, e \in Docs :
        /\ Stored(d) /\ extracted[d] \notin SourceUrls
        /\ Stored(e) /\ extracted[e] \notin SourceUrls
        /\ TextOf[d] = TextOf[e]
        => d = e

(* "If indexing then raises, that extracted record is removed again so a retry
   is not blocked by its own failed attempt" (ingest.py's module docstring): no
   document is answered for while no document of its text is in the index. *)
RetryNotBlocked ==
    \A d \in answered : \E e \in Docs : TextOf[e] = TextOf[d] /\ InIndex(e)
=============================================================================
