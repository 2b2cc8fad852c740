------------------------------ MODULE Manifest ------------------------------
(***************************************************************************)
(* The vector store and the index manifest of one SQLite file, as values.  *)
(*                                                                         *)
(* src/src/openagentsearch/index/manifest.py keeps one row per document    *)
(* hash; src/src/openagentsearch/vector/store.py keeps one row per chunk   *)
(* and writes both in one transaction.  This module holds no state: it     *)
(* defines what a transaction makes of a table, so that every component    *)
(* which shares the file (IndexStore, LiveIngest) uses the same text.      *)
(*                                                                         *)
(* A document is identified with its content hash, so "the same document"  *)
(* means byte-identical content.  Text, vectors and times are abstracted.  *)
(***************************************************************************)
EXTENDS Integers

CONSTANTS
    Docs,        \* documents, that is, content hashes
    Urls,        \* source URLs
    ChunkCount   \* how many chunks chunk_text makes of each document's text

ASSUME ChunkCountAssumption == ChunkCount \in [Docs -> Nat]

(* STATUSES: the four outcomes a manifest row can record. *)
Statuses == {"indexed", "failed", "superseded", "refused"}

(* ManifestEntry, with the columns some property reads. *)
Row == [source_url : Urls, status : Statuses, chunk_count : Nat]

(* The manifest table: a row for some of the documents. *)
IsManifest(m) == DOMAIN m \subseteq Docs /\ m \in [DOMAIN m -> Row]

NoRows == [d \in {} |-> {}]

(* The ids `<doc_sha256>:<index>` of the chunks of document d. *)
Chunks(d) == {<<d, i>> : i \in 0 .. ChunkCount[d] - 1}

ChunkIds == UNION {Chunks(d) : d \in Docs}

(* existing_chunk_ids: the subset of ids already present in the store. *)
ExistingChunkIds(vectors, ids) == ids \cap vectors

(* Mutant of RowFor: counts to the last chunk's index. *)
RowForLastIndex(url, status, count) ==
    [source_url |-> url, status |-> status, chunk_count |-> count - 1]

RowFor(url, status, count) ==
    [source_url |-> url, status |-> status, chunk_count |-> count]

(* The rows a caller may read as "the live version of url". *)
LiveAt(manifest, url) ==
    {d \in DOMAIN manifest :
        manifest[d].status = "indexed" /\ manifest[d].source_url = url}

-----------------------------------------------------------------------------
(* Mutant of Upsert: the ON CONFLICT clause has no WHERE. *)
UpsertAlways(manifest, d, row) ==
    [x \in DOMAIN manifest \cup {d} |-> IF x = d THEN row ELSE manifest[x]]

(* INSERT ... ON CONFLICT(doc_sha256) DO UPDATE ... WHERE excluded.status =
   'indexed' OR manifest.status != 'indexed': an indexed row is overwritten
   only by another indexed row. *)
Upsert(manifest, d, row) ==
    IF /\ d \in DOMAIN manifest
       /\ manifest[d].status = "indexed"
       /\ row.status # "indexed"
    THEN manifest
    ELSE [x \in DOMAIN manifest \cup {d} |-> IF x = d THEN row ELSE manifest[x]]

(* Mutant of Supersede: the UPDATE forgets doc_sha256 != d. *)
SupersedeAll(manifest, d, url) ==
    [x \in DOMAIN manifest |->
        IF x \in LiveAt(manifest, url)
        THEN [manifest[x] EXCEPT !.status = "superseded"]
        ELSE manifest[x]]

(* UPDATE manifest SET status = 'superseded' WHERE source_url = url AND
   status = 'indexed' AND doc_sha256 != d. *)
Supersede(manifest, d, url) ==
    [x \in DOMAIN manifest |->
        IF x \in LiveAt(manifest, url) \ {d}
        THEN [manifest[x] EXCEPT !.status = "superseded"]
        ELSE manifest[x]]

(* Mutant of WriteManifestEntry: the second statement is missing. *)
WriteOnlyUpsert(manifest, d, row) == Upsert(manifest, d, row)

(* write_manifest_entry, both statements, inside the caller's transaction. *)
WriteManifestEntry(manifest, d, row) ==
    IF row.status = "indexed"
    THEN Supersede(Upsert(manifest, d, row), d, row.source_url)
    ELSE Upsert(manifest, d, row)
=============================================================================
