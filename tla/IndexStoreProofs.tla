-------------------------- MODULE IndexStoreProofs --------------------------
(***************************************************************************)
(* Theorems about IndexStore for any documents, URLs, callers and chunk    *)
(* counts.                                                                 *)
(*                                                                         *)
(* The inductive invariant is the conjunction of the checked invariants:   *)
(* each needs the others.  That a transaction which goes live at a URL     *)
(* leaves only one live row there needs the rows to be well typed; that a  *)
(* superseded row is still backed by its chunks needs it to have been      *)
(* backed while it was live.                                               *)
(***************************************************************************)
EXTENDS IndexStore, TLAPS

USE ChunkCountAssumption

-----------------------------------------------------------------------------
(* What the transactions of Manifest do to the tables. *)

(* Chunk ids of different documents differ: an id carries its document. *)
LEMMA ChunksDisjoint ==
    ASSUME NEW d \in Docs, NEW e \in Docs, d # e
    PROVE  Chunks(d) \cap Chunks(e) = {}
BY DEF Chunks

LEMMA ChunksAreIds ==
    ASSUME NEW d \in Docs
    PROVE  Chunks(d) \subseteq ChunkIds
BY DEF ChunkIds

(* What a transaction that goes live does to every row: the document's own is
   replaced, live rows at the same URL become superseded, the others stay. *)
AfterIndexed(m, d, row) ==
    [x \in DOMAIN m \cup {d} |->
        IF x = d THEN row
        ELSE IF m[x].status = "indexed" /\ m[x].source_url = row.source_url
        THEN [m[x] EXCEPT !.status = "superseded"]
        ELSE m[x]]

(* What a failed or refused entry does: at most the document's own row
   changes, and not even that one while it is live. *)
AfterOther(m, d, row) ==
    IF d \in DOMAIN m /\ m[d].status = "indexed"
    THEN m
    ELSE [x \in DOMAIN m \cup {d} |-> IF x = d THEN row ELSE m[x]]

LEMMA WriteIndexed ==
    ASSUME NEW m, IsManifest(m), NEW d \in Docs,
           NEW row \in Row, row.status = "indexed"
    PROVE  WriteManifestEntry(m, d, row) = AfterIndexed(m, d, row)
<1> DEFINE up == [x \in DOMAIN m \cup {d} |-> IF x = d THEN row ELSE m[x]]
<1>1. WriteManifestEntry(m, d, row) = Supersede(up, d, row.source_url)
  BY DEF WriteManifestEntry, Upsert
<1>2. DOMAIN up = DOMAIN m \cup {d}
  OBVIOUS
<1>3. \A x \in DOMAIN m \cup {d} :
         x \in LiveAt(up, row.source_url) \ {d}
           <=> x # d /\ m[x].status = "indexed" /\ m[x].source_url = row.source_url
  BY DEF LiveAt
<1>4. QED
  BY <1>1, <1>2, <1>3 DEF Supersede, AfterIndexed

LEMMA WriteOther ==
    ASSUME NEW m, NEW d, NEW row, row.status # "indexed"
    PROVE  WriteManifestEntry(m, d, row) = AfterOther(m, d, row)
BY DEF WriteManifestEntry, Upsert, AfterOther

LEMMA WriteType ==
    ASSUME NEW m, IsManifest(m), NEW d \in Docs, NEW row \in Row
    PROVE  /\ IsManifest(WriteManifestEntry(m, d, row))
           /\ DOMAIN WriteManifestEntry(m, d, row) = DOMAIN m \cup {d}
<1>1. CASE row.status = "indexed"
  <2>1. \A x \in DOMAIN m : m[x] \in Row /\ [m[x] EXCEPT !.status = "superseded"] \in Row
    BY DEF IsManifest, Row, Statuses
  <2>2. IsManifest(AfterIndexed(m, d, row))
    BY <2>1 DEF IsManifest, AfterIndexed
  <2>3. DOMAIN AfterIndexed(m, d, row) = DOMAIN m \cup {d}
    BY DEF AfterIndexed
  <2>4. QED
    BY <1>1, <2>2, <2>3, WriteIndexed
<1>2. CASE row.status # "indexed"
  <2>1. IsManifest(AfterOther(m, d, row))
    BY DEF IsManifest, AfterOther
  <2>2. DOMAIN AfterOther(m, d, row) = DOMAIN m \cup {d}
    BY DEF AfterOther
  <2>3. QED
    BY <1>2, <2>1, <2>2, WriteOther
<1>3. QED
  BY <1>1, <1>2

(* Which rows are live after a write: an indexed entry's document, alone at
   its URL, and every other document that was live at another URL. *)
LEMMA WriteLive ==
    ASSUME NEW m, IsManifest(m), NEW d \in Docs, NEW row \in Row, NEW u \in Urls
    PROVE  LiveAt(WriteManifestEntry(m, d, row), u) =
             IF row.status # "indexed" THEN LiveAt(m, u)
             ELSE IF u = row.source_url THEN {d}
             ELSE LiveAt(m, u) \ {d}
<1>1. CASE row.status = "indexed"
  <2>1. \A x \in DOMAIN m : [m[x] EXCEPT !.status = "superseded"].status = "superseded"
    BY DEF IsManifest, Row
  <2>2. \A x \in DOMAIN m \cup {d} :
           AfterIndexed(m, d, row)[x].status = "indexed"
             /\ AfterIndexed(m, d, row)[x].source_url = u
             <=> IF x = d THEN u = row.source_url
                 ELSE m[x].status = "indexed" /\ m[x].source_url = u
                      /\ u # row.source_url
    BY <1>1, <2>1 DEF AfterIndexed
  <2>3. DOMAIN AfterIndexed(m, d, row) = DOMAIN m \cup {d}
    BY DEF AfterIndexed
  <2>4. LiveAt(AfterIndexed(m, d, row), u) =
           IF u = row.source_url THEN {d} ELSE LiveAt(m, u) \ {d}
    BY <2>2, <2>3 DEF LiveAt
  <2>5. QED
    BY <1>1, <2>4, WriteIndexed
<1>2. CASE row.status # "indexed"
  <2>1. LiveAt(AfterOther(m, d, row), u) = LiveAt(m, u)
    BY <1>2 DEF LiveAt, AfterOther
  <2>2. QED
    BY <1>2, <2>1, WriteOther
<1>3. QED
  BY <1>1, <1>2

(* No transaction leaves two live rows at one URL. *)
LEMMA WriteOneLive ==
    ASSUME NEW m, IsManifest(m), NEW d \in Docs, NEW row \in Row,
           \A u \in Urls : \A x, y \in LiveAt(m, u) : x = y
    PROVE  \A u \in Urls : \A x, y \in LiveAt(WriteManifestEntry(m, d, row), u) : x = y
<1> SUFFICES ASSUME NEW u \in Urls
             PROVE  \A x, y \in LiveAt(WriteManifestEntry(m, d, row), u) : x = y
  OBVIOUS
<1>1. LiveAt(WriteManifestEntry(m, d, row), u) \subseteq LiveAt(m, u)
      \/ LiveAt(WriteManifestEntry(m, d, row), u) = {d}
  BY WriteLive
<1>2. QED
  BY <1>1

LEMMA RowForType ==
    ASSUME NEW u \in Urls, NEW st \in Statuses, NEW n \in Nat
    PROVE  /\ RowFor(u, st, n) \in Row
           /\ RowFor(u, st, n).status = st
           /\ RowFor(u, st, n).source_url = u
           /\ RowFor(u, st, n).chunk_count = n
BY DEF RowFor, Row

-----------------------------------------------------------------------------
IInv ==
    /\ TypeOK
    /\ OneLiveVersionPerUrl
    /\ AllOrNothing
    /\ IndexedRowsAreBacked
    /\ SearchableHasRow
    /\ OneWinner

-----------------------------------------------------------------------------
(* A step that writes a failed or refused row, or no row, leaves the vectors
   and the live rows alone, so it can disturb no part of the invariant. *)
LEMMA OtherKeepsIInv ==
    ASSUME IInv, NEW d \in Docs, NEW row \in Row,
           row.status \in {"failed", "refused"},
           manifest' = WriteManifestEntry(manifest, d, row)
    PROVE  /\ IsManifest(manifest')
           /\ \A u \in Urls : \A x, y \in LiveAt(manifest', u) : x = y
           /\ DOMAIN manifest \subseteq DOMAIN manifest'
           /\ \A x \in DOMAIN manifest' :
                 manifest'[x].status \in {"indexed", "superseded"} =>
                    /\ Chunks(x) \subseteq vectors
                    /\ manifest'[x].chunk_count = ChunkCount[x]
<1>1. IsManifest(manifest) /\ \A u \in Urls : \A x, y \in LiveAt(manifest, u) : x = y
  BY DEF IInv, TypeOK, OneLiveVersionPerUrl
<1>2. manifest' = AfterOther(manifest, d, row)
  BY WriteOther
<1>3. IsManifest(manifest') /\ DOMAIN manifest \subseteq DOMAIN manifest'
  <2>1. /\ IsManifest(WriteManifestEntry(manifest, d, row))
        /\ DOMAIN WriteManifestEntry(manifest, d, row) = DOMAIN manifest \cup {d}
    BY <1>1, WriteType
  <2>2. QED
    BY <2>1
<1>4. \A u \in Urls : \A x, y \in LiveAt(manifest', u) : x = y
  BY <1>1, WriteOneLive
<1>5. ASSUME NEW x \in DOMAIN manifest',
             manifest'[x].status \in {"indexed", "superseded"}
      PROVE  /\ Chunks(x) \subseteq vectors
             /\ manifest'[x].chunk_count = ChunkCount[x]
  <2>1. x \in DOMAIN manifest /\ manifest'[x] = manifest[x]
    BY <1>2, <1>5 DEF AfterOther
  <2>2. QED
    BY <2>1, <1>5 DEF IInv, IndexedRowsAreBacked
<1>6. QED
  BY <1>3, <1>4, <1>5

LEMMA InitIInv == Init => IInv
<1> SUFFICES ASSUME Init PROVE IInv
  OBVIOUS
<1>1. TypeOK
  BY DEF Init, TypeOK, IsManifest, NoRows, Finished
<1>2. Searchable = {} /\ DOMAIN manifest = {}
  BY DEF Init, Searchable, NoRows
<1>3. \A c \in Callers : pc[c] # "indexed"
  BY DEF Init
<1>4. QED
  BY <1>1, <1>2, <1>3 DEF IInv, OneLiveVersionPerUrl, AllOrNothing,
     IndexedRowsAreBacked, SearchableHasRow, OneWinner, LiveAt

-----------------------------------------------------------------------------
(* A step that leaves both tables alone and sends nobody to "indexed" keeps
   everything but the types to check. *)
LEMMA QuietStep ==
    ASSUME IInv, TypeOK', UNCHANGED <<vectors, manifest>>,
           \A c \in Callers : pc'[c] = "indexed" =>
                pc[c] = "indexed" /\ job'[c] = job[c]
    PROVE  IInv'
<1>1. /\ OneLiveVersionPerUrl' /\ AllOrNothing'
      /\ IndexedRowsAreBacked' /\ SearchableHasRow'
  BY DEF IInv, OneLiveVersionPerUrl, AllOrNothing, IndexedRowsAreBacked,
         SearchableHasRow, Searchable, LiveAt
<1>2. OneWinner'
  BY DEF IInv, OneWinner
<1>3. QED
  BY <1>1, <1>2 DEF IInv

(* The same for a step that records a failed or refused row. *)
LEMMA RecordStep ==
    ASSUME IInv, TypeOK', UNCHANGED vectors,
           NEW d \in Docs, NEW row \in Row, row.status \in {"failed", "refused"},
           manifest' = WriteManifestEntry(manifest, d, row),
           \A c \in Callers : pc'[c] = "indexed" =>
                pc[c] = "indexed" /\ job'[c] = job[c]
    PROVE  IInv'
<1>1. OneLiveVersionPerUrl' /\ IndexedRowsAreBacked'
  BY OtherKeepsIInv DEF OneLiveVersionPerUrl, IndexedRowsAreBacked
<1>2. AllOrNothing'
  BY DEF IInv, AllOrNothing, Searchable
<1>3. SearchableHasRow'
  BY OtherKeepsIInv DEF IInv, SearchableHasRow, Searchable
<1>4. OneWinner'
  BY DEF IInv, OneWinner
<1>5. QED
  BY <1>1, <1>2, <1>3, <1>4 DEF IInv

(* The transaction that publishes a document. *)
LEMMA PublishStep ==
    ASSUME IInv, NEW c \in Callers, AddMany(c),
           ExistingChunkIds(vectors, Chunks(job[c].doc)) = {}
    PROVE  IInv'
<1> DEFINE d == job[c].doc
           row == RowFor(job[c].url, "indexed", ChunkCount[d])
<1>1. d \in Docs /\ job[c].url \in Urls /\ row \in Row /\ row.status = "indexed"
      /\ row.chunk_count = ChunkCount[d]
  BY RowForType DEF IInv, TypeOK, Jobs, Statuses
<1>2. IsManifest(manifest) /\ \A u \in Urls : \A x, y \in LiveAt(manifest, u) : x = y
  BY DEF IInv, TypeOK, OneLiveVersionPerUrl
<1>3. /\ vectors' = vectors \cup Chunks(d)
      /\ manifest' = WriteManifestEntry(manifest, d, row)
      /\ pc' = [pc EXCEPT ![c] = "indexed"]
      /\ job' = job
      /\ Chunks(d) \cap vectors = {}
  BY DEF AddMany, Goto, ExistingChunkIds
<1>4. manifest' = AfterIndexed(manifest, d, row)
  BY <1>1, <1>2, <1>3, WriteIndexed
<1>5. IsManifest(manifest') /\ DOMAIN manifest' = DOMAIN manifest \cup {d}
  <2>1. /\ IsManifest(WriteManifestEntry(manifest, d, row))
        /\ DOMAIN WriteManifestEntry(manifest, d, row) = DOMAIN manifest \cup {d}
    BY <1>1, <1>2, WriteType
  <2>2. QED
    BY <2>1, <1>3
<1> HIDE DEF row
<1>6. TypeOK'
  <2>1. vectors' \in SUBSET ChunkIds
    BY <1>1, <1>3, ChunksAreIds DEF IInv, TypeOK
  <2>2. pc' \in [Callers -> Finished \cup Running]
    BY <1>3 DEF IInv, TypeOK, Finished
  <2>3. QED
    BY <2>1, <2>2, <1>3, <1>5 DEF IInv, TypeOK
<1>7. OneLiveVersionPerUrl'
  BY <1>1, <1>2, <1>3, WriteOneLive DEF OneLiveVersionPerUrl
<1>8. \A e \in Docs : e # d => Chunks(e) \cap vectors' = Chunks(e) \cap vectors
  BY <1>1, <1>3, ChunksDisjoint
<1>9. AllOrNothing'
  BY <1>3, <1>8 DEF IInv, AllOrNothing, Searchable
<1>10. SearchableHasRow'
  BY <1>5, <1>8 DEF IInv, SearchableHasRow, Searchable
<1>11. IndexedRowsAreBacked'
  <2> SUFFICES ASSUME NEW x \in DOMAIN manifest',
                      manifest'[x].status \in {"indexed", "superseded"}
               PROVE  Chunks(x) \subseteq vectors'
                      /\ manifest'[x].chunk_count = ChunkCount[x]
    BY DEF IndexedRowsAreBacked
  <2>1. CASE x = d
    BY <2>1, <1>1, <1>3, <1>4 DEF AfterIndexed
  <2>2. CASE x # d
    <3>1. x \in DOMAIN manifest /\ manifest[x] \in Row
      BY <2>2, <1>2, <1>5 DEF IsManifest
    <3>2. manifest[x].status \in {"indexed", "superseded"}
      BY <2>2, <3>1, <1>4 DEF AfterIndexed
    <3>3. manifest'[x].chunk_count = manifest[x].chunk_count
      BY <2>2, <3>1, <1>4 DEF AfterIndexed, Row
    <3>4. QED
      BY <3>1, <3>2, <3>3, <1>3 DEF IInv, IndexedRowsAreBacked
  <2>3. QED
    BY <2>1, <2>2
<1>12. OneWinner'
  <2>1. \A e \in Callers : pc[e] = "indexed" /\ job[e].doc = d => Chunks(d) = {}
    BY <1>3 DEF IInv, OneWinner
  <2>2. pc \in [Callers -> Finished \cup Running]
    BY DEF IInv, TypeOK
  <2>3. QED
    BY <2>1, <2>2, <1>3 DEF IInv, OneWinner
<1>13. QED
  BY <1>6, <1>7, <1>9, <1>10, <1>11, <1>12 DEF IInv

LEMMA NextIInv == IInv /\ [Next]_vars => IInv'
<1> SUFFICES ASSUME IInv, [Next]_vars
             PROVE  IInv'
  OBVIOUS
<1>1. TypeOK
  BY DEF IInv
<1>2. CASE UNCHANGED vars
  <2>1. TypeOK'
    BY <1>1, <1>2 DEF vars, TypeOK
  <2>2. QED
    BY <1>2, <2>1, QuietStep DEF vars
<1>3. ASSUME NEW c \in Callers, Begin(c)
      PROVE  IInv'
  <2>1. TypeOK'
    BY <1>1, <1>3 DEF Begin, Goto, TypeOK, Running
  <2>2. QED
    BY <1>1, <1>3, <2>1, QuietStep DEF Begin, Goto, TypeOK
<1>4. ASSUME NEW c \in Callers,
             CheckExisting(c) \/ Embed(c) \/ Raise(c) \/ Crash(c)
      PROVE  IInv'
  <2>1. PICK label \in {"idle", "embed", "write", "fail", "fail_unchunked"} :
           Goto(c, label) /\ UNCHANGED <<vectors, manifest, job>>
    BY <1>4 DEF CheckExisting, Embed, Raise, Crash
  <2>2. TypeOK'
    BY <1>1, <2>1 DEF Goto, TypeOK, Finished, Running
  <2>3. QED
    BY <1>1, <2>1, <2>2, QuietStep DEF Goto, TypeOK
<1>5. ASSUME NEW c \in Callers, AddMany(c)
      PROVE  IInv'
  <2>1. CASE ExistingChunkIds(vectors, Chunks(job[c].doc)) = {}
    BY <1>5, <2>1, PublishStep
  <2>2. CASE ExistingChunkIds(vectors, Chunks(job[c].doc)) # {}
    <3>1. Goto(c, "fail") /\ UNCHANGED <<vectors, manifest, job>>
      BY <1>5, <2>2 DEF AddMany
    <3>2. TypeOK'
      BY <1>1, <3>1 DEF Goto, TypeOK, Running
    <3>3. QED
      BY <1>1, <3>1, <3>2, QuietStep DEF Goto, TypeOK
  <2>3. QED
    BY <2>1, <2>2
<1>6. ASSUME NEW c \in Callers, RecordFailed(c)
      PROVE  IInv'
  <2>1. Goto(c, "idle") /\ UNCHANGED <<vectors, job>>
    BY <1>6 DEF RecordFailed
  <2>2. PICK n \in Nat :
           \/ manifest' = WriteManifestEntry(manifest, job[c].doc,
                                             RowFor(job[c].url, "failed", n))
           \/ UNCHANGED manifest
    <3>1. ChunkCount[job[c].doc] \in Nat
      BY <1>1 DEF TypeOK, Jobs
    <3>2. QED
      BY <1>6, <3>1 DEF RecordFailed
  <2>3. /\ job[c].doc \in Docs /\ job[c].url \in Urls
        /\ RowFor(job[c].url, "failed", n) \in Row
        /\ RowFor(job[c].url, "failed", n).status = "failed"
    BY <1>1, RowForType DEF TypeOK, Jobs, Statuses
  <2>4. IsManifest(manifest')
    <3>1. IsManifest(manifest)
      BY <1>1 DEF TypeOK
    <3>2. IsManifest(WriteManifestEntry(manifest, job[c].doc,
                                        RowFor(job[c].url, "failed", n)))
      BY <2>3, <3>1, WriteType
    <3> QED
      BY <2>2, <3>1, <3>2
  <2>5. TypeOK'
    <3>1. pc' \in [Callers -> Finished \cup Running]
      BY <1>1, <2>1 DEF Goto, TypeOK, Finished
    <3> QED
      BY <1>1, <2>1, <2>4, <3>1 DEF TypeOK
  <2>6. \A e \in Callers : pc'[e] = "indexed" =>
            pc[e] = "indexed" /\ job'[e] = job[e]
    BY <1>1, <2>1 DEF Goto, TypeOK
  <2>7. QED
    BY <2>1, <2>2, <2>3, <2>5, <2>6, QuietStep, RecordStep
<1>7. ASSUME NEW c \in Callers, RecordRefused(c)
      PROVE  IInv'
  <2>1. PICK j \in Jobs :
           /\ job' = [job EXCEPT ![c] = j]
           /\ manifest' = WriteManifestEntry(manifest, j.doc,
                                             RowFor(j.url, "refused", 0))
    BY <1>7 DEF RecordRefused
  <2>2. Goto(c, "idle") /\ UNCHANGED vectors
    BY <1>7 DEF RecordRefused
  <2>3. /\ j.doc \in Docs /\ j.url \in Urls
        /\ RowFor(j.url, "refused", 0) \in Row
        /\ RowFor(j.url, "refused", 0).status = "refused"
    BY RowForType DEF Jobs, Statuses
  <2>4. IsManifest(manifest')
    BY <1>1, <2>1, <2>3, WriteType DEF TypeOK
  <2>5. TypeOK'
    BY <1>1, <2>1, <2>2, <2>4 DEF Goto, TypeOK, Finished
  <2>6. \A e \in Callers : pc'[e] = "indexed" =>
            pc[e] = "indexed" /\ job'[e] = job[e]
    BY <1>1, <2>1, <2>2 DEF Goto, TypeOK
  <2>7. QED
    BY <2>1, <2>2, <2>3, <2>5, <2>6, RecordStep
<1>8. QED
  BY <1>2, <1>3, <1>4, <1>5, <1>6, <1>7 DEF Next

(* The index store keeps every invariant the runs check, for any number of
   racing callers, documents, URLs and chunks per document. *)
THEOREM Invariance == Spec => []IInv
<1>1. Init => IInv
  BY InitIInv
<1>2. IInv /\ [Next]_vars => IInv'
  BY NextIInv
<1>3. QED
  BY <1>1, <1>2, PTL DEF Spec

(* The two tables and the callers keep their types, whoever races, raises or
   crashes. *)
THEOREM WellTyped == Spec => []TypeOK
<1>1. IInv => TypeOK
  BY DEF IInv
<1>2. QED
  BY <1>1, Invariance, PTL

(* Of a document's chunks, all are in the vector store or none: what
   LanceVectorStore.add_many merges is one commit. *)
THEOREM NothingByHalves == Spec => []AllOrNothing
<1>1. IInv => AllOrNothing
  BY DEF IInv
<1>2. QED
  BY <1>1, Invariance, PTL

(* A URL has at most one live document, however many callers index versions of
   it at once (the supersession in Manifest.record). *)
THEOREM OneLiveVersion == Spec => []OneLiveVersionPerUrl
<1>1. IInv => OneLiveVersionPerUrl
  BY DEF IInv
<1>2. QED
  BY <1>1, Invariance, PTL

(* Between any two steps, the manifest and the vector store account for each
   other: no indexed row without its chunks, no chunk without its row. *)
THEOREM TablesStayAgreed == Spec => []TablesAgree
<1>1. IInv => TablesAgree
  BY DEF IInv, TablesAgree
<1>2. QED
  BY <1>1, Invariance, PTL

(* Of the callers that race on a document with text one is told that it indexed
   it, and that stays true. *)
THEOREM RacersAgree == Spec => []OneWinner
<1>1. IInv => OneWinner
  BY DEF IInv
<1>2. QED
  BY <1>1, Invariance, PTL

-----------------------------------------------------------------------------
(* What a step does to the tables, as the readers of LiveVersions see it. *)
LEMMA StepOnTables ==
    ASSUME IInv, Next
    PROVE  \/ /\ vectors' = vectors
              /\ \A u \in Urls : LiveAt(manifest', u) = LiveAt(manifest, u)
           \/ \E d \in Docs, url \in Urls :
              /\ Chunks(d) \cap vectors = {}
              /\ vectors' = vectors \cup Chunks(d)
              /\ \A u \in Urls : LiveAt(manifest', u) =
                    IF u = url THEN {d} ELSE LiveAt(manifest, u) \ {d}
<1> USE DEF Jobs
<1>1. PICK c \in Callers :
         \/ Begin(c) \/ CheckExisting(c) \/ Embed(c) \/ Raise(c)
         \/ AddMany(c) \/ RecordFailed(c) \/ RecordRefused(c) \/ Crash(c)
  BY DEF Next
<1>2. IsManifest(manifest) /\ job[c] \in Jobs
  BY DEF IInv, TypeOK
<1>3. CASE UNCHANGED <<vectors, manifest>>
  BY <1>3
<1>4. ASSUME NEW d \in Docs, NEW u \in Urls, NEW n \in Nat,
             NEW st \in {"failed", "refused"},
             UNCHANGED vectors,
             manifest' = WriteManifestEntry(manifest, d, RowFor(u, st, n))
      PROVE  \A v \in Urls : LiveAt(manifest', v) = LiveAt(manifest, v)
  <2>1. RowFor(u, st, n) \in Row /\ RowFor(u, st, n).status # "indexed"
    BY <1>4, RowForType DEF Statuses
  <2>2. QED
    BY <1>2, <1>4, <2>1, WriteLive
<1>5. CASE AddMany(c) /\ ~UNCHANGED <<vectors, manifest>>
  <2> DEFINE d == job[c].doc
             row == RowFor(job[c].url, "indexed", ChunkCount[d])
  <2>1. /\ d \in Docs /\ job[c].url \in Urls
        /\ row \in Row /\ row.status = "indexed" /\ row.source_url = job[c].url
    BY <1>2, RowForType DEF Statuses
  <2>2. /\ vectors' = vectors \cup Chunks(d)
        /\ manifest' = WriteManifestEntry(manifest, d, row)
        /\ Chunks(d) \cap vectors = {}
    BY <1>5 DEF AddMany, ExistingChunkIds
  <2> HIDE DEF row
  <2>3. \A u \in Urls : LiveAt(manifest', u) =
            IF u = job[c].url THEN {d} ELSE LiveAt(manifest, u) \ {d}
    <3> SUFFICES ASSUME NEW u \in Urls
                 PROVE  LiveAt(manifest', u) =
                    IF u = job[c].url THEN {d} ELSE LiveAt(manifest, u) \ {d}
      OBVIOUS
    <3> HIDE DEF d
    <3>1. LiveAt(WriteManifestEntry(manifest, d, row), u) =
             IF row.status # "indexed" THEN LiveAt(manifest, u)
             ELSE IF u = row.source_url THEN {d}
             ELSE LiveAt(manifest, u) \ {d}
      BY <1>2, <2>1, WriteLive
    <3>2. QED
      BY <2>1, <2>2, <3>1
  <2>4. QED
    BY <2>1, <2>2, <2>3
<1>6. CASE RecordFailed(c) /\ ~UNCHANGED <<vectors, manifest>>
  <2>1. ChunkCount[job[c].doc] \in Nat
    BY <1>2
  <2>2. PICK n \in Nat : manifest' = WriteManifestEntry(manifest, job[c].doc,
                                        RowFor(job[c].url, "failed", n))
    BY <1>6, <2>1 DEF RecordFailed
  <2>3. QED
    BY <1>2, <1>4, <1>6, <2>2 DEF RecordFailed
<1>7. CASE RecordRefused(c)
  BY <1>4, <1>7 DEF RecordRefused
<1>8. QED
  BY <1>1, <1>3, <1>5, <1>6, <1>7 DEF Begin, CheckExisting, Embed, Raise, Crash

(* No failure, refusal, race or crash takes down the live version of a URL. *)
THEOREM LiveReplaced == Spec => LiveReplacedOnlyByNewer
<1> DEFINE Good == \A u \in Urls : \A d \in LiveAt(manifest, u) :
          \/ d \in LiveAt(manifest', u)
          \/ \E e \in Docs \ {d} : e \in LiveAt(manifest', u)
          \/ ChunkCount[d] = 0 /\ \E v \in Urls : d \in LiveAt(manifest', v)
<1>1. ASSUME IInv, [Next]_vars
      PROVE  [Good]_vars
  <2>1. CASE UNCHANGED vars
    BY <2>1
  <2>2. CASE Next
    <3> SUFFICES ASSUME NEW u \in Urls, NEW d \in LiveAt(manifest, u)
                 PROVE  \/ d \in LiveAt(manifest', u)
                        \/ \E e \in Docs \ {d} : e \in LiveAt(manifest', u)
                        \/ /\ ChunkCount[d] = 0
                           /\ \E v \in Urls : d \in LiveAt(manifest', v)
      OBVIOUS
    <3>1. d \in Docs /\ Chunks(d) \subseteq vectors
      BY <1>1 DEF IInv, TypeOK, IsManifest, IndexedRowsAreBacked, LiveAt
    <3>2. CASE LiveAt(manifest', u) = LiveAt(manifest, u)
      BY <3>2
    <3>3. ASSUME NEW e \in Docs, NEW url \in Urls,
                 Chunks(e) \cap vectors = {},
                 \A v \in Urls : LiveAt(manifest', v) =
                    IF v = url THEN {e} ELSE LiveAt(manifest, v) \ {e}
          PROVE  \/ d \in LiveAt(manifest', u)
                 \/ \E x \in Docs \ {d} : x \in LiveAt(manifest', u)
                 \/ /\ ChunkCount[d] = 0
                    /\ \E v \in Urls : d \in LiveAt(manifest', v)
      <4>1. CASE e # d
        BY <3>3, <4>1
      <4>2. CASE e = d
        <5>1. Chunks(d) = {}
          BY <3>1, <3>3, <4>2
        <5>2. ChunkCount[d] = 0
          <6>1. ChunkCount[d] \in Nat /\ (0 < ChunkCount[d] => <<d, 0>> \in Chunks(d))
            BY <3>1 DEF Chunks
          <6>2. QED
            BY <5>1, <6>1
        <5>3. QED
          BY <3>3, <4>2, <5>2
      <4>3. QED
        BY <4>1, <4>2
    <3>4. QED
      BY <1>1, <2>2, <3>2, <3>3, StepOnTables
  <2>3. QED
    BY <1>1, <2>1, <2>2
<1>2. Spec => [][Good]_vars
  BY <1>1, Invariance, PTL DEF Spec
<1>3. QED
  BY <1>2 DEF LiveReplacedOnlyByNewer

-----------------------------------------------------------------------------
LEMMA LiveValue ==
    ASSUME IInv, NEW u \in Urls
    PROVE  /\ Live[u] = NoDoc => LiveAt(manifest, u) = {}
           /\ \A d \in LiveAt(manifest, u) : Live[u] = d /\ d \in Docs
<1>1. \A d, e \in LiveAt(manifest, u) : d = e
  BY DEF IInv, OneLiveVersionPerUrl
<1>2. LiveAt(manifest, u) \subseteq Docs
  BY DEF IInv, TypeOK, IsManifest, LiveAt
<1>3. Live[u] = IF LiveAt(manifest, u) = {} THEN NoDoc
                ELSE CHOOSE d \in LiveAt(manifest, u) : TRUE
  BY DEF Live
<1>4. QED
  BY <1>1, <1>2, <1>3, NoDocAssumption

(* A step maps to a publication or to a stutter. *)
LEMMA StepSimulation ==
    ASSUME IInv, IInv', Next
    PROVE  Versions!Next \/ UNCHANGED <<Searchable, Live>>
<1>1. CASE /\ vectors' = vectors
           /\ \A u \in Urls : LiveAt(manifest', u) = LiveAt(manifest, u)
  <2>1. Searchable' = Searchable
    BY <1>1 DEF Searchable
  <2>2. Live' = Live
    <3>1. ASSUME NEW u \in Urls
          PROVE  Live'[u] = Live[u]
      <4>1. LiveAt(manifest', u) = LiveAt(manifest, u)
        BY <1>1
      <4>2. Live'[u] = IF LiveAt(manifest', u) = {} THEN NoDoc
                       ELSE CHOOSE x \in LiveAt(manifest', u) : TRUE
        BY DEF Live
      <4>3. Live[u] = IF LiveAt(manifest, u) = {} THEN NoDoc
                      ELSE CHOOSE x \in LiveAt(manifest, u) : TRUE
        BY DEF Live
      <4>4. QED
        BY <4>1, <4>2, <4>3
    <3>2. Live' = [u \in Urls |-> Live'[u]] /\ Live = [u \in Urls |-> Live[u]]
      BY DEF Live
    <3>3. QED
      BY <3>1, <3>2
  <2>3. QED
    BY <2>1, <2>2
<1>2. ASSUME NEW d \in Docs, NEW url \in Urls,
             Chunks(d) \cap vectors = {},
             vectors' = vectors \cup Chunks(d),
             \A u \in Urls : LiveAt(manifest', u) =
                IF u = url THEN {d} ELSE LiveAt(manifest, u) \ {d}
      PROVE  Versions!Publish(d, url)
  <2>1. d \notin Searchable
    BY <1>2 DEF Searchable
  <2>2. Searchable' = Searchable \cup ({d} \cap {e \in Docs : Chunks(e) # {}})
    <3>1. \A e \in Docs : Chunks(e) \cap vectors' # {}
             <=> Chunks(e) \cap vectors # {} \/ (e = d /\ Chunks(e) # {})
      BY <1>2, ChunksDisjoint
    <3>2. QED
      BY <3>1 DEF Searchable
  <2>3. ASSUME NEW u \in Urls
        PROVE  Live'[u] = IF u = url THEN d
                          ELSE IF Live[u] = d THEN NoDoc
                          ELSE Live[u]
    <3>1. Live'[u] = IF LiveAt(manifest', u) = {} THEN NoDoc
                     ELSE CHOOSE x \in LiveAt(manifest', u) : TRUE
      BY DEF Live
    <3>2. CASE u = url
      BY <1>2, <3>1, <3>2
    <3>3. CASE u # url /\ LiveAt(manifest, u) \subseteq {d}
      <4>1. LiveAt(manifest', u) = {}
        BY <1>2, <3>3
      <4>2. Live'[u] = NoDoc
        BY <3>1, <4>1
      <4>3. Live[u] = d \/ Live[u] = NoDoc
        BY <3>3, LiveValue DEF Live
      <4>4. QED
        BY <3>3, <4>2, <4>3, NoDocAssumption
    <3>4. CASE u # url /\ \E x \in LiveAt(manifest, u) : x # d
      <4>1. PICK x \in LiveAt(manifest, u) : x # d
        BY <3>4
      <4>2. LiveAt(manifest, u) = {x}
        BY <4>1 DEF IInv, OneLiveVersionPerUrl
      <4>3. LiveAt(manifest', u) = {x}
        BY <1>2, <3>4, <4>1, <4>2
      <4>4. Live'[u] = x
        BY <3>1, <4>3
      <4>5. Live[u] = x
        BY <4>1, LiveValue
      <4>6. QED
        BY <3>4, <4>1, <4>4, <4>5
    <3>5. QED
      BY <3>2, <3>3, <3>4
  <2>4. Live' = [u \in Urls |-> IF u = url THEN d
                                ELSE IF Live[u] = d THEN NoDoc
                                ELSE Live[u]]
    <3>1. Live' = [u \in Urls |-> Live'[u]]
      BY DEF Live
    <3>2. QED
      BY <2>3, <3>1
  <2>5. QED
    BY <2>1, <2>2, <2>4 DEF Versions!Publish
<1>3. QED
  BY <1>1, <1>2, StepOnTables DEF Versions!Next

(* The index store implements LiveVersions: to a reader, documents appear
   whole, one publication at a time, and nothing else ever changes. *)
THEOREM Refinement == Spec => ImplementsVersions
<1>1. Init => Versions!Init
  <2> SUFFICES ASSUME Init PROVE Versions!Init
    OBVIOUS
  <2>1. Searchable = {}
    BY DEF Init, Searchable
  <2>2. \A u \in Urls : LiveAt(manifest, u) = {}
    BY DEF Init, NoRows, LiveAt
  <2>3. Live = [u \in Urls |-> NoDoc]
    BY <2>2 DEF Live
  <2>4. QED
    BY <2>1, <2>3 DEF Versions!Init
<1>2. IInv /\ IInv' /\ [Next]_vars => [Versions!Next]_<<Searchable, Live>>
  <2> SUFFICES ASSUME IInv, IInv', [Next]_vars
               PROVE  Versions!Next \/ UNCHANGED <<Searchable, Live>>
    OBVIOUS
  <2>1. CASE UNCHANGED vars
    BY <2>1 DEF vars, Searchable, Live, LiveAt
  <2>2. CASE Next
    BY <2>2, StepSimulation
  <2>3. QED
    BY <2>1, <2>2
<1>3. QED
  BY <1>1, <1>2, Invariance, PTL DEF Spec, Versions!Spec, ImplementsVersions
=============================================================================
