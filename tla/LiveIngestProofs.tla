-------------------------- MODULE LiveIngestProofs --------------------------
(***************************************************************************)
(* Theorems about LiveIngest for any documents, URLs, texts and chunk      *)
(* counts.                                                                 *)
(*                                                                         *)
(* The checked invariants hold each other up.  A "deduplicated" answer is  *)
(* searchable because the record it was refused for is indexed or          *)
(* abandoned; an "already_indexed" one because a document that has one     *)
(* chunk in the store has all of them, which is WholeOrNotAtAll.           *)
(***************************************************************************)
EXTENDS LiveIngest, TLAPS

USE ChunkCountAssumption, LiveIngestAssumption

-----------------------------------------------------------------------------
(* What is needed of the transactions of Manifest here; IndexStoreProofs has
   more about them. *)

LEMMA ChunksDisjoint ==
    ASSUME NEW d \in Docs, NEW e \in Docs, d # e
    PROVE  Chunks(d) \cap Chunks(e) = {}
BY DEF Chunks

LEMMA ChunksAreIds ==
    ASSUME NEW d \in Docs
    PROVE  Chunks(d) \subseteq ChunkIds
BY DEF ChunkIds

LEMMA RowForType ==
    ASSUME NEW u \in Urls, NEW st \in Statuses, NEW n \in Nat
    PROVE  RowFor(u, st, n) \in Row
BY DEF RowFor, Row

LEMMA WriteType ==
    ASSUME NEW m, IsManifest(m), NEW d \in Docs, NEW row \in Row
    PROVE  IsManifest(WriteManifestEntry(m, d, row))
<1> DEFINE up == Upsert(m, d, row)
<1>1. IsManifest(up)
  BY DEF IsManifest, Upsert
<1> HIDE DEF up
<1>2. \A x \in DOMAIN up : up[x] \in Row /\ [up[x] EXCEPT !.status = "superseded"] \in Row
  BY <1>1 DEF IsManifest, Row, Statuses
<1>3. IsManifest(Supersede(up, d, row.source_url))
  BY <1>1, <1>2 DEF IsManifest, Supersede
<1>4. QED
  BY <1>1, <1>3 DEF WriteManifestEntry, up

-----------------------------------------------------------------------------
(* No document is in the store in part: the rows of a document are inserted
   by one transaction (VectorStore.add_many). *)
WholeOrNotAtAll == \A d \in Docs : InStore(d) => InIndex(d)

IInv ==
    /\ TypeOK
    /\ WholeOrNotAtAll
    /\ RecordsHaveProvenance
    /\ RecordsAreIndexed
    /\ AnsweredIsSearchable
    /\ PagesAreDeduplicated

-----------------------------------------------------------------------------
LEMMA InitIInv == Init => IInv
<1> SUFFICES ASSUME Init PROVE IInv
  OBVIOUS
<1>1. TypeOK
  BY DEF Init, TypeOK, IsManifest, NoRows, Phases
<1>2. \A d \in Docs : ~Stored(d) /\ ~InStore(d)
  BY DEF Init, Stored, InStore, ExistingChunkIds
<1>3. answered = {}
  BY DEF Init
<1>4. QED
  BY <1>1, <1>2, <1>3 DEF IInv, WholeOrNotAtAll, RecordsHaveProvenance,
     RecordsAreIndexed, AnsweredIsSearchable, PagesAreDeduplicated

(* A document that is in the index stays there, and a transaction keeps the
   others whole. *)
LEMMA IndexedStaysWhole ==
    ASSUME WholeOrNotAtAll, NEW d \in Docs, vectors' = vectors \cup Chunks(d)
    PROVE  /\ WholeOrNotAtAll' /\ InIndex(d)'
           /\ \A e \in Docs : InIndex(e) => InIndex(e)'
<1>1. ASSUME NEW e \in Docs, InStore(e)'
      PROVE  InIndex(e)'
  <2>1. CASE e = d
    BY <2>1 DEF InIndex
  <2>2. CASE e # d
    <3>1. InStore(e)
      BY <1>1, <2>2, ChunksDisjoint DEF InStore, ExistingChunkIds
    <3>2. QED
      BY <3>1 DEF WholeOrNotAtAll, InIndex
  <2>3. QED
    BY <2>1, <2>2
<1>2. QED
  BY <1>1 DEF WholeOrNotAtAll, InIndex

(* A step that leaves the files, the vectors and the history alone, and keeps
   the document of a call that is about to index it. *)
LEMMA QuietStep ==
    ASSUME IInv, TypeOK', UNCHANGED <<files, vectors, history>>,
           phase \in {"index", "unlink"} => phase' \in {"index", "unlink"} /\ job' = job
    PROVE  IInv'
<1>1. WholeOrNotAtAll' /\ RecordsHaveProvenance' /\ PagesAreDeduplicated' /\ AnsweredIsSearchable'
  BY DEF IInv, files, history, WholeOrNotAtAll, InStore, InIndex, Stored, RecordsHaveProvenance,
         PagesAreDeduplicated, AnsweredIsSearchable
<1>2. RecordsAreIndexed'
  BY DEF IInv, files, history, RecordsAreIndexed, InIndex, Stored
<1>3. QED
  BY <1>1, <1>2 DEF IInv

(* The same for a step that ends the call, whose record, if there is one, is
   that of an indexed or an abandoned document. *)
LEMMA EndStep ==
    ASSUME IInv, TypeOK', UNCHANGED <<files, vectors>>,
           abandoned \subseteq abandoned',
           \A d \in Docs : Stored(d) => InIndex(d) \/ d \in abandoned',
           \A d \in answered' : \E e \in Docs :
               TextOf[e] = TextOf[d] /\ (InIndex(e) \/ e \in abandoned')
    PROVE  IInv'
<1>1. WholeOrNotAtAll' /\ RecordsHaveProvenance' /\ PagesAreDeduplicated'
  BY DEF IInv, files, WholeOrNotAtAll, InStore, InIndex, Stored, RecordsHaveProvenance,
         PagesAreDeduplicated
<1>2. RecordsAreIndexed' /\ AnsweredIsSearchable'
  BY DEF files, RecordsAreIndexed, AnsweredIsSearchable, InIndex, Stored
<1>3. QED
  BY <1>1, <1>2 DEF IInv

(* What the `failed` row of an entry that could not be indexed is. *)
LEMMA RecordFailedType ==
    ASSUME TypeOK, RecordFailed
    PROVE  IsManifest(manifest')
<1>1. IsManifest(manifest) /\ job.doc \in Docs /\ job.url \in Urls
  BY DEF TypeOK
<1>2. PICK n \in {0, ChunkCount[job.doc]} :
         manifest' \in {manifest, WriteManifestEntry(manifest, job.doc,
                                                    RowFor(job.url, "failed", n))}
  BY DEF RecordFailed
<1>3. n \in Nat /\ "failed" \in Statuses
  BY <1>1, <1>2 DEF Statuses
<1>4. RowFor(job.url, "failed", n) \in Row
  BY <1>1, <1>3, RowForType
<1>5. IsManifest(WriteManifestEntry(manifest, job.doc, RowFor(job.url, "failed", n)))
  BY <1>1, <1>4, WriteType
<1>6. QED
  BY <1>1, <1>2, <1>5

LEMMA RefusedType ==
    ASSUME TypeOK, NEW d \in Docs, NEW u \in Urls,
           manifest' = WriteManifestEntry(manifest, d, RowFor(u, "refused", 0))
    PROVE  IsManifest(manifest')
<1>1. RowFor(u, "refused", 0) \in Row
  BY RowForType DEF Statuses
<1>2. QED
  BY <1>1, WriteType DEF TypeOK

LEMMA IndexedType ==
    ASSUME TypeOK, NEW d \in Docs, NEW u \in Urls, Indexed(d, u)
    PROVE  IsManifest(manifest') /\ vectors' \in SUBSET ChunkIds
<1>1. RowFor(u, "indexed", ChunkCount[d]) \in Row
  BY RowForType DEF Statuses
<1>2. QED
  BY <1>1, WriteType, ChunksAreIds DEF TypeOK, Indexed

-----------------------------------------------------------------------------
(* The writes of a call, in their order. *)

LEMMA PutRawKeeps ==
    ASSUME IInv, PutRaw
    PROVE  IInv'
<1> DEFINE d == job.doc
<1>1. /\ raw' = IF raw[d] = "absent" THEN [raw EXCEPT ![d] = "whole"] ELSE raw
      /\ firstUrl' = IF firstUrl[d] = NoUrl THEN [firstUrl EXCEPT ![d] = job.url] ELSE firstUrl
      /\ phase = "raw" /\ phase' = "extract"
      /\ UNCHANGED <<extracted, vectors, manifest, job, abandoned, answered>>
  BY DEF PutRaw, tables, history
<1>2. TypeOK /\ d \in Docs /\ job.url \in Urls
  BY DEF IInv, TypeOK
<1>3. TypeOK'
  BY <1>1, <1>2 DEF TypeOK, Phases
<1>4. \A e \in Docs : raw[e] = "whole" => raw'[e] = "whole"
  BY <1>1, <1>2 DEF TypeOK
<1>5. \A e \in Docs : firstUrl[e] # NoUrl => firstUrl'[e] = firstUrl[e]
  BY <1>1, <1>2 DEF TypeOK
<1>6. RecordsHaveProvenance'
  BY <1>1, <1>4, <1>5 DEF IInv, RecordsHaveProvenance, Stored
<1>7. /\ WholeOrNotAtAll' /\ RecordsAreIndexed'
      /\ PagesAreDeduplicated' /\ AnsweredIsSearchable'
  BY <1>1 DEF IInv, WholeOrNotAtAll, InStore, InIndex, Stored, RecordsAreIndexed,
              PagesAreDeduplicated, AnsweredIsSearchable
<1>8. QED
  BY <1>3, <1>6, <1>7 DEF IInv

LEMMA PutExtractedKeeps ==
    ASSUME IInv, PutExtracted
    PROVE  IInv'
<1> DEFINE d == job.doc
<1>1. /\ phase = "extract" /\ phase' = "index" /\ MayWrite
      /\ extracted' = [extracted EXCEPT ![d] = job.url]
      /\ UNCHANGED <<raw, firstUrl, vectors, manifest, job, abandoned, answered>>
  BY DEF PutExtracted, tables, history
<1>2. TypeOK /\ d \in Docs /\ job.url \in Urls
  BY DEF IInv, TypeOK
<1>3. TypeOK'
  BY <1>1, <1>2 DEF TypeOK, Phases
<1>4. extracted'[d] = job.url /\ \A e \in Docs \ {d} : extracted'[e] = extracted[e]
  BY <1>1, <1>2 DEF TypeOK
<1>5. RecordsHaveProvenance'
  BY <1>1, <1>2, <1>4 DEF IInv, RecordsHaveProvenance, Stored, MayWrite, Verified
<1>6. RecordsAreIndexed'
  BY <1>1, <1>4 DEF IInv, RecordsAreIndexed, Stored, InIndex
<1>7. PagesAreDeduplicated'
  <2>1. CASE job.url \in SourceUrls
    BY <1>4, <2>1 DEF IInv, PagesAreDeduplicated, Stored
  <2>2. CASE job.url \notin SourceUrls
    <3>1. \A e \in Docs : ~(Stored(e) /\ TextOf[e] = TextOf[d])
      BY <1>1, <2>2 DEF MayWrite, IsSource, Duplicate
    <3>2. QED
      BY <1>2, <1>4, <3>1 DEF IInv, PagesAreDeduplicated, Stored
  <2>3. QED
    BY <2>1, <2>2
<1>8. WholeOrNotAtAll' /\ AnsweredIsSearchable'
  BY <1>1 DEF IInv, WholeOrNotAtAll, InStore, InIndex, AnsweredIsSearchable
<1>9. QED
  BY <1>3, <1>5, <1>6, <1>7, <1>8 DEF IInv

LEMMA DeduplicateKeeps ==
    ASSUME IInv, Deduplicate
    PROVE  IInv'
<1>1. /\ phase = "extract" /\ phase' = "idle" /\ Duplicate # {}
      /\ manifest' = WriteManifestEntry(manifest, job.doc, RowFor(job.url, "refused", 0))
      /\ answered' = answered \cup {job.doc}
      /\ UNCHANGED <<files, vectors, job, abandoned>>
  BY DEF Deduplicate
<1>2. TypeOK /\ job.doc \in Docs /\ job.url \in Urls
  BY DEF IInv, TypeOK
<1>3. TypeOK'
  BY <1>1, <1>2, RefusedType DEF TypeOK, files, Phases
<1>4. \A d \in Docs : Stored(d) => InIndex(d) \/ d \in abandoned
  BY <1>1 DEF IInv, RecordsAreIndexed
<1>5. \E e \in Docs : TextOf[e] = TextOf[job.doc] /\ (InIndex(e) \/ e \in abandoned)
  BY <1>1, <1>4 DEF Duplicate
<1>6. QED
  BY <1>1, <1>3, <1>4, <1>5, EndStep DEF IInv, AnsweredIsSearchable

LEMMA AlreadyIndexedKeeps ==
    ASSUME IInv, AlreadyIndexed
    PROVE  IInv'
<1>1. /\ phase = "index" /\ phase' = "idle" /\ InStore(job.doc)
      /\ answered' = answered \cup {job.doc}
      /\ UNCHANGED <<files, vectors, manifest, job, abandoned>>
  BY DEF AlreadyIndexed, tables
<1>2. TypeOK /\ job.doc \in Docs
  BY DEF IInv, TypeOK
<1>3. TypeOK'
  BY <1>1, <1>2 DEF TypeOK, files, Phases
<1>4. InIndex(job.doc)
  BY <1>1, <1>2 DEF IInv, WholeOrNotAtAll
<1>5. \A d \in Docs : Stored(d) => InIndex(d) \/ d \in abandoned
  BY <1>1, <1>4 DEF IInv, RecordsAreIndexed
<1>6. QED
  BY <1>1, <1>2, <1>3, <1>4, <1>5, EndStep DEF IInv, AnsweredIsSearchable

(* The transaction that indexes a document, of a call or without one. *)
LEMMA IndexedKeeps ==
    ASSUME IInv, TypeOK', NEW d \in Docs, vectors' = vectors \cup Chunks(d),
           UNCHANGED <<files, job, abandoned>>, answered' \subseteq answered \cup {d},
           phase \in {"index", "unlink"} => job.doc = d
    PROVE  IInv'
<1>1. /\ WholeOrNotAtAll' /\ InIndex(d)'
      /\ \A e \in Docs : InIndex(e) => InIndex(e)'
  BY IndexedStaysWhole DEF IInv
<1>2. RecordsHaveProvenance' /\ PagesAreDeduplicated'
  BY DEF IInv, files, RecordsHaveProvenance, PagesAreDeduplicated, Stored
<1>3. RecordsAreIndexed'
  BY <1>1 DEF IInv, files, RecordsAreIndexed, Stored
<1>4. AnsweredIsSearchable'
  BY <1>1 DEF IInv, TypeOK, AnsweredIsSearchable
<1>5. QED
  BY <1>1, <1>2, <1>3, <1>4 DEF IInv

LEMMA UnlinkKeeps ==
    ASSUME IInv, Unlink
    PROVE  IInv'
<1> DEFINE d == job.doc
<1>1. /\ phase' = "idle"
      /\ extracted' = [extracted EXCEPT ![d] = "absent"]
      /\ UNCHANGED <<raw, firstUrl, vectors, manifest, job, abandoned, answered>>
  BY DEF Unlink, tables, history
<1>2. TypeOK /\ d \in Docs
  BY DEF IInv, TypeOK
<1>3. TypeOK'
  BY <1>1, <1>2 DEF TypeOK, Phases
<1>4. ~Stored(d)' /\ \A e \in Docs \ {d} : extracted'[e] = extracted[e]
  BY <1>1, <1>2 DEF TypeOK, Stored
<1>5. RecordsHaveProvenance' /\ RecordsAreIndexed' /\ PagesAreDeduplicated'
  BY <1>1, <1>4 DEF IInv, RecordsHaveProvenance, RecordsAreIndexed, PagesAreDeduplicated,
                    Stored, InIndex
<1>6. WholeOrNotAtAll' /\ AnsweredIsSearchable'
  BY <1>1 DEF IInv, WholeOrNotAtAll, InStore, InIndex, AnsweredIsSearchable
<1>7. QED
  BY <1>3, <1>5, <1>6 DEF IInv

(* A record that a call leaves behind is abandoned, unless its document is in
   the store, and then it is there as a whole. *)
LEMMA LeftBehind ==
    ASSUME IInv, abandoned' = IF Stored(job.doc) /\ ~InStore(job.doc)
                              THEN abandoned \cup {job.doc} ELSE abandoned
    PROVE  \A d \in Docs : Stored(d) => InIndex(d) \/ d \in abandoned'
BY DEF IInv, RecordsAreIndexed, WholeOrNotAtAll

LEMMA SourceRaisesKeeps ==
    ASSUME IInv, SourceRaises
    PROVE  IInv'
<1>1. /\ phase' = "idle" /\ RecordFailed
      /\ abandoned' = IF Stored(job.doc) /\ ~InStore(job.doc)
                      THEN abandoned \cup {job.doc} ELSE abandoned
      /\ UNCHANGED <<files, vectors, job, answered>>
  BY DEF SourceRaises
<1>2. TypeOK /\ job.doc \in Docs
  BY DEF IInv, TypeOK
<1>3. TypeOK'
  BY <1>1, <1>2, RecordFailedType DEF TypeOK, files, Phases
<1>4. QED
  BY <1>1, <1>3, LeftBehind, EndStep DEF IInv, AnsweredIsSearchable

LEMMA InterruptKeeps ==
    ASSUME IInv, Interrupt
    PROVE  IInv'
<1> DEFINE d == job.doc
<1>1. /\ raw' \in IF phase = "raw" /\ raw[d] = "absent"
                  THEN {[raw EXCEPT ![d] = s] : s \in {"absent", "torn", "whole"}}
                  ELSE {raw}
      /\ extracted' \in IF phase = "extract" /\ MayWrite
                        THEN {extracted, [extracted EXCEPT ![d] = "torn"]}
                        ELSE {extracted}
      /\ abandoned' = IF Stored(d) /\ ~InStore(d) THEN abandoned \cup {d} ELSE abandoned
      /\ phase' = "idle"
      /\ UNCHANGED <<firstUrl, vectors, manifest, job, answered>>
  BY DEF Interrupt, tables
<1>2. TypeOK /\ d \in Docs
  BY DEF IInv, TypeOK
<1>3. raw' \in [Docs -> {"absent", "torn", "whole"}]
      /\ \A e \in Docs : raw[e] = "whole" => raw'[e] = "whole"
  BY <1>1, <1>2 DEF TypeOK
<1>4. extracted' \in [Docs -> Urls \cup {"absent", "torn"}]
      /\ \A e \in Docs : Stored(e)' => Stored(e) /\ extracted'[e] = extracted[e]
  BY <1>1, <1>2 DEF TypeOK, Stored
<1>5. TypeOK'
  BY <1>1, <1>2, <1>3, <1>4 DEF TypeOK, Phases
<1>6. RecordsHaveProvenance' /\ PagesAreDeduplicated'
  BY <1>1, <1>3, <1>4 DEF IInv, RecordsHaveProvenance, PagesAreDeduplicated
<1>7. RecordsAreIndexed' /\ abandoned \subseteq abandoned'
  BY <1>1, <1>4, LeftBehind DEF RecordsAreIndexed, InIndex
<1>8. WholeOrNotAtAll' /\ AnsweredIsSearchable'
  BY <1>1, <1>7 DEF IInv, WholeOrNotAtAll, InStore, InIndex, AnsweredIsSearchable
<1>9. QED
  BY <1>5, <1>6, <1>7, <1>8 DEF IInv

-----------------------------------------------------------------------------
LEMMA NextIInv == IInv /\ [Next]_vars => IInv'
<1> SUFFICES ASSUME IInv, [Next]_vars PROVE IInv'
  OBVIOUS
<1>1. TypeOK
  BY DEF IInv
<1>2. CASE UNCHANGED vars
  <2>1. TypeOK'
    BY <1>1, <1>2 DEF vars, TypeOK
  <2>2. QED
    BY <1>2, <2>1, QuietStep DEF vars, files, history
<1>3. ASSUME NEW d \in Docs, NEW u \in Urls, BeginPage(d, u) \/ BeginSource(d, u)
      PROVE  IInv'
  <2>1. /\ phase = "idle" /\ phase' \in {"raw", "check"} /\ job' = [doc |-> d, url |-> u]
        /\ UNCHANGED <<files, tables, history>>
    BY <1>3 DEF BeginPage, BeginSource
  <2>2. TypeOK'
    BY <1>1, <2>1 DEF TypeOK, files, tables, history, Phases
  <2>3. QED
    BY <2>1, <2>2, QuietStep DEF tables
<1>4. ASSUME NEW d \in Docs, NEW u \in Urls, RefuseBody(d, u)
      PROVE  IInv'
  <2>1. /\ phase = "idle"
        /\ manifest' = WriteManifestEntry(manifest, d, RowFor(u, "refused", 0))
        /\ UNCHANGED <<files, vectors, phase, job, history>>
    BY <1>4 DEF RefuseBody
  <2>2. TypeOK'
    BY <1>1, <2>1, RefusedType DEF TypeOK, files, history
  <2>3. QED
    BY <2>1, <2>2, QuietStep
<1>5. ASSUME NEW d \in Docs, NEW u \in Urls, IndexDirectly(d, u)
      PROVE  IInv'
  <2>1. phase = "idle" /\ Indexed(d, u) /\ UNCHANGED <<files, phase, job, history>>
    BY <1>5 DEF IndexDirectly
  <2>2. TypeOK'
    BY <1>1, <2>1, IndexedType DEF TypeOK, files, history
  <2>3. QED
    BY <2>1, <2>2, IndexedKeeps DEF Indexed, history
<1>6. CASE CheckSource \/ RaiseBeforeIndex
  <2>1. /\ phase \in {"check", "raw", "extract"} /\ phase' \in {"idle", "raw"}
        /\ UNCHANGED <<files, tables, job, history>>
    BY <1>6 DEF CheckSource, RaiseBeforeIndex
  <2>2. TypeOK'
    BY <1>1, <2>1 DEF TypeOK, files, tables, history, Phases
  <2>3. QED
    BY <2>1, <2>2, QuietStep DEF tables
<1>7. CASE IndexRaises
  <2>1. /\ RecordFailed /\ phase' = "unlink"
        /\ UNCHANGED <<files, vectors, job, history>>
    BY <1>7 DEF IndexRaises
  <2>2. TypeOK'
    BY <1>1, <2>1, RecordFailedType DEF TypeOK, files, history, Phases
  <2>3. QED
    BY <2>1, <2>2, QuietStep
<1>8. CASE Commit
  <2>1. /\ phase' = "idle" /\ Indexed(job.doc, job.url)
        /\ answered' = answered \cup {job.doc}
        /\ UNCHANGED <<files, job, abandoned>>
    BY <1>8 DEF Commit
  <2>2. job.doc \in Docs /\ job.url \in Urls
    BY <1>1 DEF TypeOK
  <2>3. TypeOK'
    BY <1>1, <2>1, <2>2, IndexedType DEF TypeOK, files, Phases
  <2>4. QED
    BY <2>1, <2>2, <2>3, IndexedKeeps DEF Indexed
<1>9. QED
  BY <1>2, <1>3, <1>4, <1>5, <1>6, <1>7, <1>8, PutRawKeeps, PutExtractedKeeps, DeduplicateKeeps,
     AlreadyIndexedKeeps, UnlinkKeeps, SourceRaisesKeeps, InterruptKeeps DEF Next

(* Every reachable state satisfies the inductive invariant. *)
THEOREM Invariance == Spec => []IInv
BY InitIInv, NextIInv, PTL DEF Spec

(* The variables keep their types: no call writes a manifest row that is none
   or takes a document from nowhere. *)
THEOREM WellTyped == Spec => []TypeOK
<1>1. IInv => TypeOK
  BY DEF IInv
<1>2. QED
  BY <1>1, Invariance, PTL

(* An extracted record rests on its raw file and its provenance line, and its
   document is in the index unless a call left it behind: what
   LiveIngester.ingest removes and what it keeps is neither too much nor too
   little. *)
THEOREM RecordsStaySound == Spec => []RecordsAreSound
<1>1. IInv => RecordsAreSound
  BY DEF IInv, RecordsAreSound
<1>2. QED
  BY <1>1, Invariance, PTL

(* Whoever was told that a page's text is in the index finds it there, unless
   an abandoned record of that text misled the deduplication. *)
THEOREM AnswersAreTrue == Spec => []AnsweredIsSearchable
<1>1. IInv => AnsweredIsSearchable
  BY DEF IInv
<1>2. QED
  BY <1>1, Invariance, PTL

(* No two records of fetched pages have the same text
   (DedupingExtractStore.put), whatever failed in between. *)
THEOREM PagesStayDeduplicated == Spec => []PagesAreDeduplicated
<1>1. IInv => PagesAreDeduplicated
  BY DEF IInv
<1>2. QED
  BY <1>1, Invariance, PTL
=============================================================================
