---------------------------- MODULE OperatorJobs ----------------------------
(***************************************************************************)
(* The commands an operator runs over the message log while the poller     *)
(* goes on appending to it (reputation.build, liveness.build, and freeze   *)
(* and extract of freeze_message_log.py), and over the index while it      *)
(* grows (pipeline.publish and pipeline.lexical).  Each reads its files    *)
(* one after another, computes, and writes its outputs one after another;  *)
(* a kill may come between any two of these steps.  site chooses the       *)
(* commands that are run: they meet only in the log, in did-ledger.jsonl   *)
(* and in the published files.                                             *)
(***************************************************************************)
EXTENDS LivenessMap, LogSnapshot, StaticIndex, Selection

CONSTANTS
    InitLogs,             \* the logs a behaviour may start with
    Feed,                 \* what the server has to send: [text, sender, signed, parses],
                          \* how many messages are lost before it, how much later it comes
    OptionSets,           \* the options the commands may be run with
    Directory,            \* rooms.jsonl
    InitStore,            \* the index a behaviour starts with, and what is added to it:
    Changes,              \* a row of the manifest, or a file of extracted/
    MaxLedgerDefault,     \* ledger.DEFAULT_MAX_BYTES
    MaxKills,             \* bounds of the model, and, for each site, of the
    MaxPolls, MaxJobs     \* additions to log or index and of the commands

Sites == {"ledger", "liveness", "snapshot", "static"}

\* seq grows along a file, as MessageLog shows (LogStaysIncreasing).
Ascends(lines) == \A i, j \in DOMAIN lines : i < j => lines[i].seq < lines[j].seq

ASSUME OperatorAssumption ==
    /\ \A l \in InitLogs :
          /\ DOMAIN l \subseteq Nat /\ IsFiniteSet(DOMAIN l)
          /\ \A r \in DOMAIN l :
                /\ l[r] \in Seq(Range(l[r])) /\ Ascends(l[r])
                /\ \A i \in DOMAIN l[r] : l[r][i].seq \in Nat /\ l[r][i].ts \in Nat
    /\ \A m \in Feed : m.lost \in Nat /\ m.later \in Nat
    /\ DOMAIN InitStore.rows \subseteq DOMAIN Words /\ InitStore.db \in Nat
    /\ \A c \in Changes : c.what = "row" => c.doc \in DOMAIN Words
    /\ MaxKills \in Nat /\ \A s \in Sites : MaxPolls[s] \in Nat /\ MaxJobs[s] \in Nat

\* DIDs, limits and sizes are numbers, texts those of Attr.
ASSUME SizesAssumption ==
    /\ \A l \in InitLogs : \A r \in DOMAIN l : \A i \in DOMAIN l[r] :
          l[r][i].sender \in Nat /\ l[r][i].text \in DOMAIN Attr
    /\ \A m \in Feed : m.sender \in Nat /\ m.text \in DOMAIN Attr
    /\ \A o \in OptionSets :
          /\ {"now", "rooms", "notes", "window", "minNew", "perMinute",
              "maxCompact", "maxMap", "maxCompactMap"} \subseteq DOMAIN o
          /\ {o.window, o.minNew, o.maxCompact, o.maxMap, o.maxCompactMap} \subseteq Nat
    /\ {MaxAge, Unit, RowBytes, BurstBytes, HeaderBytes, ServedBytes} \subseteq Nat
    /\ {MapBytes, AgentBytes, CompactAgentBytes, TierBytes} \subseteq Nat

\* A manifest as IndexStore leaves it, with one live document for a URL.
IsIndex(rows) ==
    /\ DOMAIN rows \subseteq DOMAIN Words
    /\ \A d \in DOMAIN rows : rows[d] \in Entries
    /\ \A d, e \in DOMAIN rows :
          rows[d].status = "indexed" /\ rows[e].status = "indexed"
             /\ rows[d].source_url = rows[e].source_url => d = e

ASSUME IndexAssumption ==
    /\ IsIndex(InitStore.rows)
    /\ \A c \in Changes : c.what = "row" => c.row \in Entries
    /\ \A o \in OptionSets :
          {"maxLexical", "maxLexicalAlone"} \subseteq DOMAIN o /\ {o.maxLexical, o.maxLexicalAlone} \subseteq Nat

VARIABLES
    site,                 \* "ledger", "liveness", "snapshot" or "static"
    opts,                 \* the options given to every command
    log, gaps,            \* messages/*.jsonl and the gaps of message-log-state.json
    clock,
    store,                \* the manifest rows, the version of the database, extracted/
    job,                  \* the command that runs, with what it holds in memory
    disk,                 \* the derived files
    basis,                \* ghost: output -> the rows read, when, and what was built of them
    polls, jobs, kills    \* how often each has happened

vars == <<site, opts, log, gaps, clock, store, job, disk, basis, polls, jobs, kills>>

----------------------------------------------------------------------------
Idle == [kind |-> "none", step |-> "none", now |-> 0, read |-> << >>, held |-> NoFile]

Outputs == {"ledger", "shards", "oldShards", "compact", "map", "compactMap",
            "archive", "manifest", "extract", "manifestJson", "surface", "lexical"}

OptsAt(now) == [opts EXCEPT !.now = now]

Init ==
    /\ site \in Sites
    /\ opts \in OptionSets
    /\ store = InitStore
    /\ log \in InitLogs
    /\ gaps = [room \in DOMAIN log |-> Cardinality(GapIntervals({l.seq : l \in Range(log[room])}))]
    /\ clock = Max({0} \cup UNION {{log[r][i].ts : i \in DOMAIN log[r]} : r \in DOMAIN log})
    /\ job = Idle
    /\ disk = [f \in Outputs |-> NoFile]
    /\ basis = [f \in Outputs |-> NoFile]
    /\ polls = 0 /\ jobs = 0 /\ kills = 0

----------------------------------------------------------------------------
(* The poller, as far as the commands see it: MessageLog has the rest.     *)

LastSeq(lines) == IF lines = <<>> THEN 0 ELSE lines[Len(lines)].seq

(* One gap for however many messages were lost, and none before the first
   logged message. *)
NewGaps(lines, lost) == IF lines # <<>> /\ lost > 0 THEN 1 ELSE 0

\* The poller without its bound.
PollUnbounded(room, message) ==
    /\ polls <= MaxPolls[site]
    /\ polls' = polls + 1
    /\ clock' = clock + message.later
    /\ UNCHANGED <<site, opts, log, gaps, store, job, disk, basis, jobs, kills>>

Poll(room, message) ==
    /\ site # "static" /\ polls < MaxPolls[site]
    /\ polls' = polls + 1
    /\ clock' = clock + message.later
    /\ log' = [log EXCEPT ![room] = Append(@,
          [seq |-> LastSeq(@) + 1 + message.lost, ts |-> clock', sender |-> message.sender,
           text |-> message.text, signed |-> message.signed, parses |-> message.parses])]
    /\ gaps' = [gaps EXCEPT ![room] = @ + NewGaps(log[room], message.lost)]
    /\ UNCHANGED <<site, opts, store, job, disk, basis, jobs, kills>>

\* The indexer, as far as publishing sees it: IndexStore has the rest.  A
\* transaction writes a row and makes a new database file; the extracted
\* record of a document is a file of its own.
Index(change) ==
    /\ site = "static" /\ polls < MaxPolls[site]
    /\ polls' = polls + 1
    /\ store' = IF change.what = "row"
                   THEN [store EXCEPT !.rows = Table!WriteManifestEntry(@, change.doc, change.row),
                                      !.db = @ + 1]
                   ELSE [store EXCEPT !.extracted = @ \cup {change.doc}]
    /\ UNCHANGED <<site, opts, log, gaps, clock, job, disk, basis, jobs, kills>>

----------------------------------------------------------------------------
(* Starting, reading, ending.                                              *)

Untouched == UNCHANGED <<site, opts, log, gaps, clock, store, polls>>

Start(kind, step, held) ==
    /\ job = Idle /\ jobs < MaxJobs[site]
    /\ jobs' = jobs + 1
    /\ job' = [kind |-> kind, step |-> step, now |-> clock, read |-> << >>, held |-> held]
    /\ UNCHANGED <<disk, basis, kills>> /\ Untouched

\* The rooms a command reads, in the order of their names.
Scope(kind) ==
    IF kind = "freeze" THEN DOMAIN log \ opts.exclude ELSE opts.rooms \cap DOMAIN log

Unread == Scope(job.kind) \ DOMAIN job.read

ReadRoom ==
    /\ job.kind \in {"ledger", "liveness", "freeze"} /\ job.step = "reading"
    /\ Unread # {}
    /\ LET room == Min(Unread)
       IN  job' = [job EXCEPT !.read = [r \in DOMAIN @ \cup {room} |->
                                          IF r = room THEN log[r] ELSE @[r]]]
    /\ UNCHANGED <<disk, basis, jobs, kills>> /\ Untouched

\* The command has everything it reads and takes its first step of writing.
ReadyFor(kind) == job.kind = kind /\ job.step = "reading" /\ Unread = {}
At(step) == job.step = step

Goes(next) ==
    /\ job' = next
    /\ UNCHANGED <<jobs, kills>> /\ Untouched
Fails == Goes(Idle) /\ UNCHANGED <<disk, basis>>

Writes(output, content, source) ==
    /\ disk' = [disk EXCEPT ![output] = content]
    /\ basis' = [basis EXCEPT ![output] = [log |-> job.read, now |-> job.now, of |-> source]]

----------------------------------------------------------------------------
(* reputation.build: the ledger, its shards, its compact form.             *)

StartLedger == site \in {"ledger", "liveness"} /\ Start("ledger", "reading", NoFile)

BuiltLedger == BuildLedger(job.read, OptsAt(job.now))

\* write_ledger: refused before anything is written if it is too large.
WriteLedger ==
    /\ ReadyFor("ledger")
    /\ \E ledger \in {BuiltLedger} :
          IF LedgerSize(ToJsonl(ledger)) > opts.maxLedger
            THEN Fails
            ELSE /\ Writes("ledger", ToJsonl(ledger), ledger)
                 /\ Goes(IF opts.publishes THEN [job EXCEPT !.step = "split", !.held = ledger] ELSE Idle)

Staged == SplitLedger(ToJsonl(job.held), opts.maxShard)

\* write_shards up to the checked staging directory, which nobody reads.
StageShards ==
    /\ At("split")
    /\ IF Staged = NoFile
         THEN Fails
         ELSE IF JoinShards(Staged.index, Staged.files) # ToJsonl(job.held)
         THEN Fails
         ELSE /\ Goes([job EXCEPT !.step = IF disk.shards = NoFile THEN "install"
                                           ELSE IF disk.oldShards = NoFile THEN "retire"
                                           ELSE "clear"])
              /\ UNCHANGED <<disk, basis>>

\* The old copy a killed swap has left is removed while out_dir is there.
ClearOldShards ==
    /\ At("clear")
    /\ disk' = [disk EXCEPT !.oldShards = NoFile]
    /\ basis' = [basis EXCEPT !.oldShards = NoFile]
    /\ Goes([job EXCEPT !.step = "retire"])

\* The old copy is removed before the new one is in its place.
RetireShardsRemoves ==
    /\ At("retire")
    /\ disk' = [disk EXCEPT !.shards = NoFile]
    /\ basis' = [basis EXCEPT !.shards = NoFile]
    /\ Goes([job EXCEPT !.step = "installOver"])

RetireShards ==
    /\ At("retire")
    /\ disk' = [disk EXCEPT !.shards = NoFile, !.oldShards = disk.shards]
    /\ basis' = [basis EXCEPT !.shards = NoFile, !.oldShards = basis.shards]
    /\ Goes([job EXCEPT !.step = "installOver"])

InstallShards ==
    /\ job.step \in {"install", "installOver"}
    /\ Writes("shards", Staged, job.held)
    /\ Goes([job EXCEPT !.step = IF @ = "installOver" THEN "drop" ELSE "compact"])

DropOldShards ==
    /\ At("drop")
    /\ disk' = [disk EXCEPT !.oldShards = NoFile]
    /\ basis' = [basis EXCEPT !.oldShards = NoFile]
    /\ Goes([job EXCEPT !.step = "compact"])

WriteCompact ==
    /\ At("compact")
    /\ LET artifact == FitCompact(job.held, opts.maxCompact)
       IN  IF artifact = NoFile
             THEN Fails
             ELSE Writes("compact", artifact, job.held) /\ Goes(Idle)

----------------------------------------------------------------------------
(* liveness.build, against whatever ledger is on disk.                     *)

StartLiveness ==
    /\ site = "liveness"
    /\ disk.ledger # NoFile /\ LedgerLoads(disk.ledger, MaxLedgerDefault)
    /\ Start("liveness", "reading", LoadLedger(disk.ledger))

BuiltMap == BuildLiveness(job.read, gaps, job.held, Directory, OptsAt(job.now))

WriteMap ==
    /\ ReadyFor("liveness")
    /\ \E m \in {BuiltMap} :
          IF m = NoFile \/ FitFull(m, opts.maxMap) = NoFile
            THEN Fails
            ELSE /\ Writes("map", FitFull(m, opts.maxMap), m)
                 /\ Goes([job EXCEPT !.step = "compactMap", !.held = m])

WriteCompactMap ==
    /\ At("compactMap")
    /\ LET artifact == FitCompactMap(job.held, opts.maxCompactMap)
       IN  IF artifact = NoFile
             THEN Fails
             ELSE Writes("compactMap", artifact, job.held) /\ Goes(Idle)

----------------------------------------------------------------------------
(* freeze_message_log.py.  freeze refuses to overwrite; what it holds in   *)
(* memory is the manifest.                                                 *)

StartFreeze ==
    /\ site = "snapshot"
    /\ Scope("freeze") # {}
    /\ disk.archive = NoFile /\ disk.manifest = NoFile
    /\ Start("freeze", "reading", NoFile)

\* The manifest describes the rooms as they are when the archive is written.
WriteArchiveRereads ==
    /\ ReadyFor("freeze")
    /\ Writes("archive", Archive(job.read), NoFile)
    /\ LET again == [r \in DOMAIN job.read |-> log[r]]
       IN  Goes([job EXCEPT !.step = "manifest",
                            !.held = [ArchiveManifest(again, DOMAIN log \ DOMAIN again, job.now)
                                        EXCEPT !.tarSha256 = job.read]])

WriteArchive ==
    /\ ReadyFor("freeze")
    /\ Writes("archive", Archive(job.read), NoFile)
    /\ Goes([job EXCEPT !.step = "manifest",
                        !.held = ArchiveManifest(job.read, DOMAIN log \ DOMAIN job.read, job.now)])

WriteManifest ==
    /\ At("manifest")
    /\ Writes("manifest", job.held, NoFile)
    /\ Goes(Idle)

\* extract: the archive alone is read, and messages/ must not be there yet.
StartExtract ==
    /\ site = "snapshot"
    /\ disk.archive # NoFile /\ disk.archive.whole
    /\ disk.extract = NoFile
    /\ job = Idle /\ jobs < MaxJobs[site]
    /\ jobs' = jobs + 1
    /\ job' = [kind |-> "extract", step |-> "files", now |-> clock,
               read |-> disk.archive.members, held |-> NoFile]
    /\ disk' = [disk EXCEPT !.extract = [members |-> << >>]]
    /\ UNCHANGED <<basis, kills>> /\ Untouched

ExtractedRooms == DOMAIN disk.extract.members
NextMember == Min(DOMAIN job.read \ ExtractedRooms)
WithMember(lines) ==
    [members |-> [r \in ExtractedRooms \cup {NextMember} |->
                    IF r = NextMember THEN lines ELSE disk.extract.members[r]]]

ExtractFile ==
    /\ At("files")
    /\ Writes("extract", WithMember(job.read[NextMember]), NoFile)
    /\ Goes(IF DOMAIN disk'.extract.members = DOMAIN job.read THEN Idle ELSE job)

----------------------------------------------------------------------------
(* pipeline.publish, build_static_index: the rows are read once, the       *)
(* database is hashed later, extracted/ is read for the surface file and   *)
(* again for the lexical index, which may be refused for its size alone.   *)

StartPublish ==
    /\ site = "static"
    /\ Start("publish", "hash", [rows |-> store.rows, at |-> store.db, run |-> jobs + 1])

HashDatabase ==
    /\ At("hash")
    /\ Goes([job EXCEPT !.step = "manifestJson",
                        !.held = [rows |-> @.rows, at |-> @.at, run |-> @.run, db |-> store.db]])
    /\ UNCHANGED <<disk, basis>>

WriteManifestJson ==
    /\ At("manifestJson")
    /\ Writes("manifestJson", ManifestObj(job.held.rows, job.held.db), job.held)
    /\ Goes([job EXCEPT !.step = "surface", !.read = Surface(job.held.rows, store.extracted)])

WriteSurface ==
    /\ At("surface")
    /\ Writes("surface", job.read, job.held)
    /\ Goes([job EXCEPT !.step = "lexical", !.read = << >>])

\* A publication that reads the manifest again for its lexical index.
WriteLexicalRereads ==
    /\ At("lexical")
    /\ LET docs == LexicalDocs(store.rows, store.extracted)
           index == BuildLexicalIndex(docs, job.held.db)
       IN  IF LexicalSize(index) > opts.maxLexical
             THEN Fails
             ELSE Writes("lexical", index, [at |-> job.held.at, run |-> job.held.run, docs |-> docs])
                    /\ Goes(Idle)

\* The refusal of an index that is too large leaves the old one; the
\* publication has succeeded all the same.
WriteLexical ==
    /\ At("lexical")
    /\ LET docs == LexicalDocs(job.held.rows, store.extracted)
           index == BuildLexicalIndex(docs, job.held.db)
       IN  IF LexicalSize(index) > opts.maxLexical
             THEN Fails
             ELSE Writes("lexical", index, [at |-> job.held.at, run |-> job.held.run, docs |-> docs])
                    /\ Goes(Idle)

\* pipeline.lexical, on its own: rows, then texts, then the hash.
StartLexical ==
    /\ site = "static"
    /\ Start("lexical", "docs", [rows |-> store.rows, at |-> store.db, run |-> jobs + 1])

ReadLexicalDocs ==
    /\ At("docs")
    /\ Goes([job EXCEPT !.step = "lexicalAlone",
                        !.held = [at |-> @.at, run |-> @.run,
                                  docs |-> LexicalDocs(@.rows, store.extracted)]])
    /\ UNCHANGED <<disk, basis>>

WriteLexicalAlone ==
    /\ At("lexicalAlone")
    /\ LET index == BuildLexicalIndex(job.held.docs, store.db)
       IN  IF LexicalSize(index) > opts.maxLexicalAlone
             THEN Fails
             ELSE Writes("lexical", index, job.held) /\ Goes(Idle)

----------------------------------------------------------------------------
(* A kill.  Files that are replaced atomically are whole or absent; those  *)
(* of the freeze script are written in place, and may be cut short.        *)

CutShort ==
    \/ UNCHANGED disk
    \/ job.kind = "freeze" /\ ReadyFor("freeze") /\ disk' = [disk EXCEPT !.archive = Truncated]
    \/ At("manifest") /\ disk' = [disk EXCEPT !.manifest = Truncated]
    \/ /\ At("files")
       /\ \E n \in 0..(Len(job.read[NextMember]) - 1) :
             disk' = [disk EXCEPT !.extract = WithMember(SubSeq(job.read[NextMember], 1, n))]

Kill ==
    /\ job # Idle /\ kills < MaxKills
    /\ kills' = kills + 1
    /\ job' = Idle
    /\ CutShort
    /\ UNCHANGED <<basis, jobs>> /\ Untouched

Next ==
    \/ \E room \in DOMAIN log, message \in Feed : Poll(room, message)
    \/ \E change \in Changes : Index(change)
    \/ ReadRoom
    \/ StartLedger \/ WriteLedger \/ StageShards \/ ClearOldShards \/ RetireShards
    \/ InstallShards \/ DropOldShards \/ WriteCompact
    \/ StartLiveness \/ WriteMap \/ WriteCompactMap
    \/ StartFreeze \/ WriteArchive \/ WriteManifest
    \/ StartExtract \/ ExtractFile
    \/ StartPublish \/ HashDatabase \/ WriteManifestJson \/ WriteSurface \/ WriteLexical
    \/ StartLexical \/ ReadLexicalDocs \/ WriteLexicalAlone
    \/ Kill

Spec == Init /\ [][Next]_vars

----------------------------------------------------------------------------
(* Types.                                                                  *)

TypeOK ==
    /\ site \in Sites /\ opts \in OptionSets
    /\ DOMAIN gaps = DOMAIN log /\ clock \in Nat
    /\ DOMAIN store.rows \subseteq DOMAIN Words /\ store.db \in Nat
    /\ job.kind \in {"none", "ledger", "liveness", "freeze", "extract", "publish", "lexical"}
    /\ job.step \in {"none", "reading", "split", "clear", "retire", "install", "installOver",
                     "drop", "compact", "compactMap", "manifest", "files", "hash", "manifestJson",
                     "surface", "lexical", "docs", "lexicalAlone"}
    /\ DOMAIN disk = Outputs /\ DOMAIN basis = Outputs
    /\ polls \in 0..MaxPolls[site] /\ jobs \in 0..MaxJobs[site] /\ kills \in 0..MaxKills

----------------------------------------------------------------------------
(* Properties.                                                             *)

\* What the compact ledger answers is what its ledger says: it loads within
\* its limit, it holds exactly the DIDs its served header promises, no tie
\* group more would have fitted, and every DID it holds has the score and
\* the burst mark of the ledger, a miss always saying what is served.
\* About the partition, the binary search and the cut of compact._fit.
CompactFaithful ==
    disk.compact # NoFile =>
      LET a == disk.compact
          ledger == basis.compact.of
          lastSeen == LastSeenOf(ledger)
          held == DOMAIN a.nonBurst \cup DOMAIN a.burst
          ranked == Ranked(lastSeen)
          Longer(k) == CompactObj(ledger, Newest(k, ranked), Served(k, ranked, lastSeen))
      IN  /\ CompactLoads(a, opts.maxCompact)
          /\ ServesExactly(held, a.served, lastSeen)
          /\ \A k \in (Cardinality(held) + 1)..Len(ranked) :
                Boundary(k, ranked, lastSeen) = k => CompactSize(Longer(k)) > opts.maxCompact
          /\ \A d \in DOMAIN ledger.rows :
                LET answer == Lookup(a, d)
                IN  /\ answer.found <=> d \in held
                    /\ answer.found => /\ answer.score = ledger.rows[d].score.score
                                       /\ answer.burst = ledger.rows[d].score.burst
                    /\ ~answer.found => answer.served # NoServed

\* Whatever build is killed where, once shards have been published there is
\* a directory, did-ledger or the one kept aside, that joins to the ledger
\* it was split from, every shard within its limit.  About the two renames
\* of write_shards and what its next run does with what a kill has left.
ShardsOnDisk(f) ==
    /\ disk[f] # NoFile
    /\ JoinShards(disk[f].index, disk[f].files) = ToJsonl(basis[f].of)
Published == ShardsOnDisk("shards") \/ ShardsOnDisk("oldShards")
ShardsStayPublished == [][Published => Published']_vars

\* Posting in bursts buys nothing: a burst member scores 0, and no other DID
\* scores more than it would if no burst member had posted at all.  About
\* the burst groups, the rate rule, the suffixes that become ambiguous and
\* the inbound count of score.py, over rooms read at different times.
WithoutSenders(read, dids) ==
    [room \in DOMAIN read |-> Kept(read[room], {l \in Range(read[room]) : l.sender \notin dids})]

BurstBuysNothing ==
    disk.ledger # NoFile =>
      LET rows == RowsOfFile(disk.ledger)
          burst == {d \in DOMAIN rows : rows[d].score.burst}
          without == BuildLedger(WithoutSenders(basis.ledger.log, burst),
                                 OptsAt(basis.ledger.now)).rows
      IN  \A d \in DOMAIN rows :
            IF d \in burst
              THEN rows[d].score.score = 0
              ELSE d \in DOMAIN without /\ rows[d].score.score <= without[d].score.score

\* The two liveness maps: each loads, and holds exactly the agents its
\* header promises; the signed posters are those listed, those outside the
\* window and those the ledger does not know, none twice; a tier follows
\* from the 16 values of the compact entry unless the DID is a burst member,
\* and a class from the facts shown with it unless it fell back; and two
\* maps of one build agree on every room and on every agent both hold.
\* About a ledger older than the log, the window and the fitting.
SignedPosters(read) == SendersOf({r \in LoadRows(read, opts.rooms) : r.signed})

MapComplete(f, tierOf) ==
    LET m == basis[f].of
    IN  /\ ServesExactly(DOMAIN tierOf, disk[f].served, LastSeenIn(m))
        /\ Cardinality(SignedPosters(basis[f].log))
              = Cardinality(DOMAIN m.agents) + m.outside + m.notInLedger
        /\ \A r \in DOMAIN disk[f].rooms :
              LET v == disk[f].rooms[r].verdict
              IN  ~v.fallback => v.class = ClassFromTable(v.decidedOn, v.signals)
        /\ \A d \in DOMAIN tierOf :
              tierOf[d] = IF m.agents[d].signals.burst THEN "farm"
                            ELSE TierFromPoints(CompactAgent(m.agents[d].signals, m.agents[d].verdict))

LivenessFaithful ==
    /\ disk.map # NoFile =>
         FullLoads(disk.map, opts.maxMap) /\ MapComplete("map", Tiers(disk.map.agents))
    /\ disk.compactMap # NoFile =>
         /\ CompactMapLoads(disk.compactMap, opts.maxCompactMap)
         /\ MapComplete("compactMap", CompactTiers(disk.compactMap.agents))
    /\ (disk.map # NoFile /\ disk.compactMap # NoFile /\ basis.map = basis.compactMap) =>
         /\ disk.map.rooms = disk.compactMap.rooms
         /\ \A d \in DOMAIN disk.map.agents \cap DOMAIN disk.compactMap.agents :
               disk.compactMap.agents[d].points = disk.map.agents[d].verdict.points

\* A frozen log is what it says: an archive that verifies against its
\* manifest holds, for every room, a prefix of the log, and shows no gap
\* but those the poller recorded and the lines that are no rows; an archive cut short by a kill
\* never verifies; and a log root whose extraction came to its end gives the
\* ledger of the rows that were frozen.  About a poller that appends while
\* the rooms are read, and about kills between the writes.
Verified == disk.archive # NoFile /\ disk.manifest # NoFile /\ Verify(disk.archive, disk.manifest)
Extracted == disk.extract # NoFile /\ basis.extract # NoFile
                /\ disk.extract.members = basis.extract.log

FrozenLogReproduces ==
    /\ Verified =>
         /\ \A r \in DOMAIN disk.archive.members :
               IsPrefix(disk.archive.members[r], log[r])
         /\ \A r \in DOMAIN disk.manifest.rooms :
               Cardinality(disk.manifest.rooms[r].gaps) <= gaps[r] + disk.manifest.rooms[r].malformed
    /\ (disk.manifest # NoFile /\ disk.manifest.whole) => Verified
    /\ Extracted => BuildLedger(disk.extract.members, OptsAt(basis.extract.now))
                       = BuildLedger(basis.archive.log, OptsAt(basis.extract.now))

\* What the published files of an index say of each other, whoever indexes
\* meanwhile and whatever publication was cut short.  No file names a
\* database older than its rows; surface and manifest of one publication
\* list the same live documents, one for a URL, and manifest.json is never
\* the older of the two; the lexical index of that publication has the
\* lines of the surface file, with every abstract that file has; and a term
\* finds every document it stands in unless it stands in too many of them.
\* About the one read of the manifest that build_static_index hands on.
OfOnePublication(f, g) ==
    disk[f] # NoFile /\ disk[g] # NoFile /\ basis[f].of.run = basis[g].of.run

SameDocuments(index, surface) ==
    /\ Len(index.docs) = Len(surface)
    /\ \A i \in DOMAIN surface :
          /\ index.docs[i].doc = surface[i].doc
          /\ index.docs[i].url = surface[i].url
          /\ surface[i].abstract \in {NoText, index.docs[i].abstract}

FindsByTerm(index, docs) ==
    \A t \in TermsIn(docs) :
       LET hits == Search(index, <<t>>, MaxK, AnyKind)
       IN  IF TooFrequent(Cardinality(Having(t, docs)), Len(docs))
             THEN hits = <<>>
             ELSE Range(hits) = Having(t, docs) \/ Len(hits) = MaxK

StaticFaithful ==
    /\ \A f \in {"manifestJson", "lexical"} : disk[f] # NoFile => disk[f].db >= basis[f].of.at
    /\ OfOnePublication("manifestJson", "surface") =>
         LET live == {e \in Range(disk.manifestJson.documents) : e[3].status = "indexed"}
         IN  /\ {<<s.url, s.doc>> : s \in Range(disk.surface)} = {<<e[1], e[2]>> : e \in live}
             /\ Cardinality({e[1] : e \in live}) = Cardinality(live)
             /\ disk.manifestJson.counts["indexed"] = Len(disk.surface)
    /\ disk.surface # NoFile => disk.manifestJson # NoFile
                                  /\ basis.manifestJson.of.run >= basis.surface.of.run
    /\ OfOnePublication("surface", "lexical") => SameDocuments(disk.lexical, disk.surface)
    /\ disk.lexical # NoFile =>
         /\ LexicalLoads(disk.lexical, Max({opts.maxLexical, opts.maxLexicalAlone}))
         /\ FindsByTerm(disk.lexical, basis.lexical.of.docs)
=============================================================================
