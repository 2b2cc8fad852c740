# OpenAgentSearch: a TLA+ verification development

OpenAgentSearch crawls public pages and source documents about FLOP agents, indexes them in one
SQLite file, keeps an append-only log of the public message rooms of a Technocore server, derives
reputation and liveness tables from that log, and publishes the results as static files, a local
HTTP API, an MCP server and a Worker. Most of the program is pure (parse, score, render). What is
hard is the part that keeps state on disk or in memory and may be interrupted, raced or retried at any
point, and the derivations whose results are published and must agree with each other. This directory
models both, checks them with TLC, and proves with TLAPS every safety property the passing runs check.

Paths below are relative to the repository's own root (`PROJECT.json` writes them with a leading
`src/`). `PROJECT.json` maps every definition to the lines it models.

## 1. Inventory

### Components with state

| Component | State | Operations | Interacts with | What is hard | What makes it correct |
|---|---|---|---|---|---|
| Vector store and manifest (`index/manifest.py`, `vector/store.py`) | two tables in one SQLite file | `add_many`, `record_manifest`, `existing_chunk_ids` | every indexer, publication, API | the lock covers one call, never two; a failure is recorded in a transaction of its own | all-or-nothing documents; one live version per URL; the manifest never ahead of the vectors |
| Indexing (`pipeline/index.py`) | the local variables of a call | `index_document`, `index_source_document(s)`, `index_documents` | extraction, embedder, store | the refusal check is stale by the time of the insert; a race loser records a failure | one winner per document; a failure never takes a live version down |
| Live ingestion (`pipeline/ingest.py`, `extract/`, `fetch/rawstore.py`) | `raw/`, `provenance.jsonl`, `extracted/` next to the tables | `LiveIngester.ingest`, `DedupingExtractStore.put` | crawl loop, store, embedder | four writes in sequence, any of which may raise or be interrupted, after which the page is retried | a record has its provenance; records match the index; a page told "indexed" is searchable |
| Crawl loop (`pipeline/crawl.py`, `fetch/budget.py`) | frontier, visited set, per-host counts, `crawl-state.json`, `STOP-<host>` files | `run_crawl`, `_checkpoint`, `--resume` | live ingestion, links | requeueing of pages of exhausted hosts; checkpoints older than the work done; stale markers | no page lost or fetched twice; the budget holds across resumptions; the loop ends |
| Message log (`bin/message_log.py`, `sources/technocore_messages.py`) | `messages/<room>.jsonl`, `message-log-state.json` | sweep, fetch with retries, `parse_room_page`, `append` | the room server (external) | two files written one after the other; kills inside a line; the server serves only its newest messages | ascending log without duplicates; every loss in a recorded gap; it catches up |
| Room crawler (`bin/crawl.py`) | `cursor.json`, `rooms.jsonl`, a token bucket | sweep, follow, harvest, flush | the room server (external) | two files again; a cursor that must not pass rooms that are not saved; request caps | no room the cursor passed is forgotten; a pass covers every known room; capped runs end |
| Room selection (`bin/message_log.py`, `sources/technocore_messages.py`) | the list of rooms of one run | `rooms_from_liveness`, `select_rooms` | `liveness.json`, `rooms.jsonl`, the poller | three sources, exclusions, ties, missing or stale rows | each room once, none private or excluded, explicit ones first |
| Reputation ledger (`reputation/`) | `did-ledger.jsonl`, the shard directory, `did-ledger-compact.json` | load the log, extract facts, score, write, split, fit, load, look up | the live log, the Worker | a log that grows while its rooms are read; greedy burst groups; a fit to a size limit; a directory swapped by two renames | the three files say the same of every DID; bursts buy nothing; published shards survive a kill |
| Liveness map (`liveness/`) | `liveness.json`, `liveness-compact.json` | room windows, classes, agent signals, tiers, window filter, fit, load | the live log, the gaps of the poller's state, an earlier ledger, the poller's next run | a ledger older than the log; decision tables with fallbacks; counts that shrink with the fit | nobody lost or counted twice; both files give the same class and tier |
| Log freezing (`scripts/freeze_message_log.py`) | archive, manifest, extracted root | `freeze`, `verify`, `extract` | the live log | a growing log, writes in place | a verified archive is a prefix of the log; its extraction reproduces the ledger |
| Publication (`pipeline/publish.py`, `pipeline/lexical.py`, `lexical/`) | the files under `out/index/` | `build_static_index`, `write_lexical_index`, load, search | store, extraction, readers of the files | several atomic replaces that together are not atomic; a concurrent indexer | files of one publication describe the same documents; each is true to the rows it was built of |
| Chain facts (`flop/chain.py`) | the sink, the caller's `since_height` | `ingest_finalized_facts` | a chain node (external) | a head that moves during the iteration, repeated calls | nothing above finality, nothing twice, nothing skipped |
| Session-router provider (`integrations/flop-session-router/src`) | lookup cache, version cache, in-flight table, slot counter and waiters, last snapshot | `candidates`, `facts`, `version`, `snapshot` | the Worker, over HTTP | interleavings at every `await`, failures and timeouts, eviction, a ledger replaced meanwhile | slots bounded and never leaked; sharers agree; answers fresh; failures are not cached |
| Worker (`worker/src`) | none: the ledger is bundled with the deployment | `/did/`, `/healthz`, `/search` | the provider, the rate limiter of its host | redeployment between two answers | what it answers is what the bundled ledger says |
| Sandbox and gate (`sandbox/`, `scripts/gate.py`) | a temporary directory, a result file | `run_python_in_sandbox`, `run_contribution_gate` | a child process | time-outs | every run recorded once, fail-closed |
| Local API (`api/`) | a server thread and a store | requests, shutdown | store, embedder | shutdown during a request | requests are functions of one read |

### Pure parts

Allow-list, robots rules, link normalisation, chunker, HTML extraction, source adapters, embedders,
cosine search, wire decoding, Merkle paths and settlement sums, MCP, evaluation and verification
scripts. They keep no state between calls. Facts, scores, burst groups, signals, verdicts, fitting,
freezing, tokens and postings are pure as well, and are modelled as operators that the actions of the
operator's commands apply to what they have read. Chunker and settlement are in the plan; the others
are listed as not modelled, with the reason, in `PROJECT.json`.

### How the parts interact

`run_crawl` is one loop in one process: it pops a URL, calls `LiveIngester.ingest`, which fetches,
writes the files and calls `index_document`, which writes the store. Several such processes, and the
source pipeline, may share the SQLite file. The message log and the room crawler are separate processes
with a root directory each. The reputation and liveness builders read the *live* log, room after room,
while the poller appends to it; the liveness builder also reads the ledger an earlier run has left and
the gaps of the poller's state file, and its map is one of the sources from which the poller's next run
takes its rooms. Publication reads the manifest once, the database file later and the extracted records
later still, while an indexer may write all three. The compact ledger and the lexical index are bundled
with the Worker, which the session-router provider asks over HTTP.

## 2. Modules

| Module | Models | Composition |
|---|---|---|
| `Manifest` | what one transaction of the store does to the two tables, as operators on values | used by `IndexStore` and `LiveIngest`, so that both see the same SQL |
| `IndexStore` | concurrent callers of `index_document` on one file | extends `Manifest` |
| `LiveVersions` | what the index promises a reader: documents published one at a time | the abstract specification of `IndexStore` |
| `Selection` | what a loop leaves that copies some elements of a list | used by `CrawlLoop`, `MessageLog`, `LedgerService`, `OperatorJobs` |
| `Ordering` | Python's `sorted` over a finite set | used by `DidFacts`, `Fitting`, `StaticIndex` |
| `LiveIngest` | `ingest` and `index_source_document` from the files to the tables, one process | extends `Manifest` |
| `CrawlLoop` | `run_crawl` with its budget, markers, checkpoints and resumptions | `ingest` seen from the loop |
| `MessageLog` | the sweep over the rooms and `MessageLog.append` | the server is external |
| `RoomCrawler` | `bin/crawl.py`, both modes | the server is external |
| `RoomSelection` | which rooms a run of the poller polls, and in which order | applied in `MCMessageLog` |
| `MessageText` | what the builders recognise in one message: mentions, job steps, templates | used by `DidFacts` |
| `DidFacts` | loading the log, facts of a DID, burst groups, scores | extends `MessageText` |
| `Fitting` | the largest prefix of a ranking that fits a limit without splitting a tie | used by both artifacts |
| `ReputationLedger` | the ledger file, its shards, its compact form and their loaders | extends `DidFacts`, `Fitting` |
| `RoomClasses` | windows of a room, its signals and its class | extends `DidFacts` |
| `AgentTiers` | signals of an agent, its points and its tier | extends `ReputationLedger`, `RoomClasses` |
| `LivenessMap` | the map, its two serialisations and their loaders | extends `AgentTiers` |
| `LogSnapshot` | archive, manifest and verification of a frozen log | extends `DidFacts` |
| `StaticIndex` | the published files of an index, lexical index and search included | uses `Manifest` for the store |
| `OperatorJobs` | the commands that derive and publish files, beside poller and indexer, with kills | extends the four above |
| `LedgerService` | the session-router provider against a Worker that is redeployed | |
| `SequenceLemmas` | lemmas: sequences without repetitions, increasing and sorted ones, selections, sums and maxima | extends `Selection`, `Ordering`, `TLAPS` |
| `IndexStoreProofs`, `LiveIngestProofs`, `RoomCrawlerProofs` | theorems about these components | extend the component and `TLAPS` |
| `CrawlLoopProofs`, `MessageLogProofs`, `LedgerServiceProofs`, `OperatorJobsProofs` | theorems about these components | extend the component and `SequenceLemmas` |
| `MC...` | the instances TLC runs on | one per component |

### IndexStore

A document is its content hash, so two documents are never byte-identical; vectors, texts and times
are left out, and what `chunk_text` makes of a text is a constant, `ChunkCount`. `pc` holds the place
of each caller between two store calls, because the store's lock covers one call only: `CheckExisting`
is the first locked read, `Embed` stands for all the embedding calls made with no lock held, `AddMany`
is the transaction that inserts the rows *and* writes the manifest entry, `RecordFailed` is the
`except` clause. A row for a chunk id that exists is an IntegrityError, which rolls back. A document
whose text is empty has no chunks; it is never refused and may move from URL to URL, which is why
`LiveReplacedOnlyByNewer` and `LiveVersions!Publish` have a case for it. `Crash` forgets a caller; a
committed transaction stays.

### LiveIngest

One call at a time, one action per write: `PutRaw` (file, then provenance line), `PutExtracted`,
`Commit`. `IsSource` separates the two entry points: `ingest` removes its record when the indexing
raises (`Unlink`), `index_source_document` does not. The raw file and the record may be *torn* by a
death inside a write. `Interrupt` also covers KeyboardInterrupt, which the `except Exception` clauses
let through. Deduplication compares texts with every record on disk, hence two documents with the
same text in the instance. Two history variables remember what an interruption left behind and what
callers were told.

### CrawlLoop

`crawl` is exactly what `_checkpoint` saves, plus three history fields. `frontierSet` is kept apart
from the deque because the code keeps both. An iteration is `Pop`, then one of `RefuseEarly`,
`RefuseBudget`, or `Allow` followed by `AnswerWith` or `AnswerWithout`; each includes the periodic
checkpoint at its end. `StopEmpty` and `StopBudget` are the two loop exits; `Raise` and
`RaiseInLinks` leave through the `finally` clause, `Kill` does not. A new invocation is fresh or a
resumption, with any of the caps. STOP markers are files and survive; a fresh start under a marker
left by an older crawl stops at once for that host, as in the code. `StopIsJustified` accepts a marker as
the reason of a stop only there (`HasHadItsBudget`); in a resumed run the host must have had its budget, so
that a marker which the resumption should have removed violates it.

### MessageLog

A message is its `seq`. `Answer` is a page of the newest `Limit` messages after the cursor; items that
cannot be parsed are skipped but count for the server's `first_seq`. `Write` and `ReplaceState` are
the two writes of `append`. `KillWriting(n, end)` leaves a prefix of the buffered lines in the file:
the last one may be cut inside its JSON text, or only lack its newline. The next append joins that
line: `Readable` and `Unreadable` say what a reader can still parse. `LastSeq` is the larger of the
file's and the state's cursor.

### RoomCrawler

`WriteCursor` and `WriteRooms` are the two replaces of `State.flush`; `WriteRooms(TRUE)` is the flush
that returns although another process holds `rooms.jsonl` (Windows, six tries). `harvest_room` and
what its caller does with the rooms it returns are two actions (`HarvestRoom`, `FollowRefs`), since an
interrupt may come in between. `count` is `fetcher.count`; a request is one step that spends between
one and `MaxAttempts` of it. An answer of `/r/<room>` holds the newest `MessageWindow` messages after
`last_seq`, and `harvest_room` reads the first `MaxNew` of them (`Batch`). Messages older than the window
are passed without being read, as `docs/message-log.md:138-151` describes for the poller; unlike the
poller, `harvest_room` records no gap, so the model keeps them in the history variable `unserved`. That
set is computed from what the server holds and not from where `last_seq` goes: a `last_seq` that ran ahead of
the messages read, past the cut at `max_new` say, would violate `RefsFollowed`.

### The derived files: OperatorJobs and the modules below it

A command is a sequence of steps kept in `job`: it reads one room (or one file) per step, holds what it
has computed in `held`, and writes one output per step. `Poll` and `Index` may come between any two
steps and `Kill` after any of them. Everything below is a function applied in those steps, translated
from the code that computes it; `OperatorJobs` adds only the order. `site` says which commands an
operator runs (ledger; ledger and liveness; freeze and extract; publication): groups that share no file
but the log do not multiply each other's states. The ghost `basis` remembers, for each output, the log
as it was read and the value it was serialised from; no action reads it.

*Data.* DIDs and rooms are numbers in the order of their names. A text is a member of a small set, and
`Attr` says what the regular expressions find in it: what it is after normalisation and after masking,
which job step it announces, whom it names in full (`dids`), by an eight-character suffix (`at`) or by
four (`abbr`). Because these are sets, a text names a suffix once at most. Lines may lack a timestamp, be
malformed or torn, as a killed append leaves them; each loader skips what its code skips. Sizes are
counted: an entry, a header, a comma and a count take `...Bytes` each, so that a size is the sum the code
computes without being a text. Thresholds of the decision tables are `Bar` and `Points`, scaled to a log
of a few lines; the comparisons and their order are the code's. Shares are compared by
cross-multiplication. BM25 is `Weight`, any function of the counts it gets that is positive for a term the
index keeps: properties are about which documents are found, not about their order. A hash is the content it stands for. `README.txt` among the
published files is constant text and left out; the extracted records are read in one step with the write
of `manifest.json`.

*Writes.* Files replaced atomically are whole or absent. `freeze` writes archive and manifest in place and
`extract` writes its files in place; only these may be cut short. `write_shards` is `StageShards` (a
hidden directory, checked by joining it again), then, if a set is published already, `ClearOldShards`,
`RetireShards`, `InstallShards`, `DropOldShards`; the rollback of a failed second rename is not modelled,
a kill between the renames is. The loaders (`LedgerLoads`, `CompactLoads`, `FullLoads`,
`CompactMapLoads`, `LexicalLoads`) are the fail-closed validations of the code; properties require that
what one command writes, the next one's loader accepts.

### LedgerService

JavaScript runs one macrotask at a time, so a step is a macrotask with the promise reactions it sets off:
a caller's synchronous part up to its `await`, or the end of an exchange with the memo, the release of
the slot to the oldest waiter, the answers to all sharers and the completion of their calls. `exchanges`
holds what is on the network, each with the deadline that `http.ts` puts over headers and body together;
`Serve` is the Worker answering from the deployment that is live, or refusing (rate limit), `Breaks` any
other failure, `TimesOut` the timer. `Redeploy` replaces the ledger in one step. Whether a failed
`candidates` call throws or returns an empty list (`onUnavailable`) changes nothing in the source's
state, so the model does not tell them apart. A malformed DID is refused before any state is touched and
is left out. The clock is monotone, timers run when they are due (`Tick` does not pass a deadline that
has not been served), and cancelling a body ends: `http.ts:131` awaits `reader.cancel()`. `Plans` says which
calls are made; when each is made is free.

## 3. What the runs check

Passing runs. Every property has a mutant of the mapped code under which it fails.

| Run | Size | Properties | What they say |
|---|---|---|---|
| `index_store` | 2 callers, 3 documents (0, 1, 2 chunks), 2 URLs; 419k states | `AllOrNothing`, `TablesAgree`, `OneLiveVersionPerUrl`, `OneWinner`, `LiveReplacedOnlyByNewer`, `ImplementsVersions` | no race, failure or crash shows a reader part of a document, two live versions of a URL, or a live version taken down by a failure; rows and chunks agree (`TablesAgree` is `IndexedRowsAreBacked` and `SearchableHasRow`); the store implements atomic publication |
| `live_ingest` | 2 documents of one text, 2 page URLs, 1 source URL; 961k states | `RecordsAreSound`, `AnsweredIsSearchable`, `PagesAreDeduplicated` | whatever fails in between, records rest on raw files of their URL and are in the index when a call has ended (`RecordsAreSound` is `RecordsHaveProvenance` and `RecordsAreIndexed`), and a page reported as indexed can be found |
| `crawl_loop` | 6 pages on 2 hosts, caps 1 and 2, 3 invocations; 88k states | `PagesAccountedFor`, `BudgetAcrossRuns`, `StopIsJustified`, `ResumeKeepsProgress`, `Terminates` | no page lost, queued twice or fetched twice (`PagesAccountedFor` is `FrontierConsistent` and `SavedCoversKnown`); a resumption forgets nothing the checkpoint had (`ResumeKeepsProgress` is `[][NothingForgotten]_vars`); the cap holds across resumptions; the loop stops neither too early nor never |
| `message_log` | 2 rooms (4 and 1 messages, one malformed), pages of 2, 1 retry, 2 kills; 185k states | `LogIncreasing`, `GapsAreExact`, `SweepEnds`, `CatchesUp` | the log never repeats or reorders; a hole is covered by a gap, and no gap claims a message the log has (`GapsAreExact` is `LossIsVisible` and `GapsAreTrue`); the sweep passes every room; the log catches up with a server that answers. The rooms are those `SelectRooms` gives for a directory with every kind of row it must skip |
| `room_crawler` | 3 rooms, 2 of them created meanwhile, 3 messages in one room with windows of 2 read one at a time, cap 4, 1 fault; 1.44M states | `EventsFollowed`, `RefsFollowed`, `SweepIsThorough`, `CapOvershoot`, `CappedRunsEnd` | no cursor passes a room that is not saved, except in the two windows the history names; no `last_seq` passes a message whose rooms are unknown, unless no answer held it; a pass misses no room; the cap is exceeded by one request's retries at most |
| `operator_jobs` | 2 rooms, 4 DIDs, 4 logs, 3 sets of options, 1 kill; 105k states | `CompactFaithful`, `BurstBuysNothing`, `LivenessFaithful`, `FrozenLogReproduces`, `StaticFaithful`, `ShardsStayPublished` | each published file says what its sources said when they were read, agrees with the file published beside it, and loads; no DID gains by posting in a burst; a kill leaves nothing that passes for whole |
| `ledger_service` | 3 DIDs, 1 slot, a memo of 2, 2 deployments, 4 plans of 2 or 3 calls; 468k states | `NothingForgotten`, `AnswersAreFresh`, `LaterIsNotOlder`, `CallsEnd` | slots, waiters, exchanges and callers always match; no answer is older than the memo and an exchange allow; later calls see no older ledger; every call ends |

Each also checks one `TypeOK`.

Violation runs. Each checks one sentence of the repository that the code does not keep.

| Run | Property | What the trace shows |
|---|---|---|
| `index_loser_clobbers` | `LoserNeverClobbers` | a race loser's late `failed` row overwrites the winner's row once a third document superseded the winner: the `WHERE` clause protects `indexed` rows only |
| `crawl_in_flight` | `NothingDropped` | an exception from `ingest` leaves the page in hand neither queued nor visited, and the final checkpoint saves that |
| `ingest_retry_blocked` | `RetryNotBlocked` | an interruption between the extracted record and the transaction makes the retry a duplicate of its own failed attempt: the text is never indexed |
| `message_log_first_gap` | `EveryLossRecorded` | a room polled while empty is recorded as "never polled"; what is lost before its second poll is in no gap |
| `room_crawler_kill` | `SeenRoomsAreIndexed` | a kill between the two writes of a flush leaves a cursor past rooms that `rooms.jsonl` lacks |

### Where a property excuses something

The passing properties state what the code does keep, so those that a finding breaks name the window
they except, in history variables that only the step in question writes: `abandoned` (LiveIngest),
`dropped` and `lost` (CrawlLoop), `excused` (MessageLog, RoomCrawler), `unserved` (RoomCrawler). Nothing else sets them, so an
additional way to lose something violates the property. Smaller things the models show without a run:
a page that goes back to an earlier content makes that document a duplicate of its own record, and its
`superseded` row becomes `refused` while its chunks stay searchable; a page whose `ingest` raised after
its budget slot was spent is not counted in `fetched_by_host` (`BudgetAcrossRuns` bounds the excess by
`lost`); the message written onto a half line left by a kill is unreadable and in no gap; the rooms that a
message mentions are never known from it when the room outran the answers (`unserved`) or the run was
interrupted before `FollowRefs` (`excused`); the links of a page whose `extract_links` raised are not
followed, by a resumption either (`RaiseInLinks`: the page is in `dropped` and not in `followed`).

Further places where text and code part, which no run checks since they are in wording or in code that is
abstracted: `docs/static-index.md` says the published files are "always in agreement", which fails after
a `LexicalSizeError`, a separate `pipeline.lexical` or a kill, and `db_sha256` may name a newer database
than the rows (`StaticFaithful` states what does hold); the compact agents of the liveness map carry no
burst flag, so a reader recomputing the tier of a burst member from its 16 values gets another tier than
the file's (`LivenessFaithful` excepts exactly these); the "up to `cacheTtlMs` stale" of `provider.ts`
leaves out the duration of the exchange (`AnswersAreFresh` adds it), and two `version()` calls at once may
leave the older answer in the memo; a DID left out of a compact ledger for its size is "unknown" to the
provider; the Worker's MCP tool `index_info` describes itself as "the same body as
GET /healthz", but its `liveness` is always null.

### Bounds, and why they are enough

* `index_store`: the interesting races are between two callers and a third document, all of which may
  be repeated without bound since callers start over; three documents are needed to supersede the
  winner of a race. Chunk counts 0, 1, 2 are the cases the code distinguishes (no chunk to refuse on, one row, several).
  Callers and URLs are symmetric; there is no counter to cap.
* `live_ingest`: one text is enough, since records of different texts do not interact; two documents,
  two pages and a source URL give every combination of first and later provenance line. Not capped.
* `crawl_loop`: two hosts so that one can be exhausted while the other has pages left; links cross
  hosts, go back and leave the allowed prefixes; a seed is listed twice. `MaxStarts = 3` allows a crawl,
  a resumption with another cap and a resumption of that. The run ends there, so deadlock is not checked.
* `message_log`: `MaxSeq` 4 with pages of 2 gives full, overflowing and overlapping pages; two kills
  let a second one hit the repair of what the first one left.
* `room_crawler`: an event window of one line makes the server forget; a room with three messages and a
  message window of two outruns its answers, and `MaxNew = 1` cuts an answer in two; the cap of 4 is reached
  in the middle of a pass; one fault is a kill or an interrupt at any step. `MaxFaults` bounds nothing in the proofs.
* `operator_jobs`: the four logs hold a quiet pair, a burst of three that two DIDs of one suffix share, a
  completed job, and a room whose lines are out of time order; `MCFeed` adds a torn line, a loss, a row
  without a timestamp and a jump of the clock. The three sets of options make artifacts fit whole, be
  cut or be refused, split the window, exclude a room, and leave out the shards. `MaxPolls` and `MaxJobs`
  are per site: enough for two builds with appends before, within and between them. One kill, since a
  command starts from the files alone, and whatever a kill leaves another command meets. The command
  ends there, so deadlock is not checked.
* `ledger_service`: one slot makes every second lookup wait; the memo is smaller than the set of DIDs, so
  each `candidates` call evicts; `Timeout` 1, `CacheTtl` 2 and `MaxTime` 3 let an answer expire, be
  revalidated and time out. The plans mix calls that share lookups, repeat one, and ask for the version.
  `BurstPolicies` is `{"exclude"}`: "annotate" lists more DIDs and changes no step. `MaxTime` holds the
  clock only when nothing is on the network.

### Fairness

* `CrawlLoop`, `RoomCrawler`: weak fairness of `Work`, the steps of the running process. Every request
  has a time-out and every retry loop a bound, so a started process goes on. Nobody has to start it,
  and no fault has to happen. `CappedRunsEnd` relies on the cap, which the docs recommend and the code
  allows to leave out.
* `MessageLog`: weak fairness of `Work` and of `BeginSweep` (`--loop`, or a timer around `--once`).
  `CatchesUp` additionally assumes, as its hypothesis and not in the specification, that a server asked
  over and over answers some day (`Answering`, strong fairness of `Answer`); `SweepEnds` does not.
* `LedgerService`: weak fairness of `Tick` and of the timers, and of nothing else: the Worker need not
  answer and no caller need call. That is what an event loop that is not blocked gives.
* `IndexStore`, `LiveIngest`, `OperatorJobs`: safety only. Their calls contain no loop, and a command
  that is killed is started again by a person.

## 4. What is proved

`tlapm` checks every theorem, for every value of the constants that satisfies the named `ASSUME`s. Every
safety property that a passing run checks is stated by a theorem `Spec => ...`: the type invariants, the
action properties, the refinement of `IndexStore`, and what is promised of the contents of the published
files. What is left to TLC is liveness. The assumptions on the constants are these:

| Assumption | Says | Because |
|---|---|---|
| `ChunkCountAssumption`, `NoDocAssumption` | a document has a number of chunks; "no document" is not one | `chunk_text` returns a list |
| `LiveIngestAssumption` | a text has one number of chunks; "no URL", "absent" and "torn" are not URLs | chunks are cut from the text |
| `CrawlAssumption` | links and seeds are lists of pages, no link twice; there is a cap and caps are positive | `extract_links` lists each link once; `max_pages` always has a value |
| `LogAssumption` | the rooms are a list that is not empty and names each once; a page has room for a message | what `select_rooms` returns (checked in `MCMessageLog`) |
| `CrawlerAssumption` | windows, caps and attempts are numbers, an attempt is made at least once | the command's arguments |
| `ServiceAssumption` | bindings, deployments and plans are lists; there is a deployment, a slot, and room in the memo; durations are positive | the options' checks in `source.ts` |
| `OperatorAssumption` | the files of the first log ascend in `seq`; rows are of known documents; losses and times are numbers | `LogStaysIncreasing`; the poller writes integers |
| `AttrAssumption` | a text names finitely many DIDs | it is a finite text |
| `SizesAssumption` | senders, limits, windows, minimal burst sizes and `...Bytes` are numbers; a text is one `Attr` describes; every option is given | the option parsers and their defaults; lengths of encoded bytes |
| `StaticAssumption` | documents, URLs and kinds are numbers in their order; a text has at most `MaxTokens` tokens | `MAX_INPUT_CHARS`: longer texts are cut before `tokenize` |
| `WeightAssumption` | BM25 of a term that the index keeps is not 0 when rounded to six decimals | with the default share (`max_df_ratio` 0.5) and the size limit of 24 MiB the smallest score is above 0.000001; a share near 1, which a caller could pass, is not covered |
| `IndexAssumption` | the manifest starts as `IndexStore` leaves it, with one live document for a URL | `OneLiveVersion` |

**IndexStore** (`IndexStoreProofs`). `Invariance` proves `Spec => []IInv`, where `IInv` is the
conjunction of the type invariant and the safety invariants the run checks: none is inductive alone.
A superseded row is still backed by its chunks only because it was backed while it was live; `AddMany`
finds either none or all of a document's chunks by `AllOrNothing`; a caller that was told "indexed"
is the only one because its chunks are still there to refuse the others. `WriteIndexed` and `WriteOther` say once what a transaction does to every row of the manifest. `WellTyped`,
`NothingByHalves`, `OneLiveVersion`, `TablesStayAgreed` and `RacersAgree` are the invariants,
`LiveReplaced` is the action property, and `Refinement` proves `ImplementsVersions`: initial
states map to initial states, `AddMany` maps to `Publish` or a stutter, every other action to a stutter.

**LiveIngest** (`LiveIngestProofs`). `IInv` adds one conjunct to what the run checks, `WholeOrNotAtAll`:
of a document, the store has all chunks or none. Without it an "already_indexed" answer (some chunk id
exists) would not mean that the text can be searched. `QuietStep` and `EndStep` say of a step that
writes no file what it has to leave alone; `PutRawKeeps`, `PutExtractedKeeps` and `IndexedKeeps` are the three
writes, `UnlinkKeeps` and `InterruptKeeps` what takes them back or cuts them short. That records are sound wherever the call is cut is a matter of the order of these writes.

**CrawlLoop** (`CrawlLoopProofs`). The invariants of the run are about the crawl in memory and on disk at
once, and neither side keeps them alone: a resumption copies the file, a checkpoint the memory. `Whole`
says of a progress that it knows where every page is, and holds of both (`SavedIsWhole`, `RunIsWhole`, the
latter up to the page in hand); `SavedIsKept` says that what was saved of this crawl is still in memory.
`StuckAtEnd` is the loop's argument for stopping: the `stall` last pages of the frontier, put back since
the last `ingest`, are of exhausted hosts, so that when they are all, no page can be asked for;
`MarkersEarned` adds that the markers a resumed run has are of hosts that had their budget. The
budget needs two sums: `BudgetHolds` (pages on record, the one under way and those still allowed are
within a cap) and `GetsAreCounted` (requests that are not on record are those of `lost`, the one under way,
and those since the last checkpoint, which `OneMoreAttempt` counts modulo `CheckpointEvery`).
`ResumesKeepProgress` is the action property.

**MessageLog** (`MessageLogProofs`). `LossIsVisible` speaks of holes between two lines. It does not
last by itself, because the gap of an append is saved after its lines and the state file may be ahead of
the log. `Accounted` therefore says of every message that the log, the state file or the record about to
be saved has passed that it is in one of the places where a loss is known; `SavedIsOld` and `PendingFits`
say that a gap is about messages the server had dropped, and hence never about one that comes later;
`PageFits` says that the page in hand starts after the log and leaves out what cannot be parsed only. The
same lemma (`OutputStep`) covers an append and a kill inside it, which leaves a prefix of the new lines.

**RoomCrawler** (`RoomCrawlerProofs`). `IInv` adds to the checked invariants that what `last_seq`
stands for is known *in memory* (`RefsKnown`) except what `harvest_room` has just returned
(`RefsInHand`) and the messages in `unserved` (`BatchAccounts`: up to the new `last_seq` a message was passed
before, was read, or was too old for the answer), that announced rooms are in memory before the cursor is written (`EventsKnown`), and
that only while the two files disagree can a room be stranded (`StrandedWhileBehind`); without these
the invariants about the files are not inductive, because a flush copies memory to disk. One lemma per
action shows that it preserves `IInv`; `RefsAreFollowed`, `EventsAreFollowed`, `SweepsAreThorough`,
`CapsHold` and `WellTyped` are its consequences.

**LedgerService** (`LedgerServiceProofs`). `Matching` is `NothingForgotten` with what makes it
inductive: a lookup that ends answers its sharers by their place in `calls`, so the table in flight must
refer to calls that exist, and an exchange that belongs to no DID must belong to a `version` call, or its
end could change what a lookup's callers still wait for. `Shape` says both.
`AnswersAreFresh` is about the answers that were given; the proof says the same of each place an answer
passes through. `Sound(..., t)` is "of a deployment that was not replaced before `t`, and what that
deployment says of the key". A reply on the network is sound for the time its exchange was opened
(`SoundExchanges`), a kept one for `Timeout` before it was stored (`SoundMemo`, `SoundVersionCache`), a
given one for `CacheTtl + Timeout` before the call (`SoundCalls`). `LaterIsNotOlder` holds because a DID
that is looked up has no fresh answer and its sharers are in calling order (`Sharing`), who asked earlier
is not answered later (`EarlierFirst`), and nothing that is kept, comes or was given to a later call is
older than what was given (`NewestKept`, `NewestComing`, `NewestGiven`); `SnapshotIsLast` is its part
about `snapshot()`. There is one lemma per action: `BeginStep`, `VersionStep`, `ServeStep`,
`VersionEndsStep`, `LookupEndsStep`, `TickStep`, `RedeployStep`.

**OperatorJobs** (`OperatorJobsProofs`). The proofs come in four parts: the order of the writes, with the
invariant `IInv`, the two builds, with `BuildInv`, the bursts, which rest on `BuildInv`, and the publication
of an index, with `StaticInv`. TLC checked each invariant on the instance of the run before it was proved.

*Order.* Here the functions of the builds stay unexpanded: what is proved holds whatever a command computes.
`ShardsInv` says that a directory of shards on disk joins to the ledger it was split from, that from the
check of the staging directory to the rename the staged shards do too, and that only a whole directory is
retired or has its old copy dropped; `ShardsRemain` follows, each of the four renames and removals leaving
one of the two directories. `FreezeInv` follows a freeze from what it has read (a prefix of each room,
`PartOfLog`, which appends do not undo) through the archive to the manifest: a kill can only cut short a
file that was not there. `SoundLog` is what the poller is relied on for: each file ascends, and has no more
holes than gaps were recorded (`GapsOfLonger`: an append records one gap at most, and opens no more). A frozen room may show holes of its own, where a line is no
row; `GapsOfPart` maps each of its holes either to such a line or to the hole of the file that begins where
it begins, both without using a target twice. `FrozenLogsReproduce` combines the three; the ledger of an
extraction is that of the frozen rows because the rows are the same.

*Builds.* `LivenessFaithful` and `CompactFaithful` compare two files that were written in different steps,
perhaps by different runs with appends between them; neither lasts without knowing what each was made of.
`BuildInv` therefore says of every file on disk that it is the fitted form of what was built of the rows the
ghost `basis` remembers (`LedgerOk`, `CompactOk`, `MapOk`, `CompactMapOk`), of those rows that they are a
log that could have been read (`IsRead`), and of a command under way that what it holds is such a build
(`HeldOk`). The rest is about operators. `SortedBy` lists every element once and in order (`Ordered`,
`RankedFacts`), so a fitted artifact is a prefix of a ranking. `SearchEnds` shows that the binary search
ends at a count that fits, or at 0, and that the next one, if there is one, does not fit; since sizes grow
with the count (`SizeGrows`, with `CommasGrow` for the commas between entries), no larger count fits either.
`BoundaryFacts` shows that the cut moves to the last place that splits no tie; `CompactCut` and `CutFacts`
apply both to the two artifacts. `LoadedFacts` says that the ledger a liveness build loads, which an earlier
run has left, is well formed, `BuiltIsSound` what a build makes of any log.

*Bursts.* `BurstBuysNothing` compares the ledger with the one of a log from which every burst member is
taken: the members have score 0, and nobody else scores less there. `LeftOutIsSmall` is the key to the
greedy grouping: a DID in no group starts no run of `minNew` first posts. Taking posts out only shrinks
runs, so no new group forms (`LoadedWithout`, `AllSmallNoBurst`); `ScoreWithout` then follows the removal
through the mentions, the suffixes, which can only become less ambiguous, and the terms of the score.
`RowsComeBack` says that a written ledger reads back as what was built.

*Publication.* `StaticFaithful` speaks of three files, of which a kill or a limit may leave some of one
publication and some of an older one. `StaticInv` numbers the publications: a file that the command has
still to write is of an earlier one (`RunsOk`), a surface is never newer than the manifest beside it
(`SurfaceOk`), and what is held is what was written (`PublishHeld`). `SameLines` shows that a lexical index
and a surface of the same rows list the same documents although the extracted records are read twice, and
more may be there the second time; `SameListing` relates manifest and surface; `IndexKept` is what both rely
on, that a transaction of the indexer leaves one live document for a URL. `TermsAreFound` says that a search
for a term of a document finds exactly the documents with that term, up to the limit on hits, unless the
term was dropped as too frequent.

**Recursion** (`SequenceLemmas`). `Kept`, the list that a selecting loop leaves, and `SeedFrontier` are
recursive functions. What they compute for every input is proved without an induction theorem, which the
installed provers cannot instantiate: of the numbers at which a claim fails there is a least one
(`LeastNat`), so a claim that holds at 0 and passes from each number to the next holds everywhere
(`CountingUp`), and a recursive function on `0..n` exists because the set of the lengths up to which one
exists has no end before `n` (`IterationExists`). `KeptInOrder`, `KeptOnce` and `KeptIncreasing` are
the facts about selections the component proofs cite.

**Model-checked only.** All liveness (`Terminates`, `SweepEnds`, `CatchesUp`, `CappedRunsEnd`,
`CallsEnd`): fairness and ENABLED are out of the prover's reach. No theorem is about `RoomSelection`; its
result is the assumption `Selected` of `MCMessageLog`, which TLC evaluates.

## 5. Assumptions of the models

* SHA-256 has no collisions. SQLite transactions are atomic and durable. `os.replace` is atomic.
* File writes that are not replaces may be cut anywhere, in order; the file system loses no completed write.
* The room server numbers messages 1, 2, ... per room and serves the newest ones.
* One poller per root: `MessageLog` does not model two, which would overwrite each other's state file.
  Nothing in the code prevents it.
* One operator: two commands of `OperatorJobs` do not run at the same time. Poller and indexer do run beside them.
* `RoomCrawler`: an answer of `/r/events` or `/r/<room>` holds the newest lines, oldest first, which is the
  order the poller relies on as well; the code cannot tell when the server cut it.
* A request with its retries is one step in `RoomCrawler`, since nothing else reads `fetcher.count`.

## 6. Plan

In order; the core comes first because every other part reads what it writes.

1. *Done:* `Manifest`, `IndexStore`, `LiveVersions`, `CrawlLoop`, `LiveIngest`, `MessageLog`,
   `RoomCrawler`, with their runs, and the proofs of their safety properties.
2. *Done:* `LedgerService` with its run, and the proofs of its safety properties.
3. *Done:* the derived files, from `MessageText` to `OperatorJobs`, with their run; `RoomSelection`.
4. *Done:* the proofs of the safety properties of `OperatorJobs`. *Open:* the selection of rooms
   (`RoomSelection`), which would turn `LogAssumption` into a theorem about `select_rooms`.
5. The chunker and `verified_work_from_turns` as operators, with theorems about their bounds.
6. `ChainIngest`, once a command of the repository runs `ingest_finalized_facts`.

### Not modelled, and why

* `flop/chain.py`: a loop over what a source yields, whose only state is the caller's cursor, and no
  command of the repository calls it. `RoomMessagesAdapter` (`sources/technocore_messages.py`) likewise:
  it windows a log into documents, and re-emits a short last window under a new URL when the room grows.
* Ranking by cosine is floating-point arithmetic; so is BM25, whose result is `Weight` here.
* Parsers (HTML, robots, wire objects, offers, configuration) and renderers are string handling without state.
* The local API and the MCP server answer each request from one read-only value; the only interleaving
  is the shutdown of the server thread.
* The sandbox and the gate run one child process per call and append its outcome to a file.
* Evaluation, fixture, report and verification scripts are not part of the running system.
