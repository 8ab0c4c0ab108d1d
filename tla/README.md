# MemMe, specified

MemMe is a long-term memory store for assistants, robots and pets: a Rust library
(`memme-core`) over one SQLite database, a REST server (`memme-server`), an MCP server, and
bindings for Node, Python, C, Dora, Copper and LeRobot. Raw events are appended to sessions,
sessions are compacted into episodes and narrative memories, episodes are meditated into facts
and a graph; memories are added, deduplicated, searched, synchronised, exported and imported.
This directory specifies the parts of it whose correctness depends on what several threads,
failures and restarts do between two statements, and the algorithms whose results a test
hardly covers.

Run everything from this directory: `tlc -workers 2 -config X.cfg MCModule` for a run of the
table below, `tlapm M.tla` for a module of proofs.

## 1. Inventory

### How the parts share state

A `MemoryStore` holds one SQLite connection behind a mutex (`storage/backend.rs`). The server
shares one store among the threads of `spawn_blocking`, one per request. A `Backend` call holds
the mutex for one statement or one transaction, and nothing holds it across two calls. So any
operation made of several calls interleaves with any other at the boundary of a call, and a
failing statement, or a process that dies, leaves what the earlier calls of the operation wrote.
LLM and embedding calls are made outside the mutex and may take minutes. Beside the database a
store keeps queues in memory (deferred adds, deferred access counts), a provider behind a lock
and caches; the front ends hold locks of their own around the store or none.

| Part | State | Operations | What makes it correct | Modules |
|---|---|---|---|---|
| Session pipeline (`memory/compact_ops.rs`, `storage/session.rs`, `stream.rs`, `episode.rs`) | sessions with owner and notes; events with vector, purified and processed flags; episodes; narrative memories | `append_events_idempotent`, `compact`; pages, context, search of episodes | an id is stored once, under one owner; a replay harms nothing; an event is marked only when an episode tells of it; pages miss nothing | `SessionPipeline`, `EventLog`, `SessionReads` |
| Erasure and unbound ingestion (`storage/mod.rs`, `session.rs`, `memory/stream_ops.rs`) | the same tables | `delete_user_data`, `delete_session`, `ingest_event` | nothing of the user's is left; nothing of others' is touched | `SessionErasure` |
| Backup, restore, server loop (`storage/replica.rs`, `memme-server/main.rs`, `handlers.rs`) | database file, write-ahead log, private files of a restore, backup directory, pending restore; configuration in the database, the store and the server; the permit of a full import | `create_backup`, `restore_backup`, drain, reopen, `set_llm_config`, `full_import` | no failure destroys the data; the copies of the configuration agree; one import at a time | `Restore`, `Server` |
| Memory writes (`memory/mod.rs`, `dedup.rs`, `contradiction.rs`, `storage/crud.rs`) and sync feed (`memory/sync.rs`, `storage/sync.rs`) | memories, history, `sync_version`, tombstones, the queue of deferred adds | `add`, `add_batch`, `update_trace`, `delete_trace`, `prune`, `consolidate`, `process_deferred`, `export_changes_since` | one row per content and owner; a reader that follows the versions misses no change; private rows stay | `MemoryFeed` |
| Meditation (`memory/meditation_ops.rs`, `graph.rs`) | meditation records, `last_meditated_at`, entities, relations, links | `meditate` | an episode is marked only when its fact is stored; one run per cooldown; the run ends | `Meditation` |
| Portable import and export (`storage/portable_import.rs`, `export.rs`) | all tables | `full_import`, `full_export` | all or nothing; what is exported can be imported | `Portability` |
| Migrations and derived indexes (`storage/mod.rs`, `util.rs`, `dialect_sqlite.rs`) | vector tables, full-text tables, scope columns | opening a database of any version, writes, `rebuild_fts_index` | the indexes hold what the tables hold | `Indexes` |
| Search (`memory/search.rs`, `search.rs`, `rerank.rs`, `storage/query.rs`, `types/filter.rs`, `time_parser.rs`) | deferred access counts | `search`, `get_trace`, filters, references to time | results are active, in scope, ordered; accesses are counted once | `Recall`, `Ranking`, `Filters`, `TimeRanges` |
| Graph (`storage/entity_links.rs`, `graph.rs`, `entity_index.rs`) | entities, relations | co-occurrence weaving, spreading, `search_graph` | walks follow relations, within their depth and cap | `GraphWalk` |
| LLM and embedding providers (`memme-llm`, `memme-embeddings`) | none that lasts | `generate_structured`, `embed_batch` | retry loops do not multiply; vectors keep the order of their texts | `Generation`, `Embedding` |
| Front ends (REST, MCP, Node, Python, FFI) | locks, a cached provider | one call of the store each | what one pet was told stays out of another's answers; a call is answered | `FrontEnds` |
| Robot adapters (LeRobot, Dora, Copper) | buffers of events | log, flush, episodes | what was logged reaches the store, in order | `Robots` |
| Identity, reflection, procedures, analytics | single rows | upserts after a model's answer, reports | one row per key | only as rows of `Portability` and `FrontEnds` |
| Background queue, webhooks | – | no live caller; fire and forget | – | not modelled |

### What is hard

`PROJECT.json` lists forty hazards, each at its line with the properties that would catch it. In
short: reads of a session, an event or a memory that are stale when they are used; pairs of
operations that look and then insert; operations of several statements that fail or die half way
(compaction, migration, restore, meditation, deferred work); versions read and written by two
statements; loops that end only when a mark whose error is ignored succeeds; retry loops inside
retry loops; locks that a panic poisons; scores that change scale and direction on their way;
parameters numbered by hand. Four more are known and no property is about them: the notes that an
append adds while a compaction is under way are cleared with the compacted ones
(`compact_ops.rs:494`); a failing append of a note is ignored (`compact_ops.rs:278`), so the
events lack their note for good; two backups under one name both find it free
(`handlers.rs:688`); the nearest neighbours are limited before inactive rows are filtered out
(`query.rs:405`), so a search may return fewer than there are.

## 2. Modules

| Module | What it is |
|---|---|
| `EventLog` | the abstract specification: accept a message under an id once, digest accepted events of one session and owner, retire what a digest covers |
| `SessionPipeline` | `append_events_idempotent` and `compact`, one action per Backend call |
| `SessionErasure` | EXTENDS `SessionPipeline` with `delete_user_data`, `delete_session`, `ingest_event` |
| `SessionReads` | lists and pages beside changes, the context of a session, the search for episodes |
| `Restore` | backups, the server loop, `restore_from_backup`, one file operation at a time |
| `Server` | the three copies of the LLM configuration, and the permit of a full import, across restarts and restores |
| `MemoryFeed` | every writer of memories, one action per statement, a follower of the feed, deferred adds |
| `Portability` | two stores, the calls that make rows, full export and full import layer by layer |
| `Meditation` | `meditate`: cooldown, batch loop, extraction, graph, marks |
| `Indexes` | opening and migrating a database, keeping and rebuilding its indexes, with deaths in between |
| `Recall` | the channels of a search beside changes, their augmentation, the deferred access counts |
| `Ranking` | the order of the answer: fusion, boosts, time, reranker, forgetting, weights, caps, threshold |
| `Filters` | filter expressions as SQL conditions with numbered parameters, in each query that takes one |
| `TimeRanges` | what a question says of time, as ranges of days, and the moments that these raise |
| `GraphWalk` | the co-occurrence graph as it is woven, and the walks over it |
| `Generation`, `Embedding` | `generate_structured` over the providers' retries; concurrent batches of embeddings |
| `FrontEnds` | the calls of each binding, of MCP and of REST on the rows of several pets: how they pass scope on, merge, lock, and fail |
| `Robots` | the buffers of the robot adapters |
| `MCSessionPipeline`, `MCSessionErasure`, `MCRestore`, `MCPortability` | instances of one module for TLC |
| `MCMemory`, `MCSearch`, `MCServices` | instances of several modules in one run (see below) |
| `SessionSafetyProofs` | proofs about `SessionPipeline`: type correctness, the life cycle of events, ownership, what is processed, single digestion, the refinement of `EventLog` |
| `SessionErasureProofs` | EXTENDS it: erasures, what an episode tells, and what is read of sessions and episodes (`SessionReads`) |
| `FeedProofs` | proofs about `MemoryFeed` |
| `MeditationProofs` | proofs about `Meditation` |
| `StoreProofs` | proofs about `Indexes`, `Portability`, `Filters` and `TimeRanges` |
| `SearchProofs` | proofs about `Recall`, `Ranking`, `FrontEnds` and `GraphWalk` |
| `ServicesProofs` | proofs about `Server`, `Restore`, `Generation`, `Embedding` and `Robots` |
| `SumProofs` | lemmas for the other modules of proofs: sums over finite sets, that functions recursive along a sequence exist, that finite sets of numbered things can be sorted |

### SessionPipeline

A worker is a thread; `job[w]` is what its operation keeps on its stack between two calls, and
`job[w].pc` names the next call. An append walks
`session → create → recheck → lookup ⇄ probe → store ⇄ reprobe → reply`, a compaction
`read → update → narrative → mark → clear`:

| Action | Code |
|---|---|
| `AppendReadSession`, `AppendCreateSession`, `AppendRecheckSession` | the three calls of `get_or_create_session`: read, `INSERT … ON CONFLICT DO NOTHING`, read and validate again |
| `AppendLookup`, `AppendProbe` | per message `get_event`: new, exact replay, or conflict; for a replay `event_has_embedding` |
| `AppendEmbed` | `embed_batch`, which may fail or answer in the wrong shape; then the events stay raw |
| `AppendBackfill` | `backfill_event_embedding` |
| `AppendInsert`, `AppendReprobe` | `insert_event_idempotent` (one transaction that looks again), and the backfill of an event another request has just stored |
| `AppendNotes`, `AppendReply` | one `append_structured_note`; the reply |
| `CompactStart`, `CompactRead` | the session row with its notes; then the unprocessed events, and outside the mutex the LLM and the embedder |
| `CompactUpdate`, `CompactInsertEpisode`, `CompactInsertNarrative`, `CompactMark`, `CompactClear` | one transaction per event, then one statement each |
| `StepFails`, `NotesStepFails`, `Crash` | a call whose error is returned with `?`; one whose error is ignored; the process dies |

Abstractions. A message's role, content, time and metadata are a `body`: the code only compares
them. A vector is NULL, that of the raw content or that of the purified content. A note line is
the id of its event, and the cap of 2000 characters a number of lines, `NotesCap`. A summary is
the set of events it was made from. A compaction's LLM choice is nondeterministic.
`validate_session_identity` compares owner, agent, app and run; the owner stands for all four.
`acked`, `overlap` and `used` are history; `used.unanswered` are the events that an embedder has left
out of an answer to `compact` (`ShortBatches`), which `ProcessedIsPurified` excepts by name.

### SessionErasure

Adds the three operations that know nothing of the appends and compactions in progress, each one
statement or one transaction. `delete_session` removes the session row (and so the notes) and no
event; `ingest_event` inserts under a fresh id without looking at sessions; `delete_user_data`
removes by the user column of every table. `erased[u]` records whether the user's data was
deleted after the user's last request, and whether an operation of the user's was then in
progress; `raced` keeps the users of whom it ever was.

### SessionReads

`line` is the list of rows by time. A walk over pages (`WalkPages`, `NextPage`) asks for
`limit + offset` events and skips (`get_session_events`), for `LIMIT … OFFSET …` of sessions and
episodes, or for a page of an episode's ids and then their rows, while rows appear anywhere in the
order and disappear. `EventsRead` takes the oldest `max_events` events of a session, `Context` the newest
of these that fit the budget. A search is about four episodes, so that its shares are exact in integers.
`SearchVectors` and `SearchEntities` are the channels of `search_episodes`, `FuseEpisodes` is
`rrf_fuse_episodes` with its weights and ranks in integers. The full-text channel always fails (no
index is joined) and its error is logged, as that of the look for the entities' episodes is; an error of
the spread over the entities ends the search.

### Restore

A database is a main file and its log; a committed write is in the log until it is checkpointed.
`pc` is the line the server process is at. One action is one rename, one copy, one open. A
failure of any of them takes the code's error branch; `Ends` is a process that returns an error
from `main`. Each attempt has private paths of its own (with a UUID in their names). When the next attempt
begins, or the process ends, what is still at them goes to `left`: nothing in the code ever looks for
it. A candidate stays there when `move_database_files` fails, as the `?` returns past its removal. SQLite makes an empty database of a path
without a file (`Fresh`), at a start and in `validate_backup`. The branches of the code for a
primary that is absent at the time of a restore are not modelled: the server has just served it.
A request that the client has abandoned keeps its blocking thread, and with it the store, beyond
the drain; here it only means that the log may not have been checkpointed (`Drained`).

### Server

`saved`, `shared` and `model` are the configuration in the database, in the server and in the
store. `set_llm_config` locks, saves, sets the store's provider and then the server's copy; a
client that goes away before the lock drops the call. `Reload` applies the persisted
configuration after a restore, `StartAgain` after a crash. The permit of a full import is taken
before the body is read and goes with the blocking task, not with the client.

### MemoryFeed

`mem` is the table of memories by id, `tombs` the DELETE events of its history, from which the feed
derives tombstones, `op[t]` what the operation of thread `t` has on its stack; `draw`, `bump` and `bury`
are the calls after an insert or a delete. A text is a model value; which are near duplicates
(`Near`) and which corrects which (`Corrects`) is a constant, as the thresholds and the LLM decide
it from the texts alone. The follower asks `export_changes_since` its cursor and applies the
answer; the query for the changes and the one for the maximum are two actions. `slipped`, `late`,
`merged` and `crossed` record the known ways around the feed that the properties exempt by name:
`update_trace` and deferred adds that draw no version, a version drawn again after a deletion, a
change between the two queries, adds that overlapped.

### Portability

A row is a layer, a key, an owner and the keys it refers to; `loose` remembers which keys a call
has removed or a caller has named unchecked, and the events whose session was deleted without
them, which a later session of the same id may take over. The `Call…` actions are the operations that make and
remove rows; `FullExport` follows the export's queries, `Envelope` and `TargetIsFree` the import's
checks, each `Import…` one layer inside the transaction, `ImportCommit` its end. The embeddings
lie between the checks and the transaction, and other calls come in between.

### Meditation

A caller runs cooldown → record → fetch → skip or extract → store → graph (look up, put, relate,
insert, link) → mark → finish. What the model answers is a choice among success, failure and
timeout; a failing look for the events of an episode ends the run, and a failing mark of an episode without events
is ignored. Time is what `CooldownPasses` says of a run.

### Indexes

A database is left by any earlier version and any death; opening it is `OpenCheck … OpenFill`, one
statement each. `RowInsert`, `RowUpdate` and `RowsDelete` maintain the indexes in the transaction
of the row, `Rebuild…` are the statements of `rebuild_fts_index`. `hurt` and `halved` name the
tables and columns whose statements a death cut in two where nothing repairs them afterwards.

### Recall, Ranking, Filters, TimeRanges

`Recall` keeps which results a search may return and what it writes: a memory is described by what
it misses (owner and agent, run and app, filter) and by its state. Each channel has the conditions that its
query has: the vectors all of them, the words no filter, the entities neither run, app nor filter. A flush
takes the queue at once and writes each access by a statement of its own, whose error is ignored
(`lost` counts them). `Ranking` keeps one search's order: a
candidate is a profile of small numbers, whose products and quotients stand for the scores; those of the
fusion are in units of 1/(100 · `Unit`), with the code's weights and with `RrfK` for `rrf_k`. A sort of the
code is stated by what it gives: the one arrangement of the entries by their scores in which equal
ones keep their order (`sort_by` is stable), or, where the code sorts what it collected from a hash
table, any arrangement by the scores. In `Filters` a query is its text,
the numbers in it and the list of its parameters. An expression is the sequence of its conditions and
joins in the order in which `to_sql` is done with them, what is joined before the join, so that `to_sql`
is one walk along it which numbers the placeholders as the code does; `RunQuery` evaluates the text with
SQL's nulls, after binding the values to the names in the order in which these first occur. `TimeRanges` reckons
with real dates, leap years included. A query has what it asks about and what the parser finds in it, which
are two for the questions that are misread (`Misread`). `apply_temporal_filter` compares texts: `Before`,
`From` and `UpTo` say how the text of a moment, with or without a time, stands to that of a day.
`temporal_range_search`, which nothing calls, is not modelled.

### GraphWalk

Several weavers add entities and relations of co-occurring names, statement by statement (look up,
insert, resolve, check, insert), while walkers spread from seeds hop by hop or search the graph.

### Generation, Embedding

A provider's own loop retries statuses and network errors; `generate_structured` retries answers
that do not parse, and tells the model why. `embed_batch` cuts the texts into batches, runs at
most `MaxConcurrent` at once, and gathers the results.

### FrontEnds, Robots

A guest's `ask` is a call with the arguments the front end takes; `Offers` says which operations
each front end has, and per operation which of the arguments reach the store, as the binding's
code has it (the FFI's plain calls give no scope, REST merges metadata and refuses a conflict).
A memory remembers, as history, which agent told its present content (`by`): an add without an agent may
be merged into a memory of any agent, one of an agent into that agent's own only. `Enter` takes the front end's
lock, `LookUp` builds the provider (under the lock or before it), `Panic` poisons or ends the
process, per front end. `Robots` has the buffers: `Flush` gives a text to the store and empties
the buffer when `add` has answered.

### The composite modules

`MCMemory`, `MCSearch` and `MCServices` instantiate several modules and let `part` choose the one
that moves: their states are the disjoint union of the modules' states, not their product, so a
run of a composite is the runs of its modules beside each other, under one set of constants. They
do not claim anything of two modules together: what interacts is in one module already
(`SessionErasure` over `SessionPipeline`; all writers in `MemoryFeed`; appends, compactions,
deletions and imports in `Portability`; restores and imports in `Server`). Symmetry is used in
`MCSessionPipeline`, `MCMemory` and `MCSearch`, whose properties are about safety only, over two
threads (users, callers) that are alike in every constant; `MCServices` has liveness and none.

## 3. Runs

All bounds are constants in the `.cfg`. A "violation" run has one property, which a doc or
comment states and the code breaks; PROJECT.json quotes it.

| Run | Question | Result |
|---|---|---|
| `session_pipeline` | two threads, any two of four appends (overlapping batches, a reused id, a foreign user) and any two compactions of one session, one failure or crash anywhere | all invariants, `LifeCycle` and the refinement of `EventLog` hold |
| `raw_vector` | does a replay leave a purified event's vector alone? | no: a replay that had found NULL writes the raw vector after a compaction has purified the event |
| `stale_notes` | does a summary made of notes tell of its own episode? | no: the notes are older than the events |
| `erasure_race` | is everything gone if a request of the user is in progress? | no: its later statements write rows again |
| `session_takeover` | does a session stay with its first user? | no, on a single thread: `delete_session` leaves the events, another user may create the session again, and compacting it files the first user's events in an episode of the second's |
| `memory` | `MemoryFeed`, `Portability`, `Meditation`, `Indexes`, `Recall` | twelve properties hold: no twins without overlap (`NoTwins`), nothing lost to a follower but by the named ways (`NothingLost`), private rows stay (`LocalOnlyStays`), corrections are ordered (`SupersededByLater`), deferred adds are accounted for (`DeferredAccounted`), exports are importable (`Portable`), imports are whole (`ImportIsWhole`), meditation marks what it stored and digests once (`MeditatedIsStored`), one meditation per cooldown (`OneMeditation`), indexes follow their tables after any deaths (`IndexesFollow`), results are active and in the scope that their channels keep (`RecallIsScoped`), accesses are counted once unless their own write fails (`AccessesAreCounted`) |
| `export_after_delete` | can the export of a user who has deleted a memory be imported? | no: the history's ADD row refers to nothing |
| `stale_fts` | is a memory found by its present content alone? | no: an update leaves the old entry in the full-text table |
| `search` | `Ranking`, `Filters`, `GraphWalk`, `TimeRanges`, `FrontEnds`, `SessionReads`, `SessionErasure` | `BetterComesFirst`, `FilterMeansWhatItSays`, `WalksFollowTheGraph`, `RangesAreCalendar`, `PetsStayApart`, `ReadsAreWhole` hold; and with two users, an adapter and two removals in between two appends and a compaction, a deletion that meets no operation of its user in progress holds for good (`QuietErasureHolds`), others keep their events (`OthersKeepTheirEvents`), no narrative is left without its episode (`NoTornDigests`) |
| `search_run` | does a search of a run return that run's memories only? | no, with the graph on: what is linked to an entity is added, whatever its run, app or filter |
| `services` | `SessionPipeline` without faults, `Restore`, `Meditation`, `Generation`, `Embedding`, `Server`, `FrontEnds`, `Robots` | safety: `RestoreKeepsData`, `RetriesDoNotMultiply`, `VectorsKeepOrder`, `ConfigAgrees`, `OneImportAtATime`, `LoggedIsStored`; liveness: `TakenIsProcessed`, `RestoreIsAnswered`, `MeditationEnds`, `CallsAreAnswered` |
| `restore_crash` | does the server serve the old or the restored database after a crash? | no: a process that dies between moving the primary aside and installing the candidate comes back with an empty one |

### Why the bounds are enough

The races of the pipeline are between two operations on one session or one event: two threads,
one session, two events and two users are what they need, and two appends and two compactions
let each pair of operations overlap in every order, with a third after them. One fault is enough
for every error branch, since each returns. `NotesCap = 1` makes the cap cut; the runs about
notes take 2. `ShortBatches` is TRUE in `session_pipeline`, so an embedder may leave out any vectors, and FALSE
where it is not the question. The run's symmetry is over the two threads. `Restore` takes two file errors because undoing a failed rename can fail too, two
restores so that the second starts from what the first has left, and one crash.

`memory`: two threads, two rows and three operations let each writer overlap each other one, with the
follower's two queries anywhere; three texts give a private one that is close to a syncable one
and two that correct each other. Two stores, one bundle and three calls, before and between the
import's checks and its transaction, let a call touch every layer an import writes; the takeover
of a deleted session's events in `Portability` needs four calls, and is reached by the theorems only. Two callers
and two runs of a meditation with one error are an overlap, or a run and one that comes after it; a mark that
fails for ever is not among them (`MaxErrors`): then the loop of `meditation_ops.rs:310` would not end. In
`Indexes` two deaths let a second opening start from what the first left. In `Recall` two searches or reads,
one change and one failing write let two flushes and a fill of the queue, whose capacity is one, fall in any order.

`search`: three candidates of five kinds, which
differ in every score, under every setting, with `RrfK = 1` and 24 units, in which each share of the
ranks 1 to 3 is exact, and with verdicts of a reranker on both sides of 0; thresholds that tell the distances, the verdicts or the
fused scores apart, where two results are asked for and sessions have no cap (the threshold cuts after both); every operator with a value and a null, alone and
joined with another, before and after the other conditions; four names, two weavers and one walk
of depth two, over an empty graph and one with a hub, where `MaxSpread = 3` cuts; today at the
turn of a year, the end of a month of 31 days and on 29 February; two guests with two calls each
over rows of two users, of two pets and of none, in two runs and apps; lists of three or four rows
that grow to five while two are deleted, with pages of one to three, so that a walk takes up to five pages
and a row comes or goes before, in and behind each.

`services`: two workers for what a compaction took; five texts in batches of two, of which two are
in flight, so that a batch waits and the last is short; two setters and importers with two ends
of the process; one panic and two calls each; four events through a buffer of two with two
errors. Deadlock is not checked in any run: an idle store with its bounds used up stops.

### Fairness

`ServicesSpec` assumes weak fairness, for the part that moves, of: each worker's next call
(a started operation runs on a thread of its own, and `spawn_blocking` does not cancel it;
nothing makes a client start one); the server's task (`Boot`, `Drain`, `Drained`, the steps of a
restore) and backups in progress, but not of `Start`, which an operator takes; each step of a
meditation in progress, with every answer of the model, failure included, allowed; and the moves
of a call inside a front end, which rests on the host's HTTP client returning. Nothing is assumed
of clients, of the clock, or of the model's success.

## 4. Proofs

Each theorem holds for any sets of threads, rows, users and so on, and for any bounds, where the
runs have small ones:

| Theorem | Says |
|---|---|
| **`SessionSafetyProofs`** | |
| `TypeCorrect` | `Spec => []TypeOK` |
| `EventsKeepTheirLifeCycle` | `Spec => LifeCycle`: no step rewrites a stored payload, un-purifies, un-processes or loses a vector |
| `OwnershipHolds` | `Spec => []OneOwnerPerSession` |
| `NothingProcessedIsLost` | `Spec => []ProcessedIsRemembered` |
| `ProcessedOnlyPurified` | `Spec => []ProcessedIsPurified`, whatever vectors the embedder leaves out |
| `EveryNarrativeHasItsEpisode` | `Spec => []NoOrphanNarratives` |
| `AckedAreStored` | `Spec => []AckedIsStored` |
| `EachEventDigestedOnce` | `Spec => []DigestedOnce` |
| `PipelineImplementsEventLog` | `Spec => ImplementsEventLog` |
| **`SessionErasureProofs`** | |
| `QuietErasureStands` | a deletion that met no operation of its user holds: `QuietErasureHolds` |
| `ErasureTakesNoOthers` | `OthersKeepTheirEvents`, of every step |
| `DigestsStayWhole` | `NoTornDigests` |
| `WhatIsReadIsWhole` | `ReadsSpec => []ReadsAreWhole`: pages, context and the search for episodes |
| **`FeedProofs`** | |
| `LocalTextsStayLocal` | `LocalOnlyStays` |
| `CorrectionsAreLater` | `SupersededByLater` |
| `TwinsComeOfOverlaps` | `NoTwins` |
| `FeedLosesNothing` | `NothingLost` |
| `DeferredAreCountedOnce` | `DeferredAccounted` |
| **`StoreProofs`** | |
| `IndexesFollowTheTables` | `IndexesFollow` |
| `ExportsCanBeImported` | `Portable` |
| `ImportsAreWhole` | `ImportIsWhole` |
| `FiltersMeanWhatTheySay` | `FilterMeansWhatItSays`, for expressions of any length |
| `RangesAreOfTheCalendar` | `RangesAreCalendar`, on any day and for any counts: what is asked about is raised and nothing else, but for what is misread |
| **`MeditationProofs`** | |
| `MeditationsAreOneAtATime` | `OneMeditation` |
| `MarkedIsStored` | `MeditatedIsStored` |
| **`SearchProofs`** | |
| `ResultsAreScoped` | `RecallIsScoped`: active and of the owner and agent always, of the run and app without the graph, of the filter by the vectors alone |
| `CountsArriveOnce` | `AccessesAreCounted` |
| `PetsDoNotMix` | `PetsStayApart`, through every sequence of adds, merges, changes and removals |
| `WalksKeepToTheGraph` | `WalksFollowTheGraph` |
| `BetterOnesComeFirst` | `BetterComesFirst`, for any candidates and settings |
| **`ServicesProofs`** | |
| `ConfigurationsAgree`, `ImportsOneAtATime` | `ConfigAgrees`, `OneImportAtATime` of the server |
| `LoopsDoNotMultiply` | `RetriesDoNotMultiply` |
| `RestoreLosesNothing` | `RestoreKeepsData`: no loss, unless a main file and its log were torn apart |
| `OneErrorTearsNothing` | with one file error at most and no death, no main file is separated from its log: what `RestoreKeepsData` excepts does not happen |
| `RobotsLoseNothing` | `LoggedIsStored` |
| `VectorsMeetTheirTexts` | `VectorsKeepOrder` |

### What they rest on

The named assumptions of the modules, and nothing else. The bounds are numbers. The values that
stand for "none" are none of the others; so are the kinds of a column, a table and a stage in
`Indexes`. A request of a session is not empty and names no event twice, which the code rejects
(`RequestsAssumption`). What the code reads of a finite table is finite: the threads of the feed,
the callers of a meditation and what a text mentions, the memories and searches of `Recall`, the
stock of `FrontEnds` with its distinct ids, whose memories were told by their agent or by none, the names of a query of `GraphWalk`; and a graph that
earlier messages left has an end in the nodes at each end of a relationship. Every row of `Filters` has a
number, or NULL, in each column, and a filter joins what stands before the join (`FilterAssumption`), as
an expression tree does. The days on which a question is asked are dates of the calendar, and `NoDate` is none
(`TimeAssumption`). The candidates of `Ranking` have distances in quarters and other values that are
natural numbers, and the units of the fusion's scores are fine enough that two ranks of one channel differ
by a unit at least (`RankingAssumption`): the code's floating point numbers are so for any list it makes.

### The arguments

No property is inductive as it stands: each speaks of what an operation has done when it is over,
and the induction needs what it has done at each of its calls.

*Session pipeline.* That `CompactMark` remembers what it processes depends on what the thread did
many statements earlier. The inductive invariant is

    Safe == Shape /\ JobsSound /\ TablesSound

`Shape` types the state; a thread's positions are positions of its batch. `JobsSound` says what
each operation has established when it is at a given call: past the check it works for the
session's owner; every visited position of an append is stored as the request sent it and, unless
its embedding failed, has a vector or will get one; a compaction past its read has events of one
session and owner, past its updates they are purified, past its inserts its episode and narrative
exist. `TablesSound` is the invariants themselves. The argument that another thread's step cannot
take back what an operation has established is in one relation, `Grows` (sessions keep their
owner, rows keep their payload and flags, digests stay): every step grows (`StepGrows`), and what
`JobSound` says survives growth (`JobGrows`). So each action has only to show its own stack sound.
The refinement follows: an insert of a new row is `Accept`, `insert_episode` is `Digest` (its
events are together by `DigestSound`), `CompactMark` is `Retire` of that digest, and every other
step leaves the view unchanged.

`DigestedOnce` is claimed while no two compactions of a session have overlapped and nothing has
failed (`Calm`). Its invariant `Once` adds that then the episodes are disjoint
(`DisjointEpisodes`), that one compaction at a time is in progress (`OneAtATime`), that what it
has taken is in no episode until its own insert (`TakenIsFresh`), and that what is in an episode
is marked or about to be (`DigestedIsCovered`).

*Erasure.* `ErasureInv` adds to the shape of the three more operations that an erasure that was
quiet left nothing, and nothing of the user's is in progress that could write again
(`QuietlyGone`). `DigestInv` follows notes, narratives and the narratives that compactions are
about to write, since a removal may come between any two of their statements.

*Reads.* `ReadsInv` is `RowsOK` (the rows are distinct, and those removed are gone), `ReadingOK` and one part
for each read. For a walk over pages (`ListsOK`, with `Walked`) it compares what was given with what lies
behind the offset, in the rows as they are now (`Before`): rows told of at the start that are still there and are neither
given nor behind the offset are at most as many as were removed; rows given that
will be given again, and those given twice, at most as many as have come. A row that
comes or goes moves one row at most across the offset (`ComingMoves`, `GoingMoves`), and a page takes its rows
from those behind it (`PageTakes`). An episode's messages are given along a list of its own, which nothing
moves (`MessagesOK`, `Given`). The context is a recursion from the newest event; that after n events it is the
last n, or the last that fitted (`ContextIs`, `FitsTo`), is by a least counterexample. For the search, an
answer is an arrangement in the order of the shares, and an episode that is higher in one channel and no lower
in the other has the larger share (`SharesFall`, `SharesOrder`, `HigherHasMore`), so it stands before
(`FusedInOrder`); this is reckoned for the ranks 1 to 4.

*Feed.* Each theorem has its invariant over the shape `FeedTypeOK` and `StampsAreSound` (no
version is ahead of the counter): `LocalInv` follows private texts through an add and the queue;
`LaterInv` the order of ids; `TwinInv` what an add that has looked knows of the rows of its
content, as long as no other overlapped it; `HeardInv` that a row the follower has not heard of is
ahead of its cursor (`Ahead`) or was changed in one of the named ways, that deletions have their
tombstones (`Gravestones`), and what is so between the two queries of a poll (`MidPoll`); `DeferInv` that
the deferred adds of each text add up.

*Tables and bundles.* `IndexInv` says of vectors, words and scope columns separately what holds at
each statement of an opening, a write and a rebuild, tables cut by a death apart. `PortInv`
(`PortTyped`, `OneOwner`, `Minted`, `StoreSound`) says that keys are minted once and that
each reference of a row is to a row of the same owner, or is loose. It was not inductive at first,
and the state that refuted it is real: the events of a deleted session are taken over by a later
session of its id and exported with it, while what refers to them has another owner. The property
now names that case; the four calls it takes are more than the run has.

*Meditation.* `MedInv` says what each caller has on its stack (`CallsAreSound`), how each run stands to the
cooldown (`RunsAreSound`), and that marks, digests, names and relations are those of facts that
were stored, or looked for by runs that overlapped.

*Search.* `RecallInv` says what a search that has read a memory knows of it, with what has changed
since; `CountInv` that accesses in the queue, in hand, written and lost add up for each memory, and how far
the queue passes its limit: one write of a flush takes one from one hand (`OneWritten`, `WriteCounts`). `FrontInv` says
of each row of a memory that it was told by its own agent or by none (`RowSound`), and of each call, done or not, that its
answer holds such rows of its scope only (`AskSound`); a merge keeps that because with an agent it looks at that agent's
rows alone (`RowsAreTheirs`). For the walks, `Layers(w, A, X, n)` says that w holds what the relation A leads to from X in
0 to n steps. Layers grow with the relation and the start, so what a spread has found lies in the layer
of its hops in the graph as it is now (`SpreadNear`), and holds that layer of the graph as it was at the
beginning, with all that is next to what it has gone on from (`SpreadFar`); a spread whose
frontier is empty has then found all layers. A search's relationships lie within its depth
(`NeighborhoodIsNear`), and each of those it should return is returned or touches an entity still to be
asked for (`SearchWide`). `PairsGrow` lets the other threads weave meanwhile.

*Filters.* `FilterInv` says that the names of a clause are 1, 2, … up to its last number, one for each value
(`NumberedTo`), that each condition so far is one of the query's own with its value in its place or is the filter
(`FitsOneOf`), and that each asked for is there. What `to_sql` makes of a filter is known by an induction along
it (`SqlStepFits`): each condition's numbers begin at or after the offset, end before the next offset, and
have its values in their places. The n-th name is then bound to the n-th value (`BoundIs`), further
parameters at the end change nothing (`StillFits`), and the truth SQLite finds is "true" if and only if the
expression holds as plain logic (`TruthAgrees`), since no operator negates: unknown and false are never told apart.
That the recursive functions of the model exist is `StepsExist` (in `SumProofs`) and `JoinsExist`.

*Calendar.* The number of a date is that of the first day of its year, and the days of the year before it (`DayOfYear`,
`DateIs`). Years abut (`YearsAbut`), and so do months (`MonthsAbut`), so the order of the dates is that of their numbers
(`OrderOfDays`), each number is that of a date (`DayExists`, by the first month and the first year that reach it), and
`Days` finds it (`DaysIs`). Each reference's range is then what the reference means (`ReferenceIsMeant`),
for the months by their distance, for a week by the remainder of the day's number. `TimeInv` says that the ranges are those of the
references found in the query, and that what is raised is what lies in them; how the texts of a moment and of a day
compare is how their numbers do, a time of the day counting as more than its day.

*Ranking.* The property compares two candidates by what was known of them before any score was made; the
results carry one number each, whose scale and direction change from stage to stage. `RankInv` therefore
says at each stage that the results are `Led`: for each result, each candidate that is better in what
counted so far stands in front of it, with a score at least as good in the direction of that stage
(`SoundAt`). Both halves are needed: the place alone would not survive the next sort, the score alone
would not survive a cut. That scores are not negative, or within the farthest distance, is part of it, since
a product with a retention or a weight keeps the order of such numbers only (`NotNegative`, `Sized`);
the verdicts of a reranker may be negative, and this is where `Beats` asks for equal weights. A candidate
better in each channel has the better rank in each, so the greater share in each (`QuotientsFall`, `SharesLead`). A
stage that gives new scores and sorts keeps the results led if the new scores agree with the pairs (`SortedKeeps`, by
`Worthy`); a cut keeps them led, as it takes away the end; the threshold does so because behind the last sort no score is better
than one in front of it (`Falls`, `CutsLast`, `CutAnswers`), which is why the invariant says of the sorted stages that scores fall; and the cap of a session takes a result only after the session has
its share in front (`SessionHasItsShare`).

*Services.* `ConfigInv` says that who is between the copies holds the lock (`LockIsHeld`), and
which of the copies are the new one at each step of the holder (`CopiesSound`). `PermitInv` says
that the permit is free if and only if no import is admitted, and that none is while the store is
between two lives, which is why a permit may be forgotten with its store. `GenInv` bounds the
requests by `Attempts * rejections + attempt` while a completion is asked for. `RestoreInv`
(`RestoreTypeOK`, `SourceIsThere`, `PathsAreClear`, `Kept`, `StrandedIsLeft`) says at each line of
a restore which of the places of the disk holds a whole database, which paths are still free, and
that a main file without its log was left by a death or a second error. `RobotInv` divides
the events, in their order, among the texts, the buffer and what was dropped. `EmbedInv` says that each batch is
under way or answered once, with the piece of the texts that is its own; that the entries of an answer can be
sorted at all is shown by counting, for each, those before it.

Sums over sets are defined by recursive functions; that they have a solution, and one only, is `SumProofs`.
Where an induction over numbers is needed it is by a least counterexample (`Least`).

### Only model-checked

Liveness under fairness is beyond the prover: `TakenIsProcessed`, `RestoreIsAnswered`,
`MeditationEnds`, `CallsAreAnswered`.

## 5. Where the code departs from its docs, beside the findings

Met while modelling, and followed by the models as the code has it. No run is about them.

- `compact_ops.rs:411`: an embedder that answers with fewer vectors than texts leaves the last
  events unpurified, and they are marked processed. `session_pipeline` has such answers
  (`ShortBatches = TRUE`), and `ProcessedIsPurified` excepts the events they leave out.
- `storage/replica.rs:3` promises "at least one complete copy" at all times; a death, or a second
  failure, between the two renames of `move_database_files` leaves the main file at one path and its log at
  another, under names that nothing remembers. `RestoreKeepsData` excepts this (`torn`);
  `OneErrorTearsNothing` says what it takes. A candidate also stays on the disk for good when
  `move_database_files` fails (`replica.rs:267`).
- `memory/session_ops.rs`: the context is built from the oldest `max_events` events, not "most
  recent first", and the summary may pass the budget; `storage/stream.rs:690` looks for
  `'Narrative'` where `narrative` is stored, so no session has a summary.
- `types/episode.rs:132`: `search_episodes` ignores since, until and min_significance; its
  full-text channel never joins its table.
- `memory/search.rs`: a no-op reranker in pure-vector mode reverses the order, a reranker's
  negative scores meet positive weights, the threshold of pure-vector mode is applied once as a
  distance and once as a relevance, and the graph's additions carry distances among relevances.
- `types/mod.rs:177`: the run, the app and the filter of a search are kept by some channels only. With the
  graph on, what is linked to an entity comes from any run, app and filter (the run `search_run`
  shows it of the run), and with the words on, the filter does not bind what these find. `RecallIsScoped` says
  what holds.
- `time_parser.rs:9` calls a range "inclusive on both ends", but `apply_temporal_filter`
  (`memory/search.rs:654`) compares texts: "2025-03-15T14:30:00Z" is greater than "2025-03-15", so no moment with a
  time is raised on the last day of a range, nor on any by "yesterday" or "today". The code that would have
  appended the end of the day, `temporal_range_search` (`storage/query.rs:620`), is called by nothing.
- `time_parser.rs:187`: "十一月" is also read as 一月, "十二月" as 二月, and "3月前", three months ago, as the third month
  too. `RangesAreCalendar` claims of these (`Misread`) only that what is asked about is raised.
- `types/filter.rs:59` and `:129` call `contains` case-sensitive; in a text it is a `LIKE`, which is not.
  `FilterMeansWhatItSays` reads it so by name (`WithoutCase`). An `Or` that is serialised reads back as `And`.
- `memory/mod.rs:287`: a flush ignores the error of each of its writes, so an access may go uncounted.
- `entity_links.rs:170`: `MAX_SPREAD` is 100 and a spread may reach 199.
- `dedup.rs`: what is added without an agent may be merged into a pet's memory, whose content it then is,
  against README.md:168 and :338; and what is added in one run or app into a memory of another, whose scope it
  takes. What one pet is told never becomes another's (`PetsStayApart`).
- `memme-node`, `memme-ffi`: a restore leaves the old store open on the replaced file.
- `memory_robot.py`: `connect()` discards buffered events, and its fallback has no run id. The
  Dora and Copper `compact` is always refused, as their events belong to no session.
- `memme-mcp`: notifications are answered, and requests without an id refused.

## 6. Not modelled, and the plan

Not modelled: the background queue (no live code feeds it), webhooks (fire and forget, behind a
feature), reflection and procedures (single-row upserts of what a model answered), tokenisation
and wording, the ONNX models, the wire formats of the providers, conversions between the
languages, the web documentation, `memme-wasm` (its constructor always fails), replica
synchronisation, the checks of embedding dimensions, and what nothing calls, as `temporal_range_search`.

Next, in this order:

1. An abstract specification of the sync feed (every change reaches the follower), implemented by
   `MemoryFeed` under the conditions that `NothingLost` names.
2. Deletion of entities and of their relations beside the walks; two backups of one name.
