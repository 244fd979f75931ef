# codebase-intel: a verification project

TLA+ models of codebase-intel. Of the indexing half: the server's registry of
indexer daemons and its dispatch of reindex commands, the daemon that watches a
tree and uploads it, the parser and chunker, the embedding client with its
retries, and the pipeline that turns uploads into rows of PostgreSQL and vectors
of Qdrant. Of the serving half: the server's process, its MCP sessions, and the
tools that take several steps. TLC checks the models on small instances; TLAPS
proves the safety results for every value of the constants.

All paths are relative to `src/`.

## The system

One server (`cmd/server`) answers MCP clients (search, metadata, reindex tools)
and indexer daemons (`cmd/indexer`). A daemon serves several codebases, walks
and watches their trees and uploads files over HTTP; the server parses, embeds
and stores them. The server sends commands back on one SSE connection that each
daemon keeps open.

| Component | State | Operations | Talks to | Hard because |
|---|---|---|---|---|
| Indexer registry (`internal/mcp/indexer_manager.go`, `http.go`, `tools_index.go`) | map (node ID, codebase) -> registration with its channel; map request ID -> status | register, deregister, send a reindex command, update a status | SSE handlers (one goroutine per connection), reindex tool, status endpoint | connections of one node overlap; channel operations happen outside the lock; commands and reports get lost |
| Daemon connection (`internal/indexer/daemon.go`) | the stream it reads; jobs waiting for `reindexMu` | dial, dispatch, reindex, report | registry | reconnects, crashes, reports that are never retried |
| Codebase watcher (`daemon.go`, `watcher.go`) | pending events, debounce timer, batches | receive an event, take a batch, process it | upload client, `reindexMu` | batches overtake one another and full passes; event masks forget the order |
| Upload client (`internal/indexer/client.go`) | the batch being filled, request ID | walk, GC, post batches, final batch | server over `httpretry` | retries, lost answers, limits, files that cannot be read |
| Handlers and pipeline (`handler_indexer_files.go`, `internal/pipeline`) | relationship buffers per request ID | IndexFile, GC, DeleteFile, FinalizeRelationships | the two stores, Voyage | seven store calls without a common transaction; abandoned requests |
| PostgreSQL store (`internal/storage/postgres`) | symbols, chunks, file_state, relationships, summaries | upserts, deletes, queries | - | cascades, ON CONFLICT, foreign keys |
| Qdrant client (`internal/storage/qdrant`) | one collection per codebase | ensure, upsert, delete by path, search | Qdrant | no transaction with PostgreSQL |
| httpretry (`internal/httpretry`) | attempt, back-off | Do | everything over HTTP | which errors are retried, how long a caller waits, and what was done before the retry |
| Parser (`internal/parser`) | none | two walks of a syntax tree per language: symbols, then relationships | pipeline | the walks must agree on names and lines without knowing of each other |
| Chunker (`internal/chunker`) | none | split symbols into chunks, chunk IDs | pipeline | boundaries; what an ID depends on |
| Embedding (`internal/embedding`) | semaphore and result channel of a call | EmbedBatch: concurrent batches | Voyage | order of results, first error, goroutines that outlive the call |
| Server process (`server.go`, `migrations`) | backends of the process, schema in the database | connect, migrate, listen, stop | PostgreSQL | half a schema after a failed start |
| MCP sessions (`http.go`) | map of sessions and their channels | initialize, open and close streams, delete | MCP clients | streams come and go while a session is deleted |
| Tools (`tools_metadata.go`, `tools_search.go`, `rerank`) | none | search, explain, summaries, file context, hierarchy | store, Qdrant, Voyage, Cohere, Anthropic | any of five backends fails in the middle of a call |
| Summaries (`internal/summary`) | rows of `summaries`, keyed by a hash of the sources | generate | Anthropic, store | sources change during the slow call; calls race |
| Others: config, discovery, metrics, dashboard, CLAUDE.md generator, commands | none of their own | | | pure functions or plain I/O |

What makes them correct, in short: a registration never outlives its connection
and a listening daemon is reachable; a command runs at most once and its status
never runs ahead of it; between requests the stores hold what `file_state`
records; edges join symbols that exist and a finished pass has stored all it
could resolve; a settled daemon's index mirrors the tree; a pass that reports
success has uploaded and linked everything; what a file uses is attributed to the
symbol it is written in, and its chunks cover it under distinct IDs; a vector is
the one of its text; nothing is served on part of a schema, a summary claims the
sources it was written from, and every tool call is answered. `PROJECT.json` lists the hazards
with their lines and the properties that cover them.

## Modules

| Module | Models | State and actions |
|---|---|---|
| `ReindexLifecycle` | the promise of the reindex machinery, without channels or connections | per job, what happened on the daemon and what the server shows |
| `IndexerRegistry` | `indexer_manager.go`, the SSE and status endpoints, the daemon's connection and jobs | A member of `Conns` is everything one `GET /mcp/indexer` owns: goroutine, channel, struct. `nodes`, `requests`, `sseChan`, `closed` are the Go maps and channels. `RegisterNode`, `DeregisterNode` and `SendReindex` are the critical sections; `CloseChannel`, `SendCommand` and `RecordOverflow` what follows outside the lock. `Drop` and `CrashDaemon` are the faults |
| `FileIndex` | `pipeline.IndexFile`, `GC`, `DeleteFile` with the store calls they make | `handler` is where each request stands: the file in hand, the call it makes next and `todo`, the rest of its batch; one action per store call, one per failure that is treated differently; `CrashServer` is a restart. Any number of requests may run side by side, for the same files or others, which is what a client that gives up and posts again brings about, as does a second daemon |
| `RelationshipGraph` | `RelBuffer`, `FinalizeRelationships`, `UpsertRelationships`, the cascades | `IndexFile` is one step here; a pass buffers, reads the symbols (`LoadSymbolRefs`) and stores (`UpsertRelationships`) |
| `CodebaseWatcher` | `codebaseWatcher`, `Daemon.Run`, full passes, `reindexMu` | `disk`, `events`, `pending`, `batch`, `walked` on the daemon; `index` is what the server has, changed file by file |
| `Uploader` | `Client.fullIndex` with `httpretry` and the server's answers | `batch` is filled by `ReadFile`, posted by `Answered`, `Retry` or `PostFails`; `Serve` is `handleIndexerFiles` for one batch |
| `SourceTree` | what tree-sitter gives `internal/parser` (external) | a language and a tree of the nodes the walks tell apart, which grows in pre-order: every reachable state is one source file |
| `SymbolWalk` | `ParseFile`'s first walk, `parser.go` and `lang_*.go` | one definition per language: the set of symbols with qualified name, lines and length of content |
| `RelationshipWalk` | the second walk, `relationships*.go` | the set of calls, references, imports and inheritances with source and target; `Enclosing` is `findEnclosingSymbol` |
| `ChunkSplit` | `splitContent`, `ChunkFile` | `Chunks`: the parts of a symbol |
| `FileParse` | the four modules above, for one file | `ChunkID`; the properties about symbols, relationships and chunks |
| `HttpRetry` | `httpretry.Do` | any number of calls under one context: attempt, wait, answer, error, cancellation; `slept` is history |
| `EmbedBatch` | `voyage.go` | extends `HttpRetry`, whose calls are those of `embedSingle`. `worker` is where each goroutine stands, `results` the channel, `ordered` and `outcome` the caller's |
| `EmbeddingPromise` | what `EmbedBatch` promises | one variable, the answer |
| `ServerLife` | `initBackends`, `migrations.Run`, `RunHTTP` | `phase` of the process, `applied` by it, `schema` in the database |
| `McpSessions` | `createSession`, `handleSSE`, `handleDeleteSession` | the sessions of the map, the channels in each session struct, the handler of each `GET` |
| `QdrantCollection` | `EnsureCollection` | the collection, its payload indexes, and the uploads that set it up |
| `ClassHierarchy` | `GetClassHierarchy` | the `inherits` rows; the recursive query as a function of them |
| `McpTools` | `get_module_summary` with the generator, `search_code`, `explain_subsystem`, `get_file_context` | `call` is where the handler of each `tools/call` stands and what it has read; one action per query or request |
| `McpServer` | the last five, composed | a process that stops loses sessions, calls and uploads; what is stored stays |
| `IndexerRegistryProofs`, `FileIndexProofs`, `RelationshipGraphProofs`, `CodebaseWatcherProofs`, `UploaderProofs`, `FileParseProofs`, `EmbedBatchProofs`, `McpServerProofs` | | theorems about the module each is named for and those it extends |
| `MC...` | | small instances for TLC |

The parts meet at narrow interfaces: `CodebaseWatcher` takes a request to the
server as one change of `index`, which `FileIndex` takes apart into store
calls; a pass is a set of files there, which `Uploader` cuts into POSTs; and
`RelationshipGraph` takes `IndexFile` as one step and looks at what the passes
leave in the relationships table. `FileParse` is what `SymbolsOf` and `RefsOf` of
those two stand for, and `EmbedBatch` the call between their reads and writes.
`McpServer` shares the tables with them: there an uploaded file is one change of
the symbols, and an edge one of `inherits`.

History variables record what the properties speak of and no action reads as a
guard: `disturbed` and `faulted` (what a fault touched), `collided`, `rewriting`, `displaced`, `acknowledged`, `read`,
`dropped`, `recreated`, `unchanged`, `slept`, `given`, `torn`, `interrupted`. `passFiles` is one too, but for the guard of
`RelationshipGraph!IndexFile`, where it says that a retried POST brings the
content it brought before.

Definitions whose comment begins with "Mutant:" are not part of the models. Each is a
plausible bug of the definition after it, and shows that a property can fail.

## Runs

Passing runs:

| Run | Question | Bounds, and why they suffice |
|---|---|---|
| `RegistryConnections` | do overlapping connections leave stale entries, close a channel twice, strand a listener or misroute a command? what can two daemons on one host do to one another? is the shown status never ahead of the job, is "indexing" never without a reason? | 3 daemons: two with one node ID that share a codebase, and one on another host that shares the other codebase with one of them; 2 connections at one time (identities are recycled, so any number in sequence, of any daemon), a request for and a watch batch on the codebase that both hosts serve: an old handler and a new one, a sibling's, a command for either host and reports that interleave all occur |
| `RegistryJobs` | without siblings: does a request run once, is it answered, does a daemon come back? | 1 daemon, 2 connections, 2 requests for one codebase and channels of 1, so that a channel is full and reports interleave, under fairness |
| `FileIndexOverlap` | do the stores agree with `file_state` when requests for a file overlap, and is what counts as unchanged there? | 1 file, 2 contents that share one of 3 symbols and one without chunks, 2 requests: a symbol that stays, one that goes and one that comes |
| `FileIndexBatches` | are the files that only one of two overlapping batches has left alone? | 2 files, 2 contents of the one and one of the other, 2 requests with batches of one or both in any order: an abandoned batch that goes on to a file the next one is writing, has written or leaves alone |
| `GraphPasses` | are edges sound and complete? | 3 files with a short name declared twice, 2 passes |
| `WatcherOneFile` | does the index follow a file, and does it get there? | 1 file, 2 contents, 2 batches that can overtake one another, 2 queued events, under fairness. Files meet only in the walk, the queue and the mutex, which the batches and the full pass contend for already with one; it is not excluded, as nothing is promised of a file that is |
| `UploaderPass` | does a pass that succeeds bring everything? | 4 files of which one is as large as a batch, batches of 2 files or 3 bytes, 3 attempts: passes of one to four POSTs, with a batch ended by either limit |
| `FileParseWalks` | do the two walks and the chunker agree? | every tree of at most 4 nodes with 2 names and one with type parameters in each of ten languages; chunks of 2 lines with an overlap of 1. A declaration, one inside it, a use in that and a second declaration around or beside them is all the walks relate at one time; the constraint `FirstNamed` drops trees that differ in the choice of names only |
| `EmbedRetries` | is every text's vector in its place, is the number of requests bounded, does everything end? | 3 texts of 2 lengths, batches of at most 2 texts and 6 tokens, so one to three batches ended by either limit; 2 slots, so one goroutine waits; 2 attempts, a status of each class and hints below and above the limit, under fairness |
| `McpServer` | is it safe to serve, and is every call answered? | 2 migrations, one stop in service and any number of failed starts; 2 sessions and 3 streams; 2 calls that race for one summary of a module with 2 symbols, of which a summary reads 1; 2 uploads of a collection with 3 indexes; 3 classes with up to 3 edges, which gives diamonds of length 2 and cycles; under fairness |

Every bound is a constant: `ChanCap`, `Conns`, `Handlers`, `Passes`, `QueueCap`,
`Batches`, `MaxAttempts`, `MaxFiles`, `MaxBytes`, `MaxNodes`, `MaxStops`, `MaxDepth`,
`MaxEdges`. Deadlock is checked but where the system really ends: a pass of `Uploader`,
a file in `FileParse`, a call in `EmbedBatch`, and in `McpServer` behaviours that the
constraint cuts. The symmetry sets permute connections,
handlers or passes, which no definition tells apart, and no run with a liveness
property uses one.

`McpServer` has five parts that share only the process. Moving all of them at one time
multiplies states without a new meeting of two of them, so the constraint `PartsApart`
of `MCMcpServer` follows behaviours in which one part moves at a time, with the process
and the upload or session it needs; `McpServer` itself has no such restriction. Two
calls race only for a summary, as no other tool reads what a call writes.

Runs that expect a violation check a sentence of the repository against what
the code does; each has an entry under "findings" in `PROJECT.json`.

| Run | Sentence | What happens |
|---|---|---|
| `RegistrySend` | "channel send is safe outside the lock" | the channel is closed between the lock and the send, which panics |
| `FileIndexTwoCodebases` | "hash(codebase + qualified_name)" | the codebase is not part of the hash |

### What the properties leave out, and why

The properties of the passing runs except some states. Each exception stands
for behaviour of the code that the models have:

- `Displaced` in `ListenerIsRegistered` and `BusyForAReason`. Two daemons on one host have
  one node ID by default (`indexer_manager.go:41-44`). Where they serve one codebase the
  later one takes over its entry, and when either hangs up, every entry of the node ID is
  removed and one channel closed (`indexer_manager.go:91-110`): the other daemon can stay
  connected without an entry, or without some, so that commands and reports miss it. A
  connection to which a sibling did that is in `displaced` from then on until it ends.
  "Because all entries for a single registration share the IndexerNode pointer, the SSE
  channel is closed exactly once" (`indexer_manager.go:91-93`) is true of one registration;
  the entries that are removed may be those of two. Of the three daemons of
  `RegistryConnections` one has no sibling and no exception. `Heals` is checked of a daemon
  without siblings, as a displaced one dials again only when its own connection breaks.
- `disturbed` in `FileIndex` also has the files that two requests have in hand or still to
  do at one time, from then on until one request alone rewrites them. Their calls
  interleave, and the later one may be the older content: nothing orders an abandoned
  batch and its retry.
- `collided` in `FileIndex`. Chunk IDs do not hash the codebase (`chunker.go:183`), so an
  upload of a path that another codebase has with a symbol of the same name and line
  overwrites that codebase's rows, which keep their `codebase_id`. Both files are in
  `collided` until they are rewritten without meeting such rows. One server for many
  projects is what `README.md:13` proposes, and paths are relative to each. The passing
  runs have one codebase, where the exception is empty: that a codebase does nothing else
  to another is what the theorems `StateIsTrue` and `HitsHaveSymbols` prove, for any number
  of codebases and overlapping requests; the run `FileIndexTwoCodebases` shows a collision.
- A failed call is a disturbance in `FileIndex` too. When the vectors of a file have been
  deleted and the upsert fails (`pipeline.go:197-204`) in a forced pass over an unchanged
  file, `file_state` still has its hash and later incremental passes skip it, in spite of
  "delete+upsert is safe".
  A file that failed before its first `file_state` row has rows that garbage collection,
  which goes by `file_state` (`pipeline.go:303-308`), does not see.
- `Chunkless` in `IndexMatchesState`. A file whose new content has no chunk returns early
  (`pipeline.go:121-124`), before the cleanup, and keeps its old rows.
- `RelationshipsStored` says that edges are there, not that they are current: the edge of a
  call that was edited away stays as long as both symbols do (`relationships.go:56`).
  And it says so as long as no file with an end of the edge is indexed again: the ID of a
  symbol has its start line in it, so a line inserted above a function orphans its row
  while the function still exists, and the cascade drops the edges of files that are
  not indexed again, where `files.go:174-177` says "those symbols no longer exist".
- `recreated` in `IndexMirrorsTree`: `processBatch` takes a mask with Remove or Rename for
  a deletion whatever follows it in the same debounce period (`daemon.go:422`), so a file
  an editor replaces by renaming and creating is deleted on the server and not uploaded
  until its next event or a full pass.
- `LastFileRead` in `EverythingLinked`: when the last file of the walk cannot be read, the
  `continue` passes over the flush (`client.go:172`), and the empty final batch is sent
  only if nothing was posted. The files of the batch are not uploaded, no batch is final,
  in spite of "The last batch carries final=true" (`client.go:117`), and the pass succeeds.
- `Excluded` in `IndexMirrorsTree`: `processBatch` uploads what changed in a watched
  directory without asking for the exclude patterns (`daemon.go:421-436`), which
  `README.md:108` calls "Glob patterns to skip"; the next walk collects it again.
- `BatchBounded` allows the file that fills a batch to exceed its bytes: the comparison
  follows the append (`client.go:182-185`).
- `dropped` in `EverythingLinked`. A final batch drains its buffer before
  `FinalizeRelationships`; if that fails or the answer is lost, the retry finds the
  files unchanged and nothing to store (`handler_indexer_files.go:117-129`).
- `UsesAttributed` speaks of lines no other statement shares. Types of one group in Go
  (`parser.go:234`) and arrow functions of one lexical declaration in TypeScript and
  JavaScript (`parser.go:502`, `lang_javascript.go:107`) all have the lines of the whole, so
  that what any of them calls or refers to is attributed to the first; the property says
  so. And it leaves the rest of such a statement to whoever has its lines:
  a call in the other declarators of a lexical declaration comes from its first
  arrow function.
- `BasesJoinTypes` leaves out types nested in Kotlin and Swift: the inheritance has the
  short name, the symbol a qualified one.
- `ChunkIDsDistinct` leaves out a declaration inside another of the same qualified name:
  the default constructor of a Dart class is one, and if it starts where a chunk of the
  class does, the insertion of the file's symbols fails as a whole. The same would
  happen to a `var` statement of JavaScript that declares one name twice, which the trees
  of `SourceTree` do not have.
- `ChunksCover` speaks of content but for functions of Dart, whose content is the signature.
- `WaitBounded` allows a quarter more than `MaxBackoff`, the jitter; it may also undercut a
  Retry-After by a quarter. The jitter of a caller's policy is not read.
- `NothingLost` speaks of vectors the API gave. Status 400 for a batch is an answer without
  vectors and without an error (`voyage.go:172`), and `IndexFile` then skips the points.
- `torn` in `SummaryOfItsSources`: files and symbols are read by two queries.
- `interrupted` in `CollectionIndexed`: `EnsureCollection` takes a collection that exists
  for a finished one, so an index whose creation failed is never made up for, and a
  second upload meanwhile goes ahead without it.
- `Backwards` in `RequestsAnswered`: a range that ends before it starts makes
  `get_file_context` panic (`tools_metadata.go:388`), and the connection is dropped.
  `search_code` would do the same if Cohere answered with the index of a document it was
  not sent (`tools_search.go:69` does not check it); the model has answers about the
  documents sent only.

What the models of the parser show besides: an import has the path of the file as its
source and never becomes an edge; the callee of `v.method()` keeps the variable, Dart
emits none for it, and `extractName` cuts at "." only, so most calls of methods find no
target; decorated definitions of Python, contents of Rust modules and C preprocessor
conditionals have no symbols. And of the tools: a stored summary is served whatever its
hash (`tools_metadata.go:421`), and `GenerateModuleSummaries` has no caller, so it is
never written again; the hash is only compared when two calls race. The materialized
views behind `list_modules` are never refreshed, where `ARCHITECTURE.md:420` says "run
after indexing"; no summary of level "subsystem" is ever stored.

## Fairness

`IndexerRegistry!Fairness` and `CodebaseWatcher!Fairness` are weak fairness of
steps that nothing but the Go scheduler, a timer or an answer can hold up: a
runnable goroutine runs; `connectAndListen` dials in an endless loop with a
bounded back-off; a `select` with a ready channel proceeds; a mutex that is
released is given to a waiter (`sync.Mutex` does not starve one); a request is
answered or fails, since the client has a timeout. Faults, tool calls and
changes of the tree have none. `EmbedBatch!Fairness` is the same for its goroutines, the
one that closes the channel and the caller: requests end by the client's timeout and
waits by a timer. `McpServer!Spec` has it for the handlers of tool calls only, each of
whose steps is a request with a timeout or a query. Queries have none, as calls run under
`context.Background()` (`http.go:267`): there it rests on PostgreSQL, which answers or
whose connection breaks. The antecedents of `Heals` and `Converges` say
that disturbances stop; without that neither can hold. `WF_vars(TakeBatch(b))`
stands for the debounce timer: every event re-arms it, so a tree that never
rests may delay a batch for good, and `Converges` asks it to rest.

## Proofs

`IndexerRegistryProofs`, from `ConstantsAssumption` (the types of the constants,
`ChanCap > 0`; nothing about how many daemons share a node ID):

- `TypeCorrect`: `Spec => []TypeOK`, one step per action.
- `RegistrySafe` and `NoDoubleClose`. Neither property is inductive: that an
  entry's channel is open depends on what handlers are about to close. The
  invariant `RegistryInv` adds `ClosingSound` (what a handler is about to close is
  out of the map, still open, in nobody else's hands and not recycled) and
  `UnusedIsFresh` (a connection not in use has an open channel). The lemmas take
  `RegisterNode`, `DeregisterNode`, `CloseChannel` and `Recycle` one at a time; the
  rest leaves what the invariant speaks of alone (`RegistryFrame`).
- `ListenersStayRegistered`: `ListenerIsRegistered`, for any daemons on any hosts.
  `ListenerInv` adds that a live connection is the one its daemon reads, that all entries
  of one daemon are one registration, and that a connection that is not about to be
  cut off lost its entries to a sibling or has one from its registration on. A scan of
  `DeregisterNode` closes the channel of one struct; whatever else it removes
  belongs to siblings, and is displaced.
- `CommandsAreRouted`: `CommandsRouted`. The invariant `CommandInv` adds what a call of the
  reindex tool knows of its target: between the lookup and the send its request is recorded,
  runs nowhere and is in no channel, and the target has served the codebase since; hence
  the send puts it in its only place. It needs `RegistryInv`: a target that was recycled
  under the call would serve other codebases.
- `RefinesLifecycle`: the registry and the daemons implement `ReindexLifecycle`, step by step.
  Most steps stutter; a job starts, reports, is lost or is forgotten as the abstract one does.
- `BusyIsExplained`: `BusyForAReason`, for any daemons on any hosts. `BusyInv` adds that a
  registration that was not displaced has the entries of all codebases of its daemon
  (`WholeRegistrations`), so that the report that ends a job finds the registration
  that the first one marked.

`FileIndexProofs`, from `FileIndexAssumption`: type correctness, and `IndexMatchesState`
and `VectorsBackedBySymbols` for any codebases, paths, contents, symbols, batches and
requests. `FileInv` says why the stores agree although seven calls write them and nothing
keeps two requests apart. The files that two requests touch are disturbed, a file is in
`rewriting` only while one request has it to itself, and whoever has begun to write a
file that is neither disturbed nor collided (`Shaken`) is the one that rewrites it (`Exclusive`);
such a request has done what its step says (`Written`); a file nobody is at matches its
record, one that is being dropped has only its vectors left, and in every other a vector
has its row (`CleanFile`). Since a file stays shaken until it is rewritten, what a batch
does to the files further on needs no argument of its own. There is one lemma per
store call, per failure that is treated differently, for a new request and for a restart.

`RelationshipGraphProofs`, from `GraphAssumption`: type correctness, `EdgesJoinSymbols` and
`RelationshipsStored`. The first is inductive, as every deletion cascades and a row whose
symbols have gone is not inserted. The second needs `PassSound`: an open pass has buffered
the relationships of every file it indexed, as the file is now, and what a pass is about to
store holds each of them that can be resolved. `SameCandidates` is the heart of
it: a step that touches no home of a name leaves all the symbols the name can stand for.

`CodebaseWatcherProofs`, from `WatcherAssumption`: type correctness and `IndexMirrorsTree`.
`MirrorInv` says where the news of a file that differs from the index is: a write is
waiting in the queue, among the pending events or in a batch, or a full pass will still
walk or upload it (`WriteReported`); a removal likewise (`RemovalReported`); a file that came
to be after the walk, which the collection is about to take away, is brought back by its
event, since batches wait for the pass (`CollectedReported`); and no removal is on its way
for a file that exists, unless it was written again (`NoStaleRemoval`). When nothing is on
its way, nothing differs.

`UploaderProofs`, from `UploaderAssumption`: type correctness, `EverythingLinked`
and `BatchBounded` for any number and size of files, limits and attempts. The
invariant `PassInv` follows a file from the loop to the batch, to the store, to the
buffer and to the linked ones, and says that after the POST of the last file
nothing waits; `ServeKeeps` says what a fully or partly served POST does to it.

`FileParseProofs`, from `TreeAssumption` and `ChunkAssumption`: all four invariants of
`FileParse`, for trees of any size of all ten languages and any limits of the chunker.
`TreeInv` says that the nodes are in pre-order (a node before its descendants, which follow
it without a gap), that lines do not go back, that a declaration has a line of its own,
that every node has a last one inside it, which names there are, and that a group declares
none twice. From it come
`BeginsAfter` (a declaration that is not inside an earlier one begins after its end) and
`LiesWithin` (one inside it begins later and ends no later). `AllSound` goes
through the walks and says of each symbol that it has the lines of the statement it is
declared in (`Statement`: the node, or the group around it), that no statement is inside a
group, and how a type is named. Then:

- `ChunksAreWhole`: `CutCovers`, about the chunks of any content, takes for each line the
  first chunk that reaches beyond it.
- `IDsAreDistinct`: two symbols with one ID would share a line and, neither being inside the
  other, would not (`ApartOrNamedApart`); what one group declares shares all lines and
  differs in its names.
- `UsesAreAttributed`: a symbol further in than the one found would be around the line too,
  and narrower (`NarrowestIsInnermost`); of those with the same lines the first is found.
- `BasesAreJoined`: what the second walk of each language takes for a type's name
  (`Bearers`) is the qualified name the first one gave it.

`EmbedBatchProofs`, from `RetryAssumption` and `EmbedAssumption`. Of one call of
`HttpRetry`: type correctness and `WaitBounded` (`RetryWaits`). The
invariant adds that a call that waits has an attempt left and that before attempt `n` it
has waited `n - 1` times at most; `BackoffClamped` holds of any attempt and hint, since
it only needs the last comparison of `backoffFor`. Every step of the goroutines is one of
`HttpRetry` or none (`ImplementsRetry`), whence `WaitBounded`; and `InFlightBounded`,
from the invariant `SlotInv`: whose request is under way has a slot, and no more have
one than there are. Further:

- `SplitIsSound`: `SplitSound`, for any number and length of texts and any limits. It is an
  induction over the recursive functions that split and sum. The library's induction rules
  have an operator as a parameter, which no installed prover instantiates; but `WFMin`, that
  a set with a well-founded relation has a minimal element, has none. From it come
  `LeastNumber` (a set of numbers that is not empty has a least one), `NoLeastBad` (a set of
  which each number has its predecessor in the set is empty) and `Recursion` (a function
  defined by steps satisfies its equation); every induction is then a proof that the set of
  numbers where something fails is empty. `SplitLaid` is the invariant of the loop: the first `n`
  texts lie in the batches in order, each within the limits and each but the last ended by
  one. `OffsetTold` says that the sum of the lengths before a batch is the place of its
  first text.
- `VectorsAreKept`: `NothingLost`. `AnswerInv` follows each vector the API gave from the
  channel to its place: a goroutine sends once and for its own batch, the channel is closed
  after all have sent, and the caller ends well only on an empty closed one. That a later
  answer does not overwrite a vector in its place is `OneBatch`: no text is in two batches.
- `KeepsPromise`: the safety half of the refinement of `EmbeddingPromise`. That something is
  returned is checked by TLC (`ImplementsPromise`).

`McpServerProofs`: `ServingHasSchema` from `SchemaInv` (a starting process has applied a
prefix of the migrations, on top of whatever others applied, and only a serving one has
calls); `CollectionIndexed` from `CollectionInv` (a collection has its indexes, or some
upload is creating them and has those before its next one, or its creation was
interrupted). That several uploads race for a collection needs no case of its own: what
one of them has created, the others only add to.

`StreamsRegistered` is proved with the types it needs (`StreamInv`): the loop that removes a
channel from a session's slice (`WithoutElement`) takes away the only one there is of it and
no other. `HierarchyIsNearest` proves `HierarchyNearest` for any classes, edges and depth: the
levels of the query are the iterates of the join (`Iteration`, by induction as above),
the classes of the levels up to a depth are those that so many edges lead to
(`WithinReached`), since a join leaves out the class itself only, and what `DISTINCT`
keeps of a class is the row of its first level. `SummaryOfItsSources` comes from `SummaryInv`: a generator that has
read the files has those there still are, or is torn, and one that has read both has the
sources of one moment; what a write adds is then the row of one such generator.

No theorem has a hypothesis beyond the `ASSUME`s of the modules.

Model-checked only:

- liveness (`ReindexAnswered`, `Heals`, `Converges`, `WorkersEnd`, `RequestsAnswered`, and
  that an answer comes in `ImplementsPromise`), which the prover does not treat under
  fairness.

## Abstractions

- A file's content is a value; the parser's result for it is a constant function. In
  `FileParse` it is a tree of the kinds of nodes that the walks treat differently: a
  class, interface or enum whose members are visited is one kind, and so on. Builtin
  functions and types, which both walks drop, are left out of the names.
- A qualified name is the sequence of its parts, a text its number, a vector the number
  of its text.
- Waiting is counted by its longest duration, in quarters of the unit, and does not pass.
  Chunk IDs keep what matters of them: they depend on path, name and line, not on
  the codebase.
- A command or a report is its request ID and status. The request IDs of the runs are
  distinct; those of watch batches are `watch-` and the time in milliseconds
  (`daemon.go:415`), so that two batches of one host's daemons may in fact share one.
  Counters, times, durations and metrics are left out.
- A store call is atomic and either takes effect or fails; a call that takes effect
  and whose answer is lost is a call that succeeded in an abandoned request. The calls
  that read (hash, parse, embed) are part of the step before the next write.
- Event masks are reduced to "written" and "removed", which is all `processBatch`
  distinguishes. The walk of a full pass is atomic.
- A daemon that stops in an orderly way is a daemon that crashes; it has nothing to save.

Not modelled: configuration, discovery, metrics, the dashboard, the CLAUDE.md generator
and the commands, because they are pure functions of their input, plain I/O or read-only
queries. Nor code nothing calls: `ue_macros.go`, `ue_modules.go`, the loop of
`smartWatcher`, `sendNotification`, `GenerateModuleSummaries`,
`RefreshMaterializedViews`. Nor, in modelled parts: the stdio transport, which is
`handleRequest` in a loop; the connected-nodes gauge, which is only shown; faults of the
local file system and new directories under the watcher; `ast_hash.go`, whose result is
stored and never read.

## Plan

Done: the registry, the watcher, the upload client, the index and its relationships; the
parser and the chunker; retries and embedding; the server towards MCP clients.

Proved: every invariant and every action property that a run checks and that holds, and the
safety half of both refinements; what is left to TLC is listed under Proofs.

Next: what liveness rests on but is itself a safety property, such as that a goroutine of
`EmbedBatch` always finds room in the channel and that a reindex request always has a
handler that will clean up after it.
