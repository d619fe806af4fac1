# longctx: a TLA+ verification project

longctx is a local code-search daemon: it indexes the files of a project into
chunks with embeddings, follows the file system, and answers searches from coding
agents over MCP. `longctx-svc` is its sibling for inference servers: it keeps
indexes of the directories a conversation is about and spans evicted from a
context. This project models both: the stores, the indexer, the watcher, the
search, the server, the process and its commands, and the algorithms they are made
of. TLC checks the models on small instances; TLAPS proves the central invariants
for every value of the constants.

`PROJECT.json` maps every definition to source lines and lists runs, mutants,
findings, hazards and theorems. This file explains them.

## 1. Inventory

Sources are under `src/longctx_daemon/` unless said otherwise; `svc/` is
`src/services/longctx-svc/longctx_svc/`.

| Component | State | Hard part | Correct when | Module |
|---|---|---|---|---|
| Embedding store, `storage/memmap_store.py` | memory-mapped rows, sidecar with `num_rows`, `freelist`, `capacity`, model digest | crash between writing rows, extending the file and replacing the sidecar; growth; recycling | an owned row keeps its embedding, none leaks, growth ends, models are not mixed | `MemmapEmbedStore`, `RowAllocator` |
| Chunk store, `storage/sqlite_store.py` | tables; BM25 index in memory, dirty flag, pickle | autocommit; the flag is set outside the lock; a pickle outlives the process | an index taken for current is the table | `LexicalIndex`, `Indexer` |
| Indexer, `indexer.py` | rows of both stores | several threads without a lock; a sequence of calls that can fail or be cut anywhere | hash, chunks and rows of a file agree; a scan indexes everything | `Indexer` |
| Watcher, events, `watcher.py` | queue, `rescan_pending`, paused, a condition | threads, an event loop and OS events in any order; drops, whole-second mtimes | no wakeup is lost and the index catches up | `Coalesce`, `Watcher` |
| Watcher, limits, `watcher.py` | token bucket, throttle, `first_missing_at` | sleeping while the rate changes, stop in a drain, grace over ticks | the rate is kept, no event is lost between queue and indexer, a project is dropped only after its grace | `WatchLimits` |
| Searcher, `searcher.py`, `policy.py` | none | a chain of reads beside writes; routing; cuts before filters | what nobody writes is found; the best that fits is returned | `Searcher`, `SearchPipeline` |
| MCP server, `mcp_server.py`, `transports.py` | contexts, background scans | scans beside deletions, sessions beside each other | projects are what clients asked for, and get scanned unless the scan fails | `Projects`, `McpTools` |
| Daemon, `daemon.py`, `server_info.py`, `cli.py` | task group, lock file, `server.info` | two starts at once; kills; unlinked lock files | one daemon, findable; commands end | `Daemon` |
| Parent watcher, `parent_watcher.py`, `discovery.py` | known children | directories that come and go during a batch | known = on disk | `ParentWatcher` |
| Replay log, `replay_log.py` | active file, shards | a crash in the middle of rotation | no record is lost | `ReplayLog` |
| Disk budget and clean, `disk_budget.py`, `clean.py` | none | boundaries; two processes | least recently used first, and nothing that was not asked | `Retention`, `Projects` |
| Configuration, `config.py`, parts of `cli.py` | the file | layers; commands that write back what they loaded | a reload settles; a command changes its part only | `Configuration` |
| Packs, `packs.py` | a registry file | renames and prunes in one scan | a scan settles on the packs it finds and keeps the others that exist | `PackRegistry` |
| Auto learn, `auto_learn.py`; walks, `svc/scope/walk.py` | none | limits; forbidden parents | a package walk takes what it may up to its cap and a learned root is an allowed one; the hot walk keeps less than its docstring says (section 5) | `PathRules` |
| Eviction store, `svc/eviction_store.py` | sessions in memory and hibernated | two files replaced one after the other; failing disks | no accepted span is lost | `EvictionStore` |
| Scope registry, `svc/state.py`, `app.py`, `watcher/`, `cache/disk.py`, `indexer/builder.py` | entries, indexes, watchers, caches | threads that build, promote, update and evict one scope | status, index and cache say what is so | `ScopeRegistry` |
| Scope tracking, `svc/scope/` | candidate scopes of a session | phases over many turns | one active scope, on fresh evidence | `ScopeDetect`, `Prompts`, `ScopeTracker` |
| Sidecar, `svc/sidecar.py` | a child process | port races, children that hang | a stopped engine leaves no child | `Sidecar` |
| Chunkers, `src/longctx/rag/chunker.py`, `svc/indexer/` | none | overlap, slack, boundaries | no text is lost | `Chunking` |
| Retrieval, `svc/retrieve/pipeline.py`, `src/longctx/rag/`; proxy, `svc/proxy.py` | none | several rankings merged, cut and reordered | what the scores say is best; a bounded block | `Retrieval` |

How they interact. The MCP server calls the searcher (which reads both stores) and
the indexer; `add_project` starts `full_scan` on a thread. The watcher turns file
events into indexer calls on a worker thread; its sweep and resume walks compare
mtimes on disk with `files.mtime` and put events on the same queue. The indexer
writes the two stores by separate calls; each store has a lock per call, and
nothing spans two calls. `longctx stop`, `reload` and `clean` are other processes
that reach the daemon by signals and by the files it keeps. In `longctx-svc` one
event loop serves all requests; builds, promotions and file watchers are threads
that share a lock per scope.

Wiring, as `_cmd_serve` has it: the MCP server gets no watcher and no config path;
`make_quiescence_callback`, `note_query`, `maybe_evict`, `ParentDirWatcher` and
`StatusServer` are constructed or called by nothing; `on_reload` and `on_reindex`
are never passed, so a reload runs no callback; `search` passes no project roots, so
routing by `cwd` falls back to names. A project is therefore paused after
`watcher_idle_pause_days` of uptime however often it is searched. The models give
these operations the meaning their own code has, except `Projects`, which has the
wiring of `_cmd_serve`.

## 2. Plan

Done: models of the components of the table, in the order: the stores that persist,
the indexer, the watcher, the server, the service, the functions. Theorems for every
safety property of a passing run except `ScopesStayInBounds` (section 6). Left for
later work:

1. An abstract index (path to content) that `Watcher` implements where no storm and
   no rename occurs.
2. The BM25 cache of `svc/retrieve/pipeline.py` between two requests, composed with
   `ScopeRegistry`'s updates.
3. Configurations that cannot be read: malformed TOML, fields of the wrong type.
4. A theorem for `ScopesStayInBounds` (the walks are folds over a tree; `FoldLemmas`
   would serve).

## 3. The modules

### RowAllocator, MemmapEmbedStore

`MemmapEmbedStore` has the file (`mm`), the sidecar on disk (`idx`), the copy in
memory (`st`) and the write in progress (`job`). The store's lock admits one write
at a time; the points between its steps are states so that `Crash` can come
between them. `append` is `append_batch` of one vector: the code takes the same
branches. `_save_index` writes a temporary file and replaces, so it is one step.
`held` and `orphans` are observations: which rows a caller was given, and which
rows a crash left allocated with nobody to free them.

`RowAllocator` is what the store promises: fresh rows are handed out, keep their
content until given back, and nothing else happens. `AllocatorSpec` is the
refinement, with `live <- held`.

### Indexer

Each store call is one step, because that is what the code makes atomic. A file's
content is the sequence of its chunk hashes; an embedding row holds the hash it
was computed from. A chunk is a record with its id, file, position, hash and row,
and ids of files and chunks are one more than the largest in the table. `wk[w]` has
the locals of the call that thread `w` is in: `free` is the set of chunks whose rows
it has still to give back, one call each in chunk order, `rows` the row of each
chunk of the new content, `rest` what a loop (over paths, or over the file ids of
`delete_project`) has left. The rows of a batch are given to its missing chunks in
order (`Rank`): recycled ones first, then the tail. The filter chain is the set
`Indexable`. `full_scan` and `update_files` share the loop over files; `rename_file`
has its three ways out. `EncodeFails` is an exception out of the embedder. `Crash`
loses all calls; inside `upsert_chunks` it keeps a part of the batch, since the
connection is in autocommit mode; inside `free_row` it may have zeroed the row
without saving the sidecar.

### LexicalIndex, Searcher

In `LexicalIndex` index, rebuild and pickle are functions from chunk id to text. A
write and its `_bm25_dirty = True` are two steps, because the flag is set after the
lock is released; a rebuild is two steps, a read and an install, under the lock.
`Searcher` extends it by the file table, embedding rows and one search: a chain of
locked reads (BM25 hits, ids of the scope, their rows, dense hits, rows back to ids,
chunks, file records) with the indexer's steps between any two of them. No ranking
has a cut there: the question is which chunks come back, under which file.

### SearchPipeline, McpTools

The same search as a function: `decide_scope` with its tiers, policies by query shape
and index size, reciprocal rank fusion (in exact fractions, scaled), the cap widened
by suppressed ids, the relevance floor, re-ranking, the take loop over tokens and
results, and `search_multi`. `McpTools` is what the two tool handlers do around it:
trimming, what is recorded as shown, the suggested follow-up, `find_related`.

### Coalesce, Watcher, WatchLimits

`Coalesce` is `_coalesce_events` as a function on sequences. `Watcher` follows one
project: `os` holds what watchfiles has seen and not delivered, as a set, since
batches come unordered; `note` says that a notify task is scheduled; the worker is
in one of `check`, `waiting`, `timed`, `drain`, `walk`, `apply`, `stat`. The debounce
is `ripe`. `rename_file` and `update_files` are reduced to their effect on the file
record, in the two steps (read, stat) between which the file can change. Walks are
steps per file. mtimes are whole seconds; `Ticks` says how far apart two changes are.

`WatchLimits` has what `Watcher` leaves out, with events as units: the token bucket
with its three paths and its sleep without a lock, the self-throttle, the drain of
several projects, `stop` and the final drain, and the cleanup tick with both tiers.
Ages are capped where a larger one makes no difference. `allow` is a bucket at the
baseline rate that observes: what the worker took must fit it.

### Projects, ParentWatcher, ReplayLog

`Projects` is the projects table between MCP connections, background scans (three steps:
read the record, the files, write the record back), the watcher's cleanup and `longctx
clean`, another process that collects first and removes later. Ghosts keep what each
connection pinned and what was asked for. An SSE connection keeps its context; a request
over streamable HTTP has one of its own, so for the model it is a connection that ends
at once. `ScanRaises` is an exception anywhere in a scan: the server swallows it and
`failed` remembers the project, which stays unscanned. `ParentWatcher` has the initial
scan, the gap before the stream, batches and reconciliation; `missed` are the
directories that changed in the gap. The two matchers are two constants: the initial
scan excludes `Excluded`, the stream only `Matched`, a part of it, since it expands no
`~` and does not skip `.git`. `ReplayLog` has rotation by steps, a zip that fails, and a
death between any two of them.

### Daemon, Sidecar

`Daemon`: processes, the path `server.lock` with the inode it names, inodes open and
locked, `server.info`, ports, the children of the task group, and the commands
`stop` and `reload`. `asyncio.TaskGroup`, `flock` and uvicorn are external and
described at the head of the module. `robbed` notes that a lock file in use was
unlinked. `Sidecar`: two engines that probe a port, start a child, poll its health
and stop it; a child may die, hang, or find its port taken by the other one. An
exception of the health poll that is no OSError leaves `spawn_sidecar` with the child
running (`HealthPollRaises`).

### EvictionStore, ScopeRegistry, ScopeDetect, ScopeTracker

`EvictionStore`: sessions in memory, the two files of each hibernated one, requests
as sequences of steps on the event loop, the janitor and cold storage expiry, disks
that refuse. `ScopeRegistry`: per scope its entry, index, watcher and cache files;
request handlers on the loop and threads that build, promote and update, each
holding the scope's lock. A content is a version; an index is the version it was
built from, and `NoChunks` when that held nothing to embed. `ChunkCount` says how many
chunks a version has, and versions may have as many as each other. The cache is two
arrays and the metadata, written one after the other; a thread may fail and the
process may die (`ProcessRestarts`) between them. Two ghosts: `broken`, the scopes whose
last save was broken off there, and `found`, those whose last build thread found
another's index and left the status to it.

`ScopeDetect` has clusters, the paths a prompt names and their sentinel roots.
A mention is the string in the prompt, `[absolute, path, ext]`: the regular expressions
tell strings apart by these, a relative one needs a slash and an extension, and one
file may be named by two strings. `Prompts` is a state per prompt; `ScopeTracker`
the phases of the candidate scopes turn by turn.

### Chunking, Retrieval, PathRules, Retention, Configuration, PackRegistry

Sequential code as operators. A text is a sequence of marks (what a character or
line is to the chunker), a score a small number, a directory a path in a tree, a
configuration a record of the fields that some rule looks at, the environment a
function of the variables that are set. They are stated and checked against
reference definitions that do not share their structure: the set of lines covered
instead of the loop, the best by exhaustive comparison instead of sorting and cutting.

### Algorithms, Batches, Ordering

`Algorithms` calls these operators, and those of `SearchPipeline` and `McpTools`, one at
a time: a state is a call, drawn from constants about which the named assumptions say
what a caller may pass, and the properties are about what the call returns. `Batches`
does the same for `Coalesce`: files are created, written, moved and deleted while a
batch is collected, and the batch is what the native watcher reports of it.
`Ordering` sorts and filters by counting, because `SortSeq` and `SelectSeq` have no
definition a proof can open; `Argsort` leaves the order of equal values open, as
`np.argsort` does.

## 4. Runs

| Run | Shows |
|---|---|
| `stores` | what must survive a crash at any point, in three parts. Embedding store: appends of 1-3 vectors, frees, growth from one row, close, crash, reopening under either of two models. Eviction store: two sessions that are written, retrieved, hibernated, resumed, cleared and expired. Scope registry: requests, builds, promotions, watcher updates, evictions, failures and deaths of the process on two scopes with one index allowed |
| `index_seq` | one caller, no failures, files edited at any moment |
| `index_threads` | two threads, embedder failures, crashes |
| `index_lost_update` | finding: the hash is stored before an embedding that then fails |
| `algorithms` | every call of `Algorithms`, batch of events and prompt within the bounds; and the scope tracker over all sequences of turns |
| `clean_budget` | finding: `clean --disk-budget N --yes` evicts nothing |
| `watch_faults` | native watcher failing, pauses, SIGUSR2, searches, a queue of one |
| `watch_storm` | storms, moves and re-adds on two paths |
| `watch_writes` | several writes within one second, none of them lost |
| `projects` | the MCP server's side in five parts: `Projects`, `Searcher`, `LexicalIndex` over restarts, `ParentWatcher`, `ReplayLog` |
| `daemon` | four parts: two daemons and their commands; a watcher's worker; its cleanup; two sidecars |
| `daemon_shutdown` | finding: the shutdown event ends one task and not the group |

Parts. Where modules share no state, one run holds several of them: a variable `part`
says which of them this behaviour is about, each next-state disjunct is guarded by it
and leaves the others' variables alone. Nothing is lost by that: the reachable states
of each part are those it has alone, and fairness is stated per part.

Several run properties are conjunctions of named ones, each stated and commented in its
module: `SpansKept` (no accepted span lost, all ranked, under their own score),
`RowsMatchChunks` (chunks and rows one to one), `RegistryConsistent` ("indexing" means a
thread at work, a cache whose last save went through is of one build, an evicted scope
holds nothing), `ProjectsAsAsked` (sessions do not touch each other; the table is what
was asked for), `LexicalIsCurrent`, `SearchTakesBest`, `PhasesSound`, `ScopeIsNearest`,
`OneDaemonFindable`, `LimitsHold` (no event lost between queue and indexer; the rate).
Every property of a passing run has a mutant: a plausible bug in a mapped definition,
kept beside it in the module and marked "Mutant", under which TLC finds the property
violated.

Bounds, and why they are enough.

* `stores`: capacity 1 and factor 3/2 make the truncated growth step 1 -> 1 that the
  `+ 1` is there for; batches of three reach recycling and tail in one call; four rows
  allow two growths. Two spans tell an old snapshot from a new one, two sessions show
  a janitor that goes on after a failure. `Disciplined`: see section 5.
* `Indexer`: two paths (rename needs two), four calls with one thread or three with two,
  contents of 0-2 chunks with a shared one. The longest violation met needs three
  calls; edits are not bounded. `<<"z">>` is a file the filter refuses. Symmetry over
  paths and threads is sound: nothing distinguishes them, and no liveness is checked.
* `algorithms`: five events on three paths hold every two-path pattern the phases look
  at, with a third path to spoil the pairing; rankings of three chunks; texts of up to
  five marks with chunks of up to four, so that overlap, slack and window are each
  smaller, equal and larger than the rest; conversations of up to three messages whose
  texts may be empty or images; trees with a directory and a mention outside the root;
  configurations with and without variables of the environment; disks with packs of
  one name, packs elsewhere, a name that is refused, and a root that is missing;
  prompts of up to three mentions out of ten, files and directories, in full and
  relative; turns with up to two mentions out of five files in two directories,
  counters capped where the thresholds (2, 3) no longer tell larger ones apart.
* `Watcher`: a queue of one or two overflows with two events; walks repeat events
  without bound, so one or two edits already give queues of any content. `watch_storm`
  has `QueueSize` = number of paths and `watch_writes` a queue that never overflows:
  section 5 says what happens otherwise. It starts with no file, one or two; of the two
  states with one it has one (`StormSpec`), since nothing distinguishes the paths.
* `stores`, scope registry: a cap of one and two scopes make each load evict the other.
  Both have a cache of what they held before (version 1). `sc1` has as many chunks now
  as then, so arrays of two builds pass for one cache, and none after an edit
  (version 3); `sc2` has none any more. The process dies while a thread reads, or stands
  between the two arrays (`Deaths`): elsewhere it leaves what a failed or finished save
  leaves, and the theorem has no such bound. One thread waits per scope and kind.
* `projects`: two roots of one name (the table is keyed by it), two connections, two
  scans at once; three chunk ids and two rows, so that ids and rows are reused and
  differ; three directories, one that both matchers exclude and one
  that only discovery's does; five records and two faults. Of the two
  files, which differ in nothing, the one indexed first is `f` (`FirstIsF`).
* `daemon`: two processes and three inodes make every robbery of the lock; a project that
  queues 3 events at a burst of 2, another that queues one; a grace of two ticks; two
  engines on two ports, one of them taken.

Deadlock is checked in the Indexer, Watcher and `stores` runs. The others may
stop: an algorithm is called once, a daemon and a search end.

Fairness. `stores`: the thread inside the embedding store and the event loop go on with
what they began; the janitor's timer gets its turn between requests however many come
(strong fairness, since requests disable it again and again). `Watcher`: the event loop
runs what is scheduled, threads run, watchfiles delivers, time passes, the sweep comes
round. None for edits, searches, timeouts, SIGUSR2, a watch that is re-entered after a
failure (after `FileNotFoundError` it never is, `watcher.py:780`; the sweep makes up for
it) or the query that resumes a paused project; so `EventuallyTracked` assumes
explicitly that the worker does not stay suspended and the project not paused.
`SlowSweep` is a timing assumption: a sweep (every 30 s) begins when the worker has
nothing left to do (200 ms debounce). In `stores`, too, the scopes' threads that hold or
wait for a lock go on. `projects`: the scan launched first ends; a search goes on.
`daemon`: what is ready on an event loop runs, processes that start or unwind go on,
commands run to their end, seconds and days pass, the cleanup tick comes round; none for
signals, kills, or a child of a sidecar that hangs.

## 5. Findings

Three runs show a disagreement between the code and its own documentation;
`PROJECT.json` quotes them. A failed embedding leaves a file stale until it changes
again (`index_lost_update`). `request_shutdown` and SIGTERM end one task of the group
and not the group (`daemon_shutdown`): `longctx stop` gets rid of the process only
because it kills it in the end. `longctx clean --disk-budget N --yes` counts as a dry run,
whose condition names every filter but this one, and evicts nothing (`clean_budget`).

The models have these behaviours too, which limit what the passing runs state. TLC
shows each of the first group on the instance named.

* Two threads on one path (`Workers = {w1, w2}` in `index_seq`): a background scan and
  the watcher's worker interleave in `_index_file` and leave chunks that the hash does
  not describe; `HashDescribesChunks` fails. `sqlite_store.py:16` has a single writer in
  mind; `mcp_server.py:1887` starts a second one.
* Equal chunks in one file (`Contents` and `Indexable` of `index_seq` set to
  `{<<"a">>, <<"b">>, <<"a", "a">>}`): the diff of `_index_file` is keyed by hash
  (`indexer.py:771`), so two chunks share a row, or one leaks; `RowsMatchChunks` fails.
* A crash between freeing rows and replacing chunks (`CanCrash = TRUE` in `index_seq`):
  chunks stay on rows that are free or reused; `RowsMatchChunks` fails.
* A storm larger than the queue (`QueueSize = 1` in `watch_storm`): the rescan walk
  overflows the queue again, flips `rescan_pending` again and is repeated for ever with
  nothing indexed; `EventuallyTracked` fails. `watcher.py:37` says it schedules fresh
  updates.
* A delete and a create in one window become a rename whatever the files hold
  (`RenameKeepsText`, two paths and two contents): the record keeps the old text with the
  new mtime, so no sweep notices; `indexer.py:572` says "The chunk text is unchanged".
* A file written between the worker's read and its stat, whose event is dropped in a
  storm (`QueueSize = 1`, `MaxEdits = 4` in `watch_writes`), is recorded under its new
  mtime with the old text; `EventuallyCurrent` fails.
* While the rescan of a storm is pending the queue is empty: `pending_updates`
  (`watcher.py:626`) is 0 and `wait_for_quiescence` returns at once, though nothing the
  storm changed is indexed; `QuiescentMeansCurrent` fails (`QueueSize = 1` in
  `watch_writes`).
* Two writers in `LexicalIndex` (`Writers = {w1, w2}`): a rebuild clears the other
  writer's flag, `close` digests the table as it is, and a stale pickle passes
  validation. The theorems assume one writer.
* A write to a hibernated session (`Disciplined = FALSE` in `stores`): `write` does not
  resume, so the session starts empty, `maybe_resume` then finds it in memory, and the
  next hibernation overwrites the snapshot; `SpansKept` fails. `eviction_store.py:453`
  says a retrieve "will auto-resume from the snapshot".
* The cap of loaded indexes is enforced when a scope is registered first
  (`svc/state.py:110`): one that was evicted, or whose first build failed, is built
  without it, so more than `Cap` indexes are in memory.
* An active scope that is mentioned in every turn is demoted once one file beside it
  makes the parent the top cluster (`svc/scope/tracker.py:205`): only that is refreshed.
* A search beside the indexer can return a chunk outside its scope: a row freed and
  given to another file between two of its calls. `SearchIsFaithful` says what holds:
  all of what nobody touches, and exactly the scope when nobody writes.
* A save of a scope's cache that breaks off between the embeddings and the chunks
  (`svc/cache/disk.py`) leaves new embeddings beside old chunks. When there are as many
  of both, `load_index` takes them (`:133`), although its docstring promises None for a
  partial cache (`:96-97`); `CacheIsOneBuild` excepts exactly these (`broken`).
* An asynchronous request sets "indexing" and starts a thread (`svc/app.py:458`). If the
  thread finds an index made meanwhile it returns and leaves the status (`:410`); if an
  update then leaves no chunks, so no embeddings (`svc/indexer/builder.py:106`), every
  asynchronous request is turned away by the status, with no thread behind it, though
  the docstring of `_ensure_scope` promises one; `IndexingMeansWork` excepts it (`found`).
* A scan that raises is swallowed (`mcp_server.py:1865`): the project is in the table
  and stays unscanned until it is deleted and added again; `AddedGetsScanned` excepts it
  (`failed`).
* `walk_hot_scope` says "Cap at Limits.max_files_hot" and takes mentioned files "only if
  inside root" (`svc/scope/walk.py:126,138`), but its mentioned files are beyond the cap,
  and the siblings of a mentioned file (`:155-166`) are taken outside the root too;
  `HotBounded` states what is kept, and the comment there says which part is not.
* `_matches_exclude_simple` claims the "same semantics" as the matcher of discovery
  (`parent_watcher.py:309`) but expands no `~` (`discovery.py:106`), and only discovery
  skips `.git` (`discovery.py:170`): a directory excluded at the start is a project once
  it changes. `KnownFollowsDisk` says by which of the two each directory is known.
* A scan that runs while its project is deleted puts the record back
  (`indexer.py:487`); `RegistryAsAsked` excepts these names (`late`).
* A lock file unlinked by `release()` (`server_info.py:353`, although the comment says
  "we leave it") or by `stop` while a new daemon has it lets a third one start;
  `OneDaemonFindable` excepts it (`robbed`).

Read in the code while modelling, and in the models where it changes state:

* `upsert_chunks` is documented as atomic (`sqlite_store.py:456`); in autocommit mode a
  crash keeps a prefix. `num_rows` counts freed rows, so the docstring's sum
  (`memmap_store.py:280`) is more than the capacity.
* A paused project is passed over by the sweep (`watcher.py:1251`), although the
  module's docstring says the sweep "still catches their changes". A batch being applied
  is not pending (`watcher.py:626`), so a search in mid-batch does not wait.
  `wait_for_quiescence` knows nothing of background scans. The missing-root grace is
  sampled by ticks: a root that is away at each of them counts as missing throughout. A
  batch in hand when the worker is cancelled in `acquire` is lost.
* A temporary file created and deleted in one window pairs, as a DELETE, with an unrelated
  CREATE: the rename finds no record, and the new file waits for the next sweep.
* `find_related` takes rows of the embedding store for chunk ids (`mcp_server.py:1639`).
  The relevance floor looks at the first fused candidate, even when it is suppressed or
  lexical only. `search_multi` suppresses across groups; its docstring says it does not.
* `add_project(persist)` would append a `[[projects]]` table, which the loader refuses;
  `calibrate` writes the environment's overrides into the file, where they stay;
  `LONGCTX_AUTO_LEARN`, `LONGCTX_PACKS_FILE` and `LONGCTX_CACHE_DIR`, which other code
  reads, are refused as unknown.
* Session-bound projects are not collected on disconnect, and `clean --orphans` takes
  those of live sessions. `clean` beside no indexer deletes through the chunk store
  alone, so embedding rows leak. Its pattern for replay shards never matches one.
* `serve` opens the stores and scans before it tries the lock, so a second `serve`
  writes the stores of the first.
* A boot timeout of the sidecar sends SIGTERM and no SIGKILL; a child that hangs stays.
  An exception of the health poll that is no OSError (`svc/sidecar.py:105-115`) leaves
  `start` with the child running; `NoChildLeft` is about the other two ways out.
* A scan for packs whose root is missing prunes nothing (`packs.py:294`). A pack
  registered with `--name` gets a second entry when a scan finds it.
* `extract_paths_from_prefill` promises "distinct paths" (`svc/scope/detect.py:60`) and
  compares strings: a file named in full and relative to the working directory is listed,
  and votes for its root, twice. A relative mention without a directory or an extension
  (`:38-41`) is not found.
* An empty last user message takes the place of the one before it (`svc/proxy.py:65`):
  nothing is spliced.
* After `FileNotFoundError` a watch task ends for good (`watcher.py:780`), although its
  comment says `run()` starts it again; the sweep covers for it.
* A crash between zip and unlink leaves records twice; a torn shard makes `replay` fail.
* A session resumed before the embedder is loaded is not checked against it later,
  although a comment says so (`svc/eviction_store.py:591`). A scope loaded from the
  cache gets no watcher. The BM25 cache of `svc/retrieve/pipeline.py:182` is keyed by
  `id(index)` and the number of chunks, so an update that keeps the number is not
  noticed.
* Line numbers of windows inside a long paragraph count from the paragraph
  (`svc/indexer/chunker.py:118`). A truncated block of the proxy exceeds its budget by up
  to 15 characters; `BlockBounded` allows that much.

## 6. What is proved

`MemmapEmbedStoreProofs` (any texts, models, growth factor > 1, bounds):
`IInv` is inductive, hence `TypeOK`, `FreelistSound`, `HeldDurable`, `HeldIntact`,
`RowsAccounted`, and, given `IInv`, `ImplementsAllocator` and `OneModel`. The
safety invariants are not inductive alone: a batch in progress has rows that are
neither free in memory nor allocated on disk. `JobSound` says, for each point of
the operation, where its rows stand: free on disk until the sidecar is saved
(`FreshRows`), already written (`WrittenRows`), disjoint from what callers own
(`JobRowsSound`), and when memory and sidecar agree (`JobPoint`). The proof has a lemma
per action, over lemmas on popping from and pushing to the freelist, on writing
rows, and on the new capacity (`GrowLemma`, which uses only GrowthNum > GrowthDen > 0).

`WatcherProofs` (any paths, queue size and switches): `WakeInv`, the property of run
`watch_faults`, hence `StormGuard`, `NoLostWakeup`, `BlockedSearchWakes`. The three need
each other: a search blocked on an empty queue is woken because a drain under way ends
in a notify, and that a storm leaves no queued events is what makes the overflow's
notify count for both. `QuiescentMeansCurrent`, under `WritesOnly` (files are written
and neither deleted nor moved, the watch does not lapse) and as long as no rescan is
pending: section 5 says how renames and storms break it, and run `watch_writes`
satisfies both. `QuiescenceInv` says that a path that is not current has an event
undelivered, queued or in the batch (`Awaited`), and that a text in the worker's hands
that the file no longer has is made up for by one too (`Known`): the record may be right
by chance while the worker is about to overwrite it with what it read earlier. The proof
needs that `_coalesce_events` keeps every path of a queue of updates
(`CoalesceKeepsUpdates`) and that a walk never takes a file for deleted (`WalksSound`).

`IndexerProofs`. `RowsInRange`, for any threads, contents, embedder failures and
crashes: `RangeInv` is typing, a freelist without duplicates within the rows of the
store (`StoreSound`), and, for each thread, that the rows it has in hand exist
(`CallSound`): the store never shrinks. `HashDescribesChunks`, `RowsMatchChunks` and
`ScanIndexesAll` are false beside a second thread, after a failure or a crash, and with
equal chunks in one file (section 5), so their theorems assume `OneCaller`, which
excludes exactly these. Between the steps of a call they fail too, so `OneCallerInv`
says what the call owes: `RowsOwned` (a row is free, held by a stored chunk or in the
call's hands, and by one of them only; a stored chunk has its embedding), `FilesSound`
(every record but the one in work describes its chunks), `CallFits` (what the call read
is what the tables have) and `ScanSound` (what the scan has done so far is indexed as it
is on disk, if nothing was edited).

`ServerProofs`. The lexical index, under `SingleWriter` (with two writers both fail, see
section 5): `CleanMeansCurrent` and `ValidPickleIsCurrent`, together
`LexicalStaysCurrent`, the property of run `projects`. The strengthening is that index,
rebuild and pickle agree with the table or the digest wherever both have an id
(`CacheAgrees`, `PickleHonest`): deletions may make the index too large, but an id is
reused only after a write that marks it dirty.

`LockInv` gives `OneDaemonFindable` for any processes and inodes: who has
the lock file open and who holds its lock is a matter of the phase, an inode's lock
has one holder, and until a lock file in use was unlinked (`robbed`) every lock file that
is open is the one at the path. `LimitsInv` gives `LimitsHold`: the batches in hand are
of different projects and no larger than a queue (`HandInv`), what is not applied is
queued or in hand (`QueueInv`), and what the bucket would pay out at the baseline rate,
and the batch the worker sleeps for, are within what a bucket of that rate allows
(`BucketInv`). `GraceInv` gives `GraceRespected`: the stamp of a missing root never runs
ahead of the time since the root was seen.

`KnownInv` gives `KnownFollowsDisk`, for any two matchers of which the stream's
refuses no more than discovery's: a directory that neither waits for its probe nor
is in a change or a batch is known for what it is. `LogInv` gives
`NoRecordLost`: the file is emptied only once it is a shard. `ProjectsInv` gives
`ProjectsAsAsked`: the record a scan will write back has the root and the session of the
one in the table, unless the project was deleted under the scan, and a session's pin is
its own context's. `SearchInv` gives `SearchIsFaithful`, for any files, chunks, rows and
scopes. Each chunk in the table has a row of its own, with its embedding unless the
indexer has just freed it (`TableSound`); the rows that the indexer has for new texts are
ready, distinct and no other file's (`JobSound`); and at each step of the search the keys
in hand, whether ids or rows, stand for all chunks in scope that nobody wrote and, while
nobody has written, for chunks in scope only (`QuerySound`).

`ServiceProofs`. `SpansInv` gives `SpansKept`, under `OneModel`: clients resume before
they write, and one embedder (a snapshot of another embedder is refused by design). What
was accepted is in the entry or in the snapshot; while hibernation replaces its two
files it is in memory still. `RegistryInv` gives `RegistryConsistent`, for any chunk
counts, any earlier caches that are not torn, and a death of the process anywhere: a job
that holds a scope's lock has a kind and, past its walk, a version (`TaskSound`); the
two arrays of a cache are of one version except while their writer stands between them
or was broken off there (`CacheSound`), whatever the counts; a scope that says
"indexing" has a thread with or waiting for that lock unless its last one found an index
there, and one that says "evicted" gets an index only from a job about to set its status
(`StatusSound`). `TrackInv` gives `PhasesSound`: no two active scopes, evidence for
every one that is alive, and the link between the two clocks, that a candidate is never
refreshed by a turn that did not mention it (`quiet <= idle`). The step needs that the
cluster of a set of paths qualifies (`ClusterQualifies`: candidates are finitely many
and their sort keys differ, so there is a best one). `ScopeIsNearestForAll` is about any
prompt, disk and sentinels: of the roots with the most mentions there is a first one
met, the refinement of `detect_scope` can only find what is already the nearest root,
and a relative mention that is recognised yields the path of the full one at the same
place of the list. `ChildInv` gives `NoChildLeft`: an engine that has not spawned has no
child.

`AlgorithmProofs`. A state is a call, so each theorem says that the property holds of
every call the assumptions admit. What a loop computes is proved by induction over its
positions. The library's induction theorems cannot be used, but a set of numbers without
a least element is empty (`LeastNat`, from the well-foundedness of `<` on the naturals),
so what holds at the start and goes on from each position to the next holds at all
(`UpTo`). `FoldLemmas` says so once for a loop with any body, and is instantiated for
each of them. Recursive functions over places of a text are shown to exist
(`OnwardExists`) and to leave a trail without gaps (`TrailCovers`). `BatchesFaithful`:
at any time what was reported of a path, coalesced, accounts for the path before and
now. `RoutesAsMeantForAll`: tier by tier. `EvictsLeastRecentForAll`: the plan is a
beginning of the projects by last use, the shortest that frees enough.
`SettlesOnDiskForAll`: what the registry holds after each directory of a scan.
`SearchTakesBestForAll`: the fused scores are sums over the rankings, whatever their
number; the take loop by the state it is in after each candidate. `TextIsCoveredForAll`:
each chunk begins where the one before it ends or earlier. `RetrievalIsExactForAll`: the
best of merged rankings; the block by the characters used after each chunk; the splice
by which message is the last one of a user.

`SetLemmas` has what these proofs keep needing about finite sets, minima, sorting and
filtering, sequences and division.

Assumptions on constants are the named ASSUMEs of the modules: the checks of `__init__`;
that the markers for "none" are no values (`DaemonAssumption`, `SpansAssumption`,
`RegistryAssumption`, `MissingAssumption`, `SidecarAssumption`); that an earlier process
left no torn cache (`RegistryAssumption`; the model tears them itself); that projects
are finitely many (`ProjectsAssumption`), contents are sequences of hashes
(`ContentsAssumption`), what the stream refuses discovery refuses too
(`SubdirsAssumption`), prompts are lists of mentions (`GivenAssumption`) and a session
mentions finitely many paths, no two directories being one string
(`MentionableAssumption`); and, in `Algorithms`, what calls are given
(`SearchesAssumption` to `PackScansAssumption`): typing, rankings without duplicates,
scores for every chunk, no two projects of one name, conversations without a block, no
candidate below a root that is missing. TLC evaluates them in the runs. The hypotheses
`SingleWriter`, `OneCaller`, `OneModel` and `WritesOnly` (with no rescan pending) are
not assumptions on the code: each theorem that needs one names it, section 5 says what
happens otherwise, and the runs of those properties satisfy it.

Only model-checked, and why:

* Liveness (`OperationEnds`, `IdleLeavesRam`, `EventuallyTracked`, `EventuallyCurrent`,
  `WatchedEditsLand`, `AddedGetsScanned`, `SearchEnds`, `ReloadNotLost`, `StopStops`,
  `WatcherGoesOn`): it rests on fairness and ENABLED, which the prover does not treat.
* `ScopesStayInBounds`: not proved yet (section 2).

## 7. What is not modelled

Evaluation harnesses, benchmarks and scripts (a third of the source lines): offline,
without lasting state. Embedding arithmetic, tokenising, grammars, hashing and regular
expressions: data of the models. Sockets, HTTP and streaming, MCP schemas, rendering of
answers, argument parsing, logging, service units, the `watch` and `replay` commands:
I/O and text. Read-only queries of the chunk store that a search does not use, and its
schema version check. `SessionManager` of longctx-svc, whose verdict to promote is a
free choice in `ScopeRegistry`; a `pipeline.retrieve` that raises, which answers 500 and
changes nothing. Files of configuration that are no TOML or have fields of the wrong
type, an empty index file of a pack (`EOFError`), symbolic links and the case of letters
in mentions, and a sentinel in `/` itself. Torn reads of an index inside one ranking
(`svc/retrieve/pipeline.py:238`): a version is one value in the model.

In the models, hashes do not collide, SQLite statements are atomic and durable, and a
process crash keeps what was written to a mapped file (no power failure). `Indexer` and
`Watcher` have one project for all, since projects share only id and row spaces.
