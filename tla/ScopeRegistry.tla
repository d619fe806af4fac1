---------------------------- MODULE ScopeRegistry ----------------------------
(***************************************************************************)
(* The scope indexes of longctx-svc (state.py) and the requests that build,*)
(* use, promote and evict them (app.py), with the file watchers            *)
(* (watcher/__init__.py) and the disk cache (cache/disk.py).               *)
(*                                                                         *)
(* Requests and the janitor run one at a time on the event loop; build     *)
(* workers, promotion workers and watcher threads run beside it.  A scope's*)
(* lock admits one of them.  The content of a scope's files is a version;  *)
(* an index is the version it was built from, NoChunks when that held      *)
(* nothing to embed.  The process may die and be started again at any      *)
(* point; its caches stay.                                                 *)
(***************************************************************************)
EXTENDS Integers, Sequences, FiniteSets

CONSTANTS
    Scopes,          \* scope hashes
    MaxVersion,      \* bound: versions of a scope's files
    Editable,        \* scopes whose files change, whose reading may fail and
                     \* whose answers may ask for more files
    Requests,        \* the requests that come: primary scope, others, async
    EarlierCaches,   \* what an earlier process may have left of the caches
    MaxWaiting,      \* bound: build and promotion threads that wait for a scope
    Small,           \* scopes whose hot set is below 50 files
    ChunkCount(_, _),  \* chunks of a version of a scope's files
    Deaths,          \* bound: what a thread is at when the process dies
    Cap              \* max_indexes_in_memory

ASSUME CapAssumption == Cap \in Nat \ {0}

\* The arrays on disk are of some version each, 0 where there are none.
CacheFiles == [emb : 0..MaxVersion, chunks : 0..MaxVersion, meta : BOOLEAN]

ASSUME RegistryAssumption ==
    /\ \A s \in Scopes, v \in 1..MaxVersion : ChunkCount(s, v) \in Nat
    /\ MaxVersion \in Nat /\ MaxVersion >= 2 /\ "none" \notin Scopes
    /\ EarlierCaches \subseteq [Scopes -> CacheFiles]
    /\ \A c \in EarlierCaches, s \in Scopes : c[s].chunks \in {0, c[s].emb}
    /\ \A r \in Requests :
         r.primary \in Scopes \cup {"none"} /\ r.others \subseteq Scopes /\ r.async \in BOOLEAN

NoIndex == -1
NoChunks == 0
Present == 2     \* what the files hold at first; version 1 is of before
Nobody == "nobody"
NoScope == "none"

VARIABLES
    lru,       \* _scopes: the registered scopes, least recently used first
    index,     \* entry.index
    status,    \* entry.status
    mode,      \* entry.mode
    watcher,   \* entry.watcher is set
    pending,   \* the watcher has changed paths it has not delivered
    waiting,   \* threads that wait for entry.lock: [build, promote, watch]
    task,       \* what the holder of entry.lock is doing
    file,      \* version of the scope's files
    cache,     \* embeddings.npy, chunks.jsonl, metadata.json on disk
    error,     \* entry.error tells of a watcher update that failed
    loop,      \* the request on the event loop
    ghost      \* broken: scopes whose last save was broken off halfway;
               \* found: those whose last build thread found the index there

rvars == <<lru, index, status, mode, watcher, pending, waiting, task, file, cache, error, loop, ghost>>

IdleLoop == [at |-> "idle", todo |-> {}, primary |-> NoScope, scope |-> NoScope, async |-> FALSE]
NoTask == [by |-> Nobody, at |-> "none", v |-> NoIndex]

NoneWaiting == [build |-> 0, promote |-> 0, watch |-> 0]

RegistryInit ==
    /\ lru = <<>>
    /\ index = [s \in Scopes |-> NoIndex]
    /\ status = [s \in Scopes |-> "pending"]
    /\ mode = [s \in Scopes |-> "hot"]
    /\ watcher = [s \in Scopes |-> FALSE]
    /\ pending = [s \in Scopes |-> FALSE]
    /\ waiting = [s \in Scopes |-> NoneWaiting]
    /\ task = [s \in Scopes |-> NoTask]
    /\ file = [s \in Scopes |-> Present]
    /\ cache \in EarlierCaches
    /\ error = [s \in Scopes |-> FALSE]
    /\ loop = IdleLoop
    /\ ghost = [broken |-> {}, found |-> {}]

Registered == {lru[i] : i \in 1..Len(lru)}
Loaded(s) == index[s] > NoChunks
Touch(s) == Append(SelectSeq(lru, LAMBDA t : t # s), s)
Position(q, s) == CHOOSE i \in 1..Len(q) : q[i] = s
\* What build_index, or update_files of all that changed, makes of the files:
\* no embeddings when no chunk is left.
IndexOf(s, v) == IF ChunkCount(s, v) = 0 THEN NoChunks ELSE v
Built(s) == IndexOf(s, file[s])

-----------------------------------------------------------------------------
(* The disk cache *)

\* load_index: three files, as many embeddings as chunks.
CacheLoads(s) ==
    /\ cache[s].meta /\ cache[s].emb > 0 /\ cache[s].chunks > 0
    /\ ChunkCount(s, cache[s].emb) = ChunkCount(s, cache[s].chunks)

-----------------------------------------------------------------------------
(* Eviction *)

\* The oldest loaded indexes beyond the cap, in a registry q with indexes ix.
OverCap(q, ix) ==
    LET loaded == {s \in {q[i] : i \in 1..Len(q)} : ix[s] > NoChunks}
        Older(s) == {t \in loaded : Position(q, t) <= Position(q, s)}
    IN  {s \in loaded : Cardinality(Older(s)) <= Cardinality(loaded) - Cap}

\* What evicting the scopes of E leaves: no index, no watcher.
Evicted(f, E, value) == [s \in Scopes |-> IF s \in E THEN value ELSE f[s]]

\* Any scopes may have gone without a query for the timeout.
evict_idle_indexes(E) ==
    /\ loop.at = "idle"
    /\ E # {} /\ \A s \in E : Loaded(s)
    /\ index' = Evicted(index, E, NoIndex)
    /\ status' = Evicted(status, E, "evicted")
    /\ watcher' = Evicted(watcher, E, FALSE)
    /\ pending' = Evicted(pending, E, FALSE)
    /\ UNCHANGED <<lru, mode, waiting, task, file, cache, loop, error, ghost>>

-----------------------------------------------------------------------------
(* A request on the event loop *)

\* /retrieve: a primary scope with the other scopes the prompt mentions, or no
\* scope and candidates to warm up.
retrieve(primary, todo, async) ==
    /\ loop.at = "idle"
    /\ \A s \in Scopes : waiting[s].build < MaxWaiting
    /\ loop' = [at |-> "next", todo |-> todo \ {primary}, primary |-> primary,
                scope |-> NoScope, async |-> async]
    /\ UNCHANGED <<lru, index, status, mode, watcher, pending, waiting, task, file, cache, error, ghost>>

\* A new entry is loaded from the cache if it can be; then the cap is enforced.
register_scope(s) ==
    IF s \in Registered
    THEN /\ lru' = Touch(s)
         /\ UNCHANGED <<index, status, watcher, pending, task>>
    ELSE LET q == Append(lru, s)
             hit == CacheLoads(s)
             ix == IF hit THEN [index EXCEPT ![s] = cache[s].emb] ELSE index
             st == IF hit THEN [status EXCEPT ![s] = "ready"] ELSE status
             E == OverCap(q, ix)
         IN  /\ lru' = q
             /\ index' = Evicted(ix, E, NoIndex)
             /\ status' = Evicted(st, E, "evicted")
             /\ watcher' = Evicted(watcher, E, FALSE)
             /\ pending' = Evicted(pending, E, FALSE)
             \* the arrays are dropped in place, also for a job that is saving them
             /\ task' = [t \in Scopes |-> IF t \in E /\ task[t].at \in {"embeddings", "chunks", "metadata"}
                                         THEN [task[t] EXCEPT !.v = NoChunks] ELSE task[t]]

\* A warm-up is always asynchronous, a second scope of the prompt never.
Async(s) == IF loop.primary = NoScope THEN TRUE ELSE loop.async /\ s = loop.primary

_ensure_scope(s) ==
    /\ register_scope(s)
    /\ loop' = [loop EXCEPT !.scope = s, !.todo = @ \ {s},
                            !.at = IF index'[s] > NoChunks \/ (Async(s) /\ status'[s] = "indexing") THEN "next"
                                   ELSE IF Async(s) THEN "kick" ELSE "lock"]
    /\ UNCHANGED <<mode, waiting, file, cache, error, ghost>>

\* The other scopes first, the primary last.
EnsureNext ==
    /\ loop.at = "next"
    /\ IF loop.todo # {} THEN \E s \in loop.todo : _ensure_scope(s)
       ELSE loop.primary # NoScope /\ loop.scope # loop.primary /\ _ensure_scope(loop.primary)

\* No scope in the prompt: the candidates are warmed up and the answer is empty.
NothingToAnswer ==
    /\ loop.at = "next" /\ loop.todo = {} /\ loop.primary = NoScope
    /\ loop' = IdleLoop
    /\ UNCHANGED <<lru, index, status, mode, watcher, pending, waiting, task, file, cache, error, ghost>>

Kickoff ==
    LET s == loop.scope IN
    /\ loop.at = "kick"
    /\ status' = [status EXCEPT ![s] = "indexing"]
    /\ waiting' = [waiting EXCEPT ![s].build = @ + 1]
    /\ loop' = [loop EXCEPT !.at = "next"]
    /\ ghost' = [ghost EXCEPT !.found = @ \ {s}]
    /\ UNCHANGED <<lru, index, mode, watcher, pending, task, file, cache, error>>

\* Promotion: only from an index that is there and hot; the reason (a path
\* outside the hot set, two answers of low confidence) is left open.
CanPromote(s) ==
    /\ mode[s] # "package"
    /\ index[s] # NoIndex
    /\ status[s] \notin {"indexing", "promoting", "error", "evicted"}

_begin_package_rebuild(s) ==
    /\ status' = [status EXCEPT ![s] = "promoting"]
    /\ error' = [error EXCEPT ![s] = FALSE]
    /\ waiting' = [waiting EXCEPT ![s].promote = @ + 1]

\* A path mentioned outside the indexed files.
maybe_promote(s) == CanPromote(s) /\ _begin_package_rebuild(s)

\* Without an index the answer is empty and says the status; otherwise it is
\* ranked, the scope counts as used, and may be promoted.
Answer ==
    LET s == loop.primary IN
    /\ loop.at = "next" /\ loop.todo = {} /\ s # NoScope /\ loop.scope = s
    /\ lru' = Touch(s)
    /\ \/ /\ ~Loaded(s)
          /\ UNCHANGED <<status, waiting, error>>
       \/ /\ Loaded(s)
          /\ \/ UNCHANGED <<status, waiting, error>>
             \/ s \in Editable /\ waiting[s].promote < MaxWaiting /\ maybe_promote(s)
    /\ loop' = IdleLoop
    /\ UNCHANGED <<index, mode, watcher, pending, task, file, cache, ghost>>

-----------------------------------------------------------------------------
(* Under the scope's lock *)

Free(s) == task[s] = NoTask
Hold(s, by, at) == task' = [task EXCEPT ![s] = [by |-> by, at |-> at, v |-> NoIndex]]
Release(s) == task' = [task EXCEPT ![s] = NoTask]

\* _build_scope_index begins: nothing to do when another thread was faster; the
\* status stays what the request or that thread made it.
BeginBuild(s, by) ==
    \/ /\ Loaded(s)
       /\ ghost' = [ghost EXCEPT !.found = @ \cup {s}]
       /\ UNCHANGED <<status, task>>
    \/ /\ ~Loaded(s)
       /\ ghost' = [ghost EXCEPT !.found = @ \ {s}]
       /\ status' = [status EXCEPT ![s] = "indexing"]
       /\ Hold(s, by, "walk")

LoopLocks ==
    LET s == loop.scope IN
    /\ loop.at = "lock"
    /\ Free(s)
    /\ BeginBuild(s, "loop")
    /\ loop' = [loop EXCEPT !.at = IF Loaded(s) THEN "next" ELSE "building"]
    /\ UNCHANGED <<lru, index, mode, watcher, pending, waiting, file, cache, error>>

BuildLocks(s) ==
    /\ waiting[s].build > 0
    /\ Free(s)
    /\ BeginBuild(s, "build")
    /\ waiting' = [waiting EXCEPT ![s].build = @ - 1]
    /\ UNCHANGED <<lru, index, mode, watcher, pending, file, cache, loop, error>>

PromoteLocks(s) ==
    /\ waiting[s].promote > 0
    /\ Free(s)
    /\ Hold(s, "promote", "walk")
    /\ waiting' = [waiting EXCEPT ![s].promote = @ - 1]
    /\ UNCHANGED <<lru, index, status, mode, watcher, pending, file, cache, loop, error, ghost>>

\* _on_change: nothing to update when the index has gone.
WatchLocks(s) ==
    /\ waiting[s].watch > 0
    /\ Free(s)
    /\ IF index[s] = NoIndex THEN UNCHANGED task ELSE Hold(s, "watch", "walk")
    /\ waiting' = [waiting EXCEPT ![s].watch = @ - 1]
    /\ UNCHANGED <<lru, index, status, mode, watcher, pending, file, cache, loop, error, ghost>>

\* The files are read, chunked and embedded.
build_index(s) ==
    /\ task[s].at = "walk"
    /\ task' = [task EXCEPT ![s].at = "install", ![s].v = Built(s)]
    /\ UNCHANGED <<lru, index, status, mode, watcher, pending, waiting, file, cache, loop, error, ghost>>

\* The request waiting for a build goes on when it is over, and fails with it.
LoopAfter(s, ok) ==
    loop' = IF task[s].by # "loop" THEN loop
            ELSE IF ok \/ s # loop.primary THEN [loop EXCEPT !.at = "next"] ELSE IdleLoop

\* Mutant: a failed build leaves the status as it is.
JobFailsQuietly(s) ==
    /\ s \in Editable
    /\ task[s].at = "walk"
    /\ Release(s)
    /\ UNCHANGED status
    /\ error' = [error EXCEPT ![s] = task[s].by = "watch"]
    /\ LoopAfter(s, FALSE)
    /\ UNCHANGED <<lru, index, mode, watcher, pending, waiting, file, cache, ghost>>

\* Reading or embedding raises.  A failed watcher update only notes the error.
JobFails(s) ==
    /\ s \in Editable
    /\ task[s].at = "walk"
    /\ Release(s)
    /\ status' = IF task[s].by = "watch" THEN status ELSE [status EXCEPT ![s] = "error"]
    /\ error' = [error EXCEPT ![s] = task[s].by = "watch"]
    /\ LoopAfter(s, FALSE)
    /\ UNCHANGED <<lru, index, mode, watcher, pending, waiting, file, cache, ghost>>

\* entry.index = ...; a watcher update changes the index it finds, if any.
InstallIndex(s) ==
    /\ task[s].at = "install"
    /\ \/ /\ task[s].by = "watch" /\ index[s] = NoIndex
          /\ Release(s)
          /\ UNCHANGED index
       \/ /\ task[s].by = "watch" => index[s] # NoIndex
          /\ index' = [index EXCEPT ![s] = task[s].v]
          /\ task' = [task EXCEPT ![s].at = IF task[s].by = "watch" THEN "embeddings" ELSE "status"]
    /\ UNCHANGED <<lru, status, mode, watcher, pending, waiting, file, cache, loop, error, ghost>>

\* Only a promotion that succeeds clears entry.error.
NoError(s) == error' = IF task[s].by = "promote" THEN [error EXCEPT ![s] = FALSE] ELSE error

\* entry.mode, entry.status.  A build looks at entry.index again, which an
\* eviction may have taken meanwhile, and fails; a promotion does not look.
InstallStatus(s) ==
    LET promoting == task[s].by = "promote" IN
    /\ task[s].at = "status"
    /\ mode' = [mode EXCEPT ![s] = IF promoting \/ s \in Small THEN "package" ELSE "hot"]
    /\ \/ /\ ~promoting /\ index[s] = NoIndex
          /\ status' = [status EXCEPT ![s] = "error"]
          /\ error' = [error EXCEPT ![s] = FALSE]
          /\ Release(s)
          /\ LoopAfter(s, FALSE)
       \/ /\ promoting \/ index[s] # NoIndex
          /\ status' = [status EXCEPT ![s] = IF task[s].v = NoChunks THEN "empty" ELSE "ready"]
          /\ IF task[s].v = NoChunks
             THEN Release(s) /\ LoopAfter(s, TRUE) /\ NoError(s)
             ELSE task' = [task EXCEPT ![s].at = "embeddings"] /\ UNCHANGED <<loop, error>>
    /\ UNCHANGED <<lru, index, watcher, pending, waiting, file, cache, ghost>>

\* save_index does nothing for an index without embeddings: what an earlier one
\* saved stays.
SaveEmbeddings(s) ==
    /\ task[s].at = "embeddings"
    /\ cache' = IF task[s].v = NoChunks THEN cache ELSE [cache EXCEPT ![s].emb = task[s].v]
    /\ task' = [task EXCEPT ![s].at = IF task[s].v = NoChunks THEN "watch" ELSE "chunks"]
    /\ UNCHANGED <<lru, index, status, mode, watcher, pending, waiting, file, loop, error, ghost>>

SaveChunks(s) ==
    /\ task[s].at = "chunks"
    /\ cache' = [cache EXCEPT ![s].chunks = task[s].v]
    /\ task' = [task EXCEPT ![s].at = "metadata"]
    /\ ghost' = [ghost EXCEPT !.broken = @ \ {s}]
    /\ UNCHANGED <<lru, index, status, mode, watcher, pending, waiting, file, loop, error>>

\* It names the width of the embeddings, which may have been dropped since.
SaveMetadata(s) ==
    /\ task[s].at = "metadata" /\ task[s].v # NoChunks
    /\ cache' = [cache EXCEPT ![s].meta = TRUE]
    /\ task' = [task EXCEPT ![s].at = "watch"]
    /\ UNCHANGED <<lru, index, status, mode, watcher, pending, waiting, file, loop, error, ghost>>

Broken(S) == ghost.broken \cup {s \in S : task[s].at = "chunks"}

\* Writing one of the three files raises: a build goes on without its cache, a
\* promotion fails with its index in place, an update notes the error.
SaveFails(s) ==
    LET building == task[s].by \in {"loop", "build"} IN
    /\ task[s].at \in {"embeddings", "chunks", "metadata"}
    /\ s \in Editable \/ (task[s].at = "metadata" /\ task[s].v = NoChunks)
    /\ ghost' = [ghost EXCEPT !.broken = Broken({s})]
    /\ IF building THEN task' = [task EXCEPT ![s].at = "watch"] ELSE Release(s)
    /\ status' = IF task[s].by = "promote" THEN [status EXCEPT ![s] = "error"] ELSE status
    /\ error' = IF building THEN error ELSE [error EXCEPT ![s] = task[s].by = "watch"]
    /\ UNCHANGED <<lru, index, mode, watcher, pending, waiting, file, cache, loop>>

\* A build attaches a watcher unless there is one; promotions and updates do not.
attach_watcher(s) ==
    /\ task[s].at = "watch"
    /\ IF task[s].by \in {"loop", "build"}
       THEN lru' = Touch(s) /\ watcher' = [watcher EXCEPT ![s] = TRUE]
       ELSE UNCHANGED <<lru, watcher>>
    /\ Release(s)
    /\ NoError(s)
    /\ LoopAfter(s, TRUE)
    /\ UNCHANGED <<index, status, mode, pending, waiting, file, cache, ghost>>

-----------------------------------------------------------------------------
(* Files and watcher threads *)

Edit(s) ==
    /\ s \in Editable /\ file[s] < MaxVersion
    /\ file' = [file EXCEPT ![s] = @ + 1]
    /\ pending' = [pending EXCEPT ![s] = @ \/ watcher[s]]
    /\ UNCHANGED <<lru, index, status, mode, watcher, waiting, task, cache, loop, error, ghost>>

\* Mutant: a batch that finds the scope locked is dropped.
DebounceTryLock(s) ==
    /\ pending[s]
    /\ waiting[s].watch = 0 /\ task[s].by # "watch"
    /\ pending' = [pending EXCEPT ![s] = FALSE]
    /\ waiting' = [waiting EXCEPT ![s].watch = IF index[s] = NoIndex \/ ~Free(s) THEN @ ELSE @ + 1]
    /\ UNCHANGED <<lru, index, status, mode, watcher, task, file, cache, loop, error, ghost>>

\* The debounce loop hands its batch over; the callback returns at once when
\* there is no index.
_debounce_loop(s) ==
    /\ pending[s]
    /\ waiting[s].watch = 0 /\ task[s].by # "watch"
    /\ pending' = [pending EXCEPT ![s] = FALSE]
    /\ waiting' = [waiting EXCEPT ![s].watch = IF index[s] = NoIndex THEN @ ELSE @ + 1]
    /\ UNCHANGED <<lru, index, status, mode, watcher, task, file, cache, loop, error, ghost>>

\* The process dies, with whatever its threads were at, and is started again.
ProcessRestarts ==
    /\ \E s \in Scopes : task[s].at \in Deaths
    /\ lru' = <<>>
    /\ index' = [s \in Scopes |-> NoIndex]
    /\ status' = [s \in Scopes |-> "pending"]
    /\ mode' = [s \in Scopes |-> "hot"]
    /\ watcher' = [s \in Scopes |-> FALSE]
    /\ pending' = [s \in Scopes |-> FALSE]
    /\ waiting' = [s \in Scopes |-> NoneWaiting]
    /\ task' = [s \in Scopes |-> NoTask]
    /\ error' = [s \in Scopes |-> FALSE]
    /\ loop' = IdleLoop
    /\ ghost' = [broken |-> Broken(Scopes), found |-> {}]
    /\ UNCHANGED <<file, cache>>

Worker(s) ==
    \/ BuildLocks(s)
    \/ PromoteLocks(s)
    \/ WatchLocks(s)
    \/ build_index(s)
    \/ JobFails(s)
    \/ InstallIndex(s)
    \/ InstallStatus(s)
    \/ SaveEmbeddings(s)
    \/ SaveChunks(s)
    \/ SaveMetadata(s)
    \/ SaveFails(s)
    \/ attach_watcher(s)
    \/ _debounce_loop(s)

Loop == EnsureNext \/ NothingToAnswer \/ Kickoff \/ LoopLocks \/ Answer

RegistryNext ==
    \/ \E r \in Requests : retrieve(r.primary, r.others, r.async)
    \/ Loop
    \/ \E E \in SUBSET Registered : evict_idle_indexes(E)
    \/ ProcessRestarts
    \/ \E s \in Scopes : Worker(s) \/ Edit(s)

\* Threads and the loop go on with what they began.
Fairness == WF_rvars(Loop) /\ \A s \in Scopes : WF_rvars(Worker(s))

RegistrySpec == RegistryInit /\ [][RegistryNext]_rvars /\ Fairness

-----------------------------------------------------------------------------
(* Properties *)

Working(s) == waiting[s].build > 0 \/ waiting[s].promote > 0 \/ task[s].by \in {"loop", "build", "promote"}

\* Clients are told to retry while the status is "indexing": then some thread
\* is at work on the scope, unless the last one to come found another's index
\* there and left the status as the request had set it.  Otherwise every
\* asynchronous request would be turned away for ever (_ensure_scope returns at
\* once when the status is "indexing").
IndexingMeansWork ==
    \A s \in Scopes : status[s] = "indexing" => Working(s) \/ s \in ghost.found

\* The cache that load_index accepts holds the embeddings of the very chunks
\* beside them, whichever threads saved it and whatever was evicted meanwhile,
\* once no save is under way and unless the last one was broken off between the
\* two files.  (Then as many old chunks as new embeddings do load.)
CacheIsOneBuild ==
    \A s \in Scopes :
        (CacheLoads(s) /\ task[s].at # "chunks" /\ s \notin ghost.broken) => cache[s].emb = cache[s].chunks

\* Evicting, promoting, building and updating at the same time never leave a
\* scope saying "evicted" while it holds an index that counts against the cap.
EvictedHoldsNothing ==
    \A s \in Scopes : status[s] = "evicted" => ~Loaded(s) \/ task[s].at # "none"

\* IndexingMeansWork, CacheIsOneBuild and EvictedHoldsNothing: what a scope's
\* entry and its cache say is so, whatever threads are at work on it.
RegistryConsistent == IndexingMeansWork /\ CacheIsOneBuild /\ EvictedHoldsNothing

\* What makes RegistryConsistent inductive: a job is of the scope's kind and
\* past its walk holds a version; a scope without chunks is never watched; who
\* finds "indexing" on a job that saves has started a build that waits for it;
\* an evicted scope gets an index back only from a job about to set its status.
Builders == {"loop", "build", "promote"}
Saving == {"embeddings", "chunks", "metadata", "watch"}
Job == [by : Builders \cup {Nobody, "watch"}, at : Saving \cup {"none", "walk", "install", "status"}, v : -1..MaxVersion]
Waiting == [build : Nat, promote : Nat, watch : Nat]
Statuses == {"pending", "indexing", "promoting", "ready", "empty", "error", "evicted"}
Handling ==
    [at : {"idle", "next", "kick", "lock", "building"}, todo : SUBSET Scopes,
     primary : Scopes \cup {NoScope}, scope : Scopes \cup {NoScope}, async : BOOLEAN]
RegistryTypeOK ==
    /\ index \in [Scopes -> -1..MaxVersion] /\ status \in [Scopes -> Statuses]
    /\ watcher \in [Scopes -> BOOLEAN] /\ pending \in [Scopes -> BOOLEAN]
    /\ waiting \in [Scopes -> Waiting] /\ task \in [Scopes -> Job]
    /\ file \in [Scopes -> 1..MaxVersion] /\ cache \in [Scopes -> CacheFiles]
    /\ ghost \in [broken : SUBSET Scopes, found : SUBSET Scopes]
    /\ loop \in Handling /\ (loop.at \in {"kick", "lock", "building"} => loop.scope \in Scopes)
TaskSound(s) ==
    /\ task[s] = NoTask \/ (task[s].by # Nobody /\ task[s].at # "none")
    /\ task[s].at \in {"install", "status", "embeddings", "chunks", "metadata"} => task[s].v # NoIndex
    /\ task[s].by = "watch" => task[s].at # "status"
CacheSound(s) ==
    /\ task[s].at = "chunks" => task[s].v \in {NoChunks, cache[s].emb}
    /\ (task[s].at # "chunks" /\ s \notin ghost.broken) => cache[s].chunks \in {0, cache[s].emb}
StatusSound(s) ==
    /\ status[s] = "indexing" => Working(s) \/ s \in ghost.found
    /\ (status[s] = "indexing" /\ task[s].by \in Builders /\ task[s].at \in Saving) => waiting[s].build > 0
    /\ status[s] = "evicted" => index[s] = NoIndex \/ (task[s].by \in Builders /\ task[s].at = "status")
RegistryInv == RegistryTypeOK /\ \A s \in Scopes : TaskSound(s) /\ CacheSound(s) /\ StatusSound(s)

\* A change seen by a watcher reaches the index, unless the index is dropped or
\* an error is noted (a failed update is not repeated).
WatchedEditsLand ==
    \A s \in Editable, v \in 3..MaxVersion :
        (pending[s] /\ file[s] = v) ~>
            (file[s] > v \/ index[s] \in {NoIndex, IndexOf(s, v)} \/ error[s])
=============================================================================
