------------------------------- MODULE Indexer -------------------------------
(***************************************************************************)
(* longctx_daemon/indexer.py over its two stores: the SQLite tables of      *)
(* sqlite_store.py and the embedding rows of memmap_store.py.  An Indexer   *)
(* has no lock: the watcher's worker thread, the cleanup tick and every     *)
(* add_project scan thread call it concurrently, and only single store      *)
(* calls are atomic (both stores hold a lock per call; SQLite autocommits). *)
(* Each store call is therefore a step of its own.                          *)
(*                                                                          *)
(* A file's content is the sequence of its chunk hashes, and stands for its *)
(* sha256; an embedding row holds the hash of the chunk it was computed     *)
(* from.  One project is modelled.                                          *)
(***************************************************************************)
EXTENDS Integers, Sequences, FiniteSets, FiniteSetsExt

CONSTANTS
    Workers,        \* the threads that call the indexer
    Paths,          \* the relative paths of the project
    Contents,       \* file contents, as sequences of chunk hashes
    Indexable,      \* the contents should_index accepts
    CanFail,        \* whether the embedder may raise
    CanCrash,       \* whether the process may die
    MaxOps,         \* bound: calls of the public API
    Missing,        \* no such file on disk
    NoPath,
    Zero            \* an all-zero row

Hashes == UNION {{c[i] : i \in DOMAIN c} : c \in Contents}

ASSUME ContentsAssumption == Contents \subseteq Seq(Hashes)
ASSUME IndexableAssumption == Indexable \subseteq Contents
ASSUME MissingAssumption == Missing \notin Contents
ASSUME NoPathAssumption == NoPath \notin Paths
ASSUME MaxOpsAssumption == MaxOps \in Nat

VARIABLES
    disk,       \* path |-> content or Missing
    project,    \* the project has a row in `projects`
    files,      \* table files: id |-> [path, hash]
    chunks,     \* table chunks: a set of [id, fid, ix, hash, row]
    emb,        \* the embedding store: num_rows, freelist, mm
    wk,         \* worker |-> the locals of the call it is in
    ops,        \* calls made so far
    settled     \* observation: worker |-> no edit since its full_scan began

vars == <<disk, project, files, chunks, emb, wk, ops, settled>>
tables == <<project, files, chunks>>

Idle == [pc |-> "idle", todo |-> {}, scan |-> FALSE, path |-> NoPath, to |-> NoPath,
         fid |-> 0, rest |-> {}, content |-> <<>>, free |-> {}, rows |-> <<>>]

-----------------------------------------------------------------------------
(* The stores *)

NoRow == -1

(* SELECT ... FROM files WHERE rel_path = p: the id, 0 when there is none. *)
get_file(p) ==
    IF \E i \in DOMAIN files : files[i].path = p
    THEN CHOOSE i \in DOMAIN files : files[i].path = p
    ELSE 0

(* INTEGER PRIMARY KEY without AUTOINCREMENT: one more than the largest. *)
NextId(ids) == 1 + Max({0} \cup ids)

get_chunks_by_file(fid) == {c \in chunks : c.fid = fid}

(* DELETE FROM chunks WHERE file_id = fid *)
WithoutFile(fid) == chunks \ get_chunks_by_file(fid)

(* DELETE FROM files, ON DELETE CASCADE. *)
StoreDeleteFile(fid) ==
    /\ files' = [i \in DOMAIN files \ {fid} |-> files[i]]
    /\ chunks' = WithoutFile(fid)

FreeRows(e) == {e.freelist[i] : i \in DOMAIN e.freelist}

(* MemmapEmbedStore.free_row: a row that is free already stays so. *)
free_row(e, row) ==
    IF row \in FreeRows(e) THEN e
    ELSE [e EXCEPT !.mm[row] = Zero, !.freelist = Append(@, row)]

(* The rank of i among the indices of a batch, which is handed out in order. *)
Rank(batch, i) == Cardinality({j \in batch : j <= i})

(* Mutant: the tail is one row too far. *)
RowsForBatchLate(e, batch) ==
    [i \in batch |-> IF Rank(batch, i) <= Len(e.freelist)
                     THEN e.freelist[Len(e.freelist) - Rank(batch, i) + 1]
                     ELSE e.num_rows + Rank(batch, i) - Len(e.freelist)]

(* The rows append_batch hands out to a batch of indices: the end of the    *)
(* freelist first, then the tail.                                           *)
RowsForBatch(e, batch) ==
    [i \in batch |-> IF Rank(batch, i) <= Len(e.freelist)
                     THEN e.freelist[Len(e.freelist) - Rank(batch, i) + 1]
                     ELSE e.num_rows + Rank(batch, i) - Len(e.freelist) - 1]

(* append_batch of the vectors of `hashes`, a function on the batch. *)
append_batch(e, hashes) ==
    LET n == Cardinality(DOMAIN hashes)
        recycled == Min({n, Len(e.freelist)})
        rows == RowsForBatch(e, DOMAIN hashes)
    IN [num_rows |-> e.num_rows + (n - recycled),
        freelist |-> SubSeq(e.freelist, 1, Len(e.freelist) - recycled),
        mm |-> [r \in DOMAIN e.mm \cup {rows[i] : i \in DOMAIN rows} |->
                  IF \E i \in DOMAIN rows : rows[i] = r
                  THEN hashes[CHOOSE i \in DOMAIN rows : rows[i] = r]
                  ELSE e.mm[r]]]

-----------------------------------------------------------------------------
Init ==
    /\ disk \in [Paths -> {Missing}]
    /\ project = FALSE
    /\ files = [i \in {} |-> i]
    /\ chunks = {}
    /\ emb = [num_rows |-> 0, freelist |-> <<>>, mm |-> [r \in {} |-> Zero]]
    /\ wk = [w \in Workers |-> Idle]
    /\ ops = 0
    /\ settled = [w \in Workers |-> FALSE]

(* The user, an editor or git changes a file. *)
Edit(p, c) ==
    /\ disk[p] # c
    /\ disk' = [disk EXCEPT ![p] = c]
    /\ settled' = [w \in Workers |-> FALSE]
    /\ UNCHANGED <<tables, emb, wk, ops>>

should_index(p) == disk[p] \in Indexable

Goto(w, rec) == wk' = [wk EXCEPT ![w] = rec]

(* One file of a batch is done; an exception ends the whole call. *)
FileDone(w) == [Idle EXCEPT !.pc = "batch", !.todo = wk[w].todo, !.scan = wk[w].scan]

Call(w) == wk[w].pc = "idle" /\ ops < MaxOps /\ ops' = ops + 1

-----------------------------------------------------------------------------
(* add_project: upsert of the project row; the walk is a call of its own. *)
add_project(w) ==
    /\ Call(w)
    /\ project' = TRUE
    /\ UNCHANGED <<disk, files, chunks, emb, wk, settled>>

(* update_files (update_file is a batch of one). *)
update_files(w, ps) ==
    /\ Call(w)
    /\ project
    /\ Goto(w, [Idle EXCEPT !.pc = "batch", !.todo = ps])
    /\ UNCHANGED <<disk, tables, emb, settled>>

(* full_scan: the walk yields the files present; it never looks for records *)
(* whose file is gone.                                                      *)
full_scan(w) ==
    /\ Call(w)
    /\ project
    /\ Goto(w, [Idle EXCEPT !.pc = "batch", !.scan = TRUE,
                            !.todo = {p \in Paths : disk[p] # Missing}])
    /\ settled' = [settled EXCEPT ![w] = TRUE]
    /\ UNCHANGED <<disk, tables, emb>>

(* The next file passes the filter chain, or is skipped.  update_file asks  *)
(* for the project each time and raises KeyError when it is gone.           *)
NextFile(w, p) ==
    /\ wk[w].pc = "batch" /\ p \in wk[w].todo
    /\ Goto(w, CASE ~wk[w].scan /\ ~project -> Idle
                 [] should_index(p) /\ (wk[w].scan \/ project) ->
                      [wk[w] EXCEPT !.pc = "read", !.todo = @ \ {p}, !.path = p]
                 [] OTHER -> [wk[w] EXCEPT !.todo = @ \ {p}])
    /\ UNCHANGED <<disk, tables, emb, ops, settled>>

(* The call returns.  full_scan first upserts the project row it read at    *)
(* its start, which inserts the row again if it was deleted meanwhile.      *)
BatchEnd(w) ==
    /\ wk[w].pc = "batch" /\ wk[w].todo = {}
    /\ project' = (project \/ wk[w].scan)
    /\ Goto(w, Idle)
    /\ UNCHANGED <<disk, files, chunks, emb, ops, settled>>

-----------------------------------------------------------------------------
(* _index_file *)

(* read_bytes; an unreadable file is skipped. *)
IndexRead(w) ==
    /\ wk[w].pc = "read"
    /\ Goto(w, IF disk[wk[w].path] = Missing
               THEN FileDone(w)
               ELSE [wk[w] EXCEPT !.pc = "lookup", !.content = disk[wk[w].path]])
    /\ UNCHANGED <<disk, tables, emb, ops, settled>>

(* Mutant: a file with a record is not looked at again. *)
LookupSkipsKnown(w) ==
    /\ wk[w].pc = "lookup"
    /\ LET existing == get_file(wk[w].path) IN
         Goto(w, IF existing # 0 THEN FileDone(w)
                 ELSE [wk[w] EXCEPT !.pc = "upsert", !.fid = existing])
    /\ UNCHANGED <<disk, tables, emb, ops, settled>>

(* An unchanged content hash makes the call a no-op. *)
IndexLookup(w) ==
    /\ wk[w].pc = "lookup"
    /\ LET existing == get_file(wk[w].path) IN
         Goto(w, IF existing # 0 /\ files[existing].hash = wk[w].content
                 THEN FileDone(w)
                 ELSE [wk[w] EXCEPT !.pc = "upsert", !.fid = existing])
    /\ UNCHANGED <<disk, tables, emb, ops, settled>>

(* stat, then upsert_file with the NEW hash: INSERT ... ON CONFLICT(path).  *)
(* Inserting raises when the project is gone (foreign key) or when the id   *)
(* remembered from the lookup belongs to another path by now.               *)
IndexUpsertFile(w) ==
    /\ wk[w].pc = "upsert"
    /\ LET p == wk[w].path
           existing == get_file(p)
           id == CASE existing # 0 -> existing
                   [] existing = 0 /\ wk[w].fid # 0 -> wk[w].fid
                   [] OTHER -> NextId(DOMAIN files)
           raises == existing = 0 /\ (~project \/ id \in DOMAIN files)
           rec == [path |-> p, hash |-> wk[w].content]
       IN CASE disk[p] = Missing -> Goto(w, FileDone(w)) /\ UNCHANGED files
            [] disk[p] # Missing /\ raises -> Goto(w, Idle) /\ UNCHANGED files
            [] OTHER ->
                 /\ files' = [i \in DOMAIN files \cup {id} |-> IF i = id THEN rec ELSE files[i]]
                 /\ Goto(w, [wk[w] EXCEPT !.pc = "diff", !.fid = id])
    /\ UNCHANGED <<disk, project, chunks, emb, ops, settled>>

(* The row kept for a hash: old_by_hash maps a hash to the last of the old  *)
(* chunks that has it, in chunk_index order.                                *)
KeptRow(old, h) ==
    LET same == {c \in old : c.hash = h}
        last == {c \in same : \A d \in same : d.ix < c.ix \/ (d.ix = c.ix /\ d.id <= c.id)}
    IN IF last = {} THEN NoRow ELSE (CHOOSE c \in last : TRUE).row

(* Mutant: all old rows are freed, kept or not. *)
VanishedAll(old, content) == old

Vanished(old, content) == {c \in old : \A i \in DOMAIN content : content[i] # c.hash}

(* get_chunks_by_file and the diff: rows to keep, rows to free.  A content  *)
(* without chunks keeps nothing and frees all.                              *)
IndexDiff(w) ==
    /\ wk[w].pc = "diff"
    /\ LET old == get_chunks_by_file(wk[w].fid)
           new == wk[w].content
       IN Goto(w, [wk[w] EXCEPT !.pc = "free",
                     !.free = Vanished(old, new),
                     !.rows = [i \in DOMAIN new |-> KeptRow(old, new[i])]])
    /\ UNCHANGED <<disk, tables, emb, ops, settled>>

(* One free_row of the loop that frees the vanished chunks (also the loops  *)
(* of delete_file and delete_project), in chunk_index order.                *)
NextToFree(w) == {c \in wk[w].free : \A d \in wk[w].free : c.ix <= d.ix}

FreeNext(w) ==
    /\ wk[w].pc \in {"free", "delete_free", "project_free"}
    /\ \E c \in NextToFree(w) :
         /\ emb' = free_row(emb, c.row)
         /\ Goto(w, [wk[w] EXCEPT !.free = @ \ {c}])
    /\ UNCHANGED <<disk, tables, ops, settled>>

ToEmbed(w) == {i \in DOMAIN wk[w].rows : wk[w].rows[i] = NoRow}

(* _encode_batch and append_batch for the chunks without a cached row. *)
IndexEmbed(w) ==
    /\ wk[w].pc = "free" /\ wk[w].free = {} /\ ToEmbed(w) # {}
    /\ LET new == RowsForBatch(emb, ToEmbed(w)) IN
         /\ emb' = append_batch(emb, [i \in ToEmbed(w) |-> wk[w].content[i]])
         /\ Goto(w, [wk[w] EXCEPT !.rows =
                       [i \in DOMAIN @ |-> IF i \in ToEmbed(w) THEN new[i] ELSE @[i]]])
    /\ UNCHANGED <<disk, tables, ops, settled>>

(* The embedder raises (out of memory, device lost): the exception leaves   *)
(* _index_file and ends the batch.                                          *)
EncodeFails(w) ==
    /\ CanFail
    /\ wk[w].pc = "free" /\ wk[w].free = {} /\ ToEmbed(w) # {}
    /\ Goto(w, Idle)
    /\ UNCHANGED <<disk, tables, emb, ops, settled>>

(* Mutant: the old chunks stay. *)
KeepOld(w) ==
    /\ wk[w].pc = "free" /\ wk[w].free = {} /\ ToEmbed(w) = {}
    /\ Goto(w, [wk[w] EXCEPT !.pc = "insert"])
    /\ UNCHANGED <<disk, tables, emb, ops, settled>>

(* delete_chunks_by_file, in its own autocommitted statement. *)
IndexDropOld(w) ==
    /\ wk[w].pc = "free" /\ wk[w].free = {} /\ ToEmbed(w) = {}
    /\ chunks' = WithoutFile(wk[w].fid)
    /\ Goto(w, [wk[w] EXCEPT !.pc = "insert"])
    /\ UNCHANGED <<disk, project, files, emb, ops, settled>>

NewChunks(w) ==
    {[id |-> NextId({c.id : c \in chunks}) + i - 1, fid |-> wk[w].fid, ix |-> i,
      hash |-> wk[w].content[i], row |-> wk[w].rows[i]] : i \in DOMAIN wk[w].rows}

(* upsert_chunks: inserts under the store's lock; the foreign key fails     *)
(* when the file was deleted meanwhile.                                     *)
upsert_chunks(w) ==
    /\ wk[w].pc = "insert"
    /\ IF wk[w].fid \in DOMAIN files \/ wk[w].rows = <<>>
       THEN chunks' = chunks \cup NewChunks(w) /\ Goto(w, FileDone(w))
       ELSE Goto(w, Idle) /\ UNCHANGED chunks
    /\ UNCHANGED <<disk, project, files, emb, ops, settled>>

-----------------------------------------------------------------------------
(* delete_file, rename_file, delete_project *)

delete_file(w, p) ==
    /\ Call(w)
    /\ Goto(w, [Idle EXCEPT !.pc = "delete", !.path = p])
    /\ UNCHANGED <<disk, tables, emb, settled>>

(* After delete_file: the rename that fell back on it indexes the new path. *)
AfterDelete(w) ==
    IF wk[w].to # NoPath /\ disk[wk[w].to] # Missing
    THEN [Idle EXCEPT !.pc = "read", !.path = wk[w].to]
    ELSE Idle

DeleteLookup(w) ==
    /\ wk[w].pc = "delete"
    /\ LET rec == get_file(wk[w].path) IN
         Goto(w, IF rec = 0 THEN AfterDelete(w)
                 ELSE [wk[w] EXCEPT !.pc = "delete_chunks", !.fid = rec])
    /\ UNCHANGED <<disk, tables, emb, ops, settled>>

DeleteReadChunks(w) ==
    /\ wk[w].pc = "delete_chunks"
    /\ Goto(w, [wk[w] EXCEPT !.pc = "delete_free",
                             !.free = get_chunks_by_file(wk[w].fid)])
    /\ UNCHANGED <<disk, tables, emb, ops, settled>>

(* The store's delete_file, once every row is freed. *)
DeleteRecord(w) ==
    /\ wk[w].pc = "delete_free" /\ wk[w].free = {}
    /\ StoreDeleteFile(wk[w].fid)
    /\ Goto(w, AfterDelete(w))
    /\ UNCHANGED <<disk, project, emb, ops, settled>>

(* rename_file up to the choice of path: nothing to rename, a target that   *)
(* may not be indexed (drop the old record), or the cheap path.             *)
rename_file(w, p, q) ==
    /\ Call(w)
    /\ project /\ p # q /\ get_file(p) # 0
    /\ Goto(w, IF should_index(q)
               THEN [Idle EXCEPT !.pc = "rename", !.path = p, !.to = q, !.fid = get_file(p)]
               ELSE [Idle EXCEPT !.pc = "delete", !.path = p])
    /\ UNCHANGED <<disk, tables, emb, settled>>

(* The store's rename_file: UPDATE files SET rel_path, which raises when    *)
(* another record has the path (UNIQUE) and then falls back on delete_file  *)
(* and _index_file.                                                         *)
RenameRecord(w) ==
    /\ wk[w].pc = "rename"
    /\ IF get_file(wk[w].to) \notin {0, wk[w].fid} /\ wk[w].fid \in DOMAIN files
       THEN Goto(w, [wk[w] EXCEPT !.pc = "delete"]) /\ UNCHANGED files
       ELSE /\ files' = [i \in DOMAIN files |->
                           IF i = wk[w].fid THEN [files[i] EXCEPT !.path = wk[w].to] ELSE files[i]]
            /\ Goto(w, Idle)
    /\ UNCHANGED <<disk, project, chunks, emb, ops, settled>>

(* delete_project: list the files, free the rows of each, drop the project. *)
delete_project(w) ==
    /\ Call(w)
    /\ Goto(w, [Idle EXCEPT !.pc = "project_free", !.rest = DOMAIN files])
    /\ UNCHANGED <<disk, tables, emb, settled>>

ProjectNextFile(w) ==
    /\ wk[w].pc = "project_free" /\ wk[w].free = {}
    /\ \E fid \in wk[w].rest :
         Goto(w, [wk[w] EXCEPT !.rest = @ \ {fid}, !.free = get_chunks_by_file(fid)])
    /\ UNCHANGED <<disk, tables, emb, ops, settled>>

ProjectDrop(w) ==
    /\ wk[w].pc = "project_free" /\ wk[w].free = {} /\ wk[w].rest = {}
    /\ project' = FALSE
    /\ files' = [i \in {} |-> i]
    /\ chunks' = {}
    /\ Goto(w, Idle)
    /\ UNCHANGED <<disk, emb, ops, settled>>

-----------------------------------------------------------------------------
(* The process dies: calls vanish, both stores keep what they have.  A      *)
(* crash inside upsert_chunks keeps the rows inserted so far (autocommit),  *)
(* one inside free_row may have zeroed the row without freeing it.          *)
Crash ==
    /\ CanCrash
    /\ \/ UNCHANGED <<chunks, emb>>
       \/ \E w \in Workers : \E k \in 1 .. Cardinality(DOMAIN wk[w].rows) - 1 :
            /\ wk[w].pc = "insert" /\ wk[w].fid \in DOMAIN files
            /\ chunks' = chunks \cup {c \in NewChunks(w) : c.ix <= k}
            /\ UNCHANGED emb
       \/ \E w \in Workers : \E c \in NextToFree(w) :
            /\ c.row \notin FreeRows(emb)
            /\ emb' = [emb EXCEPT !.mm[c.row] = Zero]
            /\ UNCHANGED chunks
    /\ wk' = [w \in Workers |-> Idle]
    /\ settled' = [w \in Workers |-> FALSE]
    /\ UNCHANGED <<disk, project, files, ops>>

-----------------------------------------------------------------------------
Step(w) ==
    \/ \E p \in Paths : NextFile(w, p)
    \/ BatchEnd(w)
    \/ IndexRead(w) \/ IndexLookup(w) \/ IndexUpsertFile(w) \/ IndexDiff(w)
    \/ FreeNext(w) \/ IndexEmbed(w) \/ IndexDropOld(w) \/ upsert_chunks(w)
    \/ DeleteLookup(w) \/ DeleteReadChunks(w) \/ DeleteRecord(w)
    \/ RenameRecord(w) \/ ProjectNextFile(w) \/ ProjectDrop(w)

CallAny(w) ==
    \/ add_project(w)
    \/ full_scan(w)
    \/ \E ps \in (SUBSET Paths) \ {{}} : update_files(w, ps)
    \/ \E p \in Paths : delete_file(w, p)
    \/ \E p, q \in Paths : rename_file(w, p, q)
    \/ delete_project(w)

Next ==
    \/ \E p \in Paths, c \in Contents \cup {Missing} : Edit(p, c)
    \/ \E w \in Workers : CallAny(w) \/ Step(w) \/ EncodeFails(w)
    \/ Crash

Spec == Init /\ [][Next]_vars

-----------------------------------------------------------------------------
(* Properties *)

Quiet == \A w \in Workers : wk[w].pc = "idle"

Free == FreeRows(emb)

Referenced == {c.row : c \in chunks}

Points == {"idle", "batch", "read", "lookup", "upsert", "diff", "free", "insert",
           "delete", "delete_chunks", "delete_free", "rename", "project_free"}

Chunk == [id : Nat, fid : Nat, ix : Nat, hash : Hashes, row : Nat]

Locals == [pc : Points, todo : SUBSET Paths, scan : BOOLEAN, path : Paths \cup {NoPath},
           to : Paths \cup {NoPath}, fid : Nat, rest : SUBSET Nat,
           content : Contents \cup {<<>>}, free : SUBSET Chunk, rows : Seq(Nat \cup {NoRow})]

(* Every variable has the type the code gives it. *)
TypeOK ==
    /\ disk \in [Paths -> Contents \cup {Missing}]
    /\ project \in BOOLEAN
    /\ DOMAIN files \subseteq Nat \ {0} /\ IsFiniteSet(DOMAIN files)
    /\ files \in [DOMAIN files -> [path : Paths, hash : Contents]]
    /\ chunks \subseteq Chunk /\ IsFiniteSet(chunks)
    /\ emb = [num_rows |-> emb.num_rows, freelist |-> emb.freelist, mm |-> emb.mm]
    /\ wk \in [Workers -> Locals]
    /\ ops \in 0 .. MaxOps
    /\ settled \in [Workers -> BOOLEAN]

(* The chunks stored for a file are those of content c, each exactly once.   *)
StoredAs(fid, c) ==
    LET stored == get_chunks_by_file(fid) IN
    /\ \A i \in DOMAIN c : \E k \in stored : k.ix = i
    /\ \A k \in stored : k.ix \in DOMAIN c /\ k.hash = c[k.ix]
    /\ \A k, l \in stored : k.ix = l.ix => k = l

(* Between calls the content hash of a file record describes the chunks that *)
(* are stored.  The no-op shortcut of _index_file trusts the hash alone, so  *)
(* where this fails the file is never indexed again until it changes.        *)
HashDescribesChunks ==
    Quiet => \A fid \in DOMAIN files : StoredAs(fid, files[fid].hash)

(* Between calls the row of every chunk is allocated and holds the embedding *)
(* of that chunk's text: dense search never scores one text and cites        *)
(* another.                                                                  *)
RowsHoldTheirChunk ==
    Quiet => \A c \in chunks : c.row \notin Free /\ emb.mm[c.row] = c.hash

(* memmap_store.py: "One physical row per chunk".  Two chunks never share    *)
(* one, or freeing the row of one takes the embedding of the other.          *)
OneRowPerChunk ==
    Quiet => \A c, d \in chunks : c.row = d.row => c = d

(* Between calls every allocated embedding row belongs to a chunk: nothing   *)
(* else could ever free it.                                                  *)
NoRowLeaks == Quiet => (0 .. emb.num_rows - 1) \ Free \subseteq Referenced

(* RowsHoldTheirChunk, OneRowPerChunk and NoRowLeaks: between calls chunks   *)
(* and allocated embedding rows correspond one to one.                       *)
RowsMatchChunks == RowsHoldTheirChunk /\ OneRowPerChunk /\ NoRowLeaks

(* Rows named by a chunk or by a call in progress exist, so free_row never   *)
(* raises IndexError half-way through a loop: with any number of threads,    *)
(* and across crashes.                                                       *)
RowsInRange ==
    /\ Referenced \subseteq 0 .. emb.num_rows - 1
    /\ \A w \in Workers : \A c \in wk[w].free : c.row \in 0 .. emb.num_rows - 1

(* What makes RowsInRange inductive: the freelist names rows of the store,   *)
(* each once, and so do the rows a call has; when it inserts, it has them    *)
(* all.                                                                      *)
RowsOf(e) == 0 .. e.num_rows - 1

StoreSound(e) ==
    /\ e.num_rows \in Nat
    /\ e.freelist \in Seq(RowsOf(e))
    /\ \A i, j \in DOMAIN e.freelist : e.freelist[i] = e.freelist[j] => i = j
    /\ e.mm \in [RowsOf(e) -> Hashes \cup {Zero}]

CallSound(l, e) ==
    /\ l.pc \in {"read", "lookup", "upsert", "diff", "free", "insert"} => l.path \in Paths
    /\ l.pc \in {"lookup", "upsert", "diff", "free", "insert"} => l.content \in Contents
    /\ IF l.pc \in {"free", "insert"} THEN DOMAIN l.rows = DOMAIN l.content ELSE l.rows = <<>>
    /\ \A i \in DOMAIN l.rows : l.rows[i] \in RowsOf(e) \/ (l.rows[i] = NoRow /\ l.pc = "free")
    /\ l.pc \notin {"free", "delete_free", "project_free"} => l.free = {}
    /\ \A c \in l.free : c.row \in RowsOf(e)
    /\ l.pc = "rename" => l.to \in Paths

RangeInv ==
    /\ TypeOK
    /\ StoreSound(emb)
    /\ Referenced \subseteq RowsOf(emb)
    /\ \A w \in Workers : CallSound(wk[w], emb)

(* With one caller, no failures and contents without equal chunks (README,   *)
(* section 5, says what happens otherwise) the three properties above hold   *)
(* because of what is so in mid-call.  The call has taken over from the      *)
(* table, or freed, the rows of some chunks that are still in it; these are  *)
(* the others:                                                               *)
Stored(cs, l) ==
    {c \in cs : \/ c \in l.free
                \/ /\ ~(l.pc \in {"free", "delete_free"} /\ c.fid = l.fid)
                   /\ ~(l.pc = "project_free" /\ c.fid \notin l.rest)}

(* The indices of the new chunks that have their row. *)
Taken(l) == {i \in DOMAIN l.rows : l.rows[i] # NoRow}

(* Each allocated row belongs to one chunk of `stored`, or to one index      *)
(* taken by the call, and holds its embedding.                               *)
RowsOwned(stored, l, e) ==
    /\ \A c \in stored : c.row \in RowsOf(e) \ FreeRows(e) /\ e.mm[c.row] = c.hash
    /\ \A c, d \in stored : c.row = d.row => c = d
    /\ \A i \in Taken(l) : l.rows[i] \notin FreeRows(e) /\ e.mm[l.rows[i]] = l.content[i]
    /\ \A i, j \in Taken(l) : l.rows[i] = l.rows[j] => i = j
    /\ \A i \in Taken(l), c \in stored : l.rows[i] # c.row
    /\ \A r \in RowsOf(e) \ FreeRows(e) :
         (\E c \in stored : c.row = r) \/ (\E i \in Taken(l) : l.rows[i] = r)

Indexing(l) == l.pc \in {"diff", "free", "insert"}

(* A record describes its chunks except while they are being replaced; the   *)
(* old chunks of that file still differ in their hashes.                     *)
FilesSound(l) ==
    /\ \A i, j \in DOMAIN files : files[i].path = files[j].path => i = j
    /\ \A c \in chunks : c.fid \in DOMAIN files
    /\ \A fid \in DOMAIN files : ~(Indexing(l) /\ fid = l.fid) => StoredAs(fid, files[fid].hash)
    /\ l.pc \in {"diff", "free"} =>
         \A c, d \in get_chunks_by_file(l.fid) : c.hash = d.hash => c = d
    /\ l.pc = "insert" => get_chunks_by_file(l.fid) = {}

InHand(l) == l.pc \in {"read", "lookup", "upsert", "diff", "free", "insert"}

(* What the call remembers is still so. *)
CallFits(l) ==
    /\ l.pc = "upsert" => l.fid = get_file(l.path)
    /\ Indexing(l) => l.fid \in DOMAIN files /\ files[l.fid] = [path |-> l.path, hash |-> l.content]
    /\ l.pc \in {"free", "delete_free"} => l.free \subseteq get_chunks_by_file(l.fid)
    /\ l.pc = "project_free" => l.rest \subseteq DOMAIN files
    /\ l.pc = "project_free" => l.free \subseteq {c \in chunks : c.fid \notin l.rest}
    /\ l.scan => l.pc = "batch" \/ InHand(l)

(* A file is recorded with its content on disk. *)
Recorded(p) == \E fid \in DOMAIN files : files[fid] = [path |-> p, hash |-> disk[p]]

(* A scan has recorded what it went over, and works on what is on disk.      *)
ScanSound(l) ==
    /\ \A p \in Paths : should_index(p) /\ p \notin l.todo /\ ~(InHand(l) /\ p = l.path) => Recorded(p)
    /\ InHand(l) /\ l.pc # "read" => l.content = disk[l.path]

OneCallerInv ==
    \A w \in Workers :
        /\ RowsOwned(Stored(chunks, wk[w]), wk[w], emb)
        /\ FilesSound(wk[w])
        /\ CallFits(wk[w])
        /\ wk[w].scan /\ settled[w] => ScanSound(wk[w])

(* A full_scan during which nothing was edited leaves every indexable file   *)
(* of the project indexed with its current content.                          *)
ScanIndexesAll ==
    [][\A w \in Workers :
         BatchEnd(w) /\ wk[w].scan /\ settled[w] =>
           \A p \in Paths : should_index(p) =>
              /\ get_file(p) # 0
              /\ files[get_file(p)].hash = disk[p]
              /\ StoredAs(get_file(p), disk[p])]_vars
=============================================================================
